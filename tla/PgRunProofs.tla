---------------------------- MODULE PgRunProofs -----------------------------
(***************************************************************************)
(* Theorems about a run of the Postgres adapter, for every plan, every     *)
(* table and schema, any number of writes of others between its queries,   *)
(* and any failures of them.                                               *)
(***************************************************************************)
EXTENDS PgRun, TickListsProofs

RunType ==
    /\ plan \in Plans
    /\ table \in Seq(Rows)
    /\ now \in Int
    /\ results \in Seq(Verdict)
    /\ Len(results) <= Len(plan)
    /\ writes \in Nat

\* A connection is held for the query at hand, and only for one that can be asked.
ClientInv ==
    client = "held" /\ outcome = "running" =>
        Running /\ ~ConfigError(Current) /\ ~NotPushedDown(Current)

\* What has a verdict was refused by nobody.
Accepted(a) == ~ConfigError(a) /\ (~NotPushedDown(a) => ~QueryError(a, Schema))

AnsweredInv ==
    /\ \A i \in DOMAIN results : Accepted(plan[i])
    /\ outcome = "ok" => Len(results) = Len(plan)

IInv ==
    /\ RunType /\ ClientInv /\ AnsweredInv
    /\ FailsOutliveInserts
    /\ QuietRunsAreConsistent

-----------------------------------------------------------------------------
(* The assertions.                                                         *)

LEMMA VerdictIs ==
    ASSUME NEW a, NEW rows, NEW t
    PROVE  /\ a.kind \in {"NotNull", "Between", "Regex", "Enum"} =>
                Verdict_(a, rows, t) = PassIf(Counted(a, rows) = {})
           /\ a.kind = "Unique" =>
                Verdict_(a, rows, t) = PassIf(DuplicateGroups(rows, {a.column}) = {})
           /\ a.kind = "UniqueGroup" /\ a.columns # {} =>
                Verdict_(a, rows, t) = PassIf(DuplicateGroups(rows, a.columns) = {})
           /\ a.kind = "RowCount" => Verdict_(a, rows, t) = PassIf(Within(Len(rows), a.low, a.high))
           /\ a.kind = "Freshness" => Verdict_(a, rows, t) = PassIf(FreshEnough(a, rows, t))
           /\ NotPushedDown(a) => Verdict_(a, rows, t) = "Error"
BY DEF Verdict_, NotPushedDown

LEMMA VerdictType ==
    ASSUME NEW a, a.kind \in AssertionKinds, NEW rows, NEW t
    PROVE  Verdict_(a, rows, t) \in Verdict
<1>1. NotPushedDown(a) \/ a.kind \in {"NotNull", "Between", "Regex", "Enum", "Unique", "RowCount", "Freshness"}
        \/ (a.kind = "UniqueGroup" /\ a.columns # {})
  BY DEF NotPushedDown, AssertionKinds
<1> QED BY <1>1, VerdictIs DEF PassIf, Verdict

\* Only Freshness looks at the clock.
LEMMA Timeless ==
    ASSUME NEW a, a.kind \in AssertionKinds, a.kind # "Freshness", NEW rows, NEW t, NEW u
    PROVE  Verdict_(a, rows, t) = Verdict_(a, rows, u)
<1>1. NotPushedDown(a) \/ a.kind \in {"NotNull", "Between", "Regex", "Enum", "Unique", "RowCount"}
        \/ (a.kind = "UniqueGroup" /\ a.columns # {})
  BY DEF NotPushedDown, AssertionKinds
<1>2. CASE NotPushedDown(a)
  BY <1>2, VerdictIs
<1>3. CASE a.kind \in {"NotNull", "Between", "Regex", "Enum"}
  BY <1>3, VerdictIs DEF PassIf
<1>4. CASE a.kind = "Unique"
  BY <1>4, VerdictIs DEF PassIf
<1>5. CASE a.kind = "RowCount"
  BY <1>5, VerdictIs DEF PassIf
<1>6. CASE a.kind = "UniqueGroup" /\ a.columns # {}
  BY <1>6, VerdictIs DEF PassIf
<1> QED BY <1>1, <1>2, <1>3, <1>4, <1>5, <1>6

\* A row more takes no violating row, and no group of two rows, away.
LEMMA InsertKeepsFail ==
    ASSUME NEW a, a.kind \in RowLevel, NEW rows \in Seq(Rows), NEW row \in Rows, NEW t, NEW u,
           Verdict_(a, rows, t) = "Fail"
    PROVE  Verdict_(a, Append(rows, row), u) = "Fail"
<1> DEFINE more == Append(rows, row)
<1> SUFFICES Verdict_(a, more, u) = "Fail"
  OBVIOUS
<1>1. \A i \in DOMAIN rows : i \in DOMAIN more /\ more[i] = rows[i]
  OBVIOUS
<1> HIDE DEF more
<1>2. CASE a.kind \in {"NotNull", "Between", "Regex", "Enum"}
  <2>1. PICK i \in Counted(a, rows) : TRUE
    BY <1>2, VerdictIs DEF PassIf
  <2>2. i \in Counted(a, more)
    <3>1. CASE a.kind = "NotNull"
      BY <1>1, <2>1, <3>1 DEF Counted, NonNull
    <3>2. CASE a.kind = "Between"
      BY <1>1, <2>1, <3>2 DEF Counted, NonNull
    <3>3. CASE a.kind = "Regex"
      BY <1>1, <2>1, <3>3 DEF Counted, NonNull
    <3>4. CASE a.kind = "Enum"
      BY <1>1, <2>1, <3>4 DEF Counted, NonNull
    <3> QED BY <1>2, <3>1, <3>2, <3>3, <3>4
  <2> QED BY <1>2, <2>2, VerdictIs DEF PassIf
<1>3. ASSUME NEW columns, DuplicateGroups(rows, columns) # {}
      PROVE  DuplicateGroups(more, columns) # {}
  <2>1. PICK i \in DOMAIN rows, k \in DOMAIN rows :
          k # i /\ [c \in columns |-> rows[k][c]] = [c \in columns |-> rows[i][c]]
    BY <1>3 DEF DuplicateGroups
  <2>2. /\ i \in DOMAIN more /\ k \in DOMAIN more /\ k # i
        /\ [c \in columns |-> more[k][c]] = [c \in columns |-> more[i][c]]
    BY <1>1, <2>1
  <2>3. [c \in columns |-> more[i][c]] \in DuplicateGroups(more, columns)
    BY <2>2 DEF DuplicateGroups
  <2> QED BY <2>3
<1>4. CASE a.kind = "Unique"
  BY <1>3, <1>4, VerdictIs DEF PassIf
<1>5. CASE a.kind = "UniqueGroup"
  <2>1. a.columns # {}
    BY <1>5, VerdictIs DEF NotPushedDown
  <2> QED BY <1>3, <1>5, <2>1, VerdictIs DEF PassIf
<1> QED BY <1>2, <1>4, <1>5 DEF RowLevel

-----------------------------------------------------------------------------
(* MAX of a column.                                                        *)

LEMMA ValuesFinite ==
    ASSUME NEW rows \in Seq(Rows), NEW column
    PROVE  IsFiniteSet(Values(rows, column))
<1> DEFINE f == [i \in NonNull(rows, column) |-> rows[i][column]]
<1>1. IsFiniteSet(NonNull(rows, column))
  <2>1. IsFiniteSet(1 .. Len(rows))
    BY FS_Interval
  <2>2. NonNull(rows, column) \in SUBSET (1 .. Len(rows))
    BY DEF NonNull
  <2> QED BY <2>1, <2>2, FS_Subset
<1>2. f \in Surjection(NonNull(rows, column), Values(rows, column))
  BY DEF Surjection, Values
<1> QED BY <1>1, <1>2, FS_Surjection

\* What was stale stays stale: the newest value does not move while nobody writes.
LEMMA StaleLater ==
    ASSUME NEW a, a.kind = "Freshness", a.within_seconds \in Int, Accepted(a),
           NEW rows \in Seq(Rows), NEW t \in Int, Verdict_(a, rows, t) = "Fail"
    PROVE  Verdict_(a, rows, t + 1) = "Fail"
<1>1. a.column \in Columns(Schema) /\ TypeOf(Schema, a.column) = "Timestamp"
  <2>1. ~NotPushedDown(a)
    BY DEF NotPushedDown
  <2>2. QueryColumns(a) = {a.column}
    BY DEF QueryColumns
  <2>3. \A type : Comparable(a, type) => type = "Timestamp"
    BY DEF Comparable
  <2> QED BY <2>1, <2>2, <2>3 DEF Accepted, QueryError
<1>2. \A row \in Rows : row[a.column] = NULL \/ row[a.column] \in Int
  <2>1. PICK f \in {Schema[i] : i \in DOMAIN Schema} : f.name = a.column /\ f.type = "Timestamp"
    BY <1>1 DEF Columns, TypeOf
  <2> QED BY <2>1, RowsAssumption
<1>3. Values(rows, a.column) \in SUBSET Int /\ IsFiniteSet(Values(rows, a.column))
  <2>1. \A i \in DOMAIN rows : rows[i] \in Rows
    OBVIOUS
  <2> QED BY <1>2, <2>1, ValuesFinite DEF Values, NonNull
<1>4. ~FreshEnough(a, rows, t)
  BY VerdictIs DEF PassIf
<1>5. ~FreshEnough(a, rows, t + 1)
  <2>1. CASE Values(rows, a.column) = {}
    BY <2>1 DEF FreshEnough
  <2>2. CASE Values(rows, a.column) # {}
    <3>1. PICK m \in Int : m = Max(Values(rows, a.column))
      BY <1>3, <2>2, MaxExists
    <3>2. PICK k \in Int : k = a.within_seconds * PerSecond
      BY TimesAssumption
    <3>3. ~(t - m <= k)
      BY <1>4, <2>2, <3>1, <3>2 DEF FreshEnough
    <3>4. ~((t + 1) - m <= k)
      BY <3>3
    <3> QED BY <3>1, <3>2, <3>4 DEF FreshEnough
  <2> QED BY <2>1, <2>2
<1> QED BY <1>5, VerdictIs DEF PassIf
-----------------------------------------------------------------------------
(* The run.                                                                *)

LEMMA PlanIs ==
    ASSUME RunType
    PROVE  /\ Len(plan) \in Nat /\ DOMAIN plan = 1 .. Len(plan)
           /\ Len(results) \in Nat /\ DOMAIN results = 1 .. Len(results)
           /\ \A i \in DOMAIN results : i \in DOMAIN plan /\ results[i] \in Verdict
           /\ \A i \in DOMAIN plan :
                /\ plan[i].kind \in AssertionKinds
                /\ plan[i].kind = "Freshness" => plan[i].within_seconds \in Int
           /\ Running => Len(results) + 1 \in DOMAIN plan
<1>1. plan \in Seq({plan[i] : i \in DOMAIN plan})
  BY PlansAssumption DEF RunType
<1> QED BY <1>1, PlansAssumption DEF RunType, Running

\* A verdict is added to the others.
LEMMA AddedVerdict ==
    ASSUME RunType, Running, NEW v \in Verdict, results' = Append(results, v)
    PROVE  /\ results' \in Seq(Verdict) /\ Len(results') = Len(results) + 1 /\ Len(results') <= Len(plan)
           /\ DOMAIN results' = DOMAIN results \cup {Len(results) + 1}
           /\ \A i \in DOMAIN results : results'[i] = results[i]
           /\ results'[Len(results) + 1] = v
BY PlanIs DEF RunType, Running

LEMMA RunTypeStep ==
    ASSUME RunType, [Next]_vars
    PROVE  RunType'
<1> USE DEF RunType, server, EndWith
<1>1. CASE RejectUrl \/ Connected \/ RejectConfig \/ Acquire \/ AcquireFails \/ QueryFails \/ Finish
  BY <1>1 DEF RejectUrl, Connected, RejectConfig, Acquire, AcquireFails, QueryFails, Finish
<1>2. CASE AnswerWithoutQuery
  BY <1>2, AddedVerdict DEF AnswerWithoutQuery, Verdict
<1>3. CASE Query
  <2>1. Verdict_(Current, table, now) \in Verdict
    BY <1>3, PlanIs, VerdictType DEF Query, Current
  <2> QED BY <1>3, <2>1, AddedVerdict DEF Query
<1>4. CASE Insert
  <2>1. PICK row \in Rows : Write(Append(table, row))
    BY <1>4 DEF Insert
  <2>2. table' = Append(table, row) /\ Append(table, row) \in Seq(Rows)
    BY <2>1 DEF Write
  <2> QED BY <2>1, <2>2 DEF Write
<1>5. CASE Delete
  <2>1. PICK i \in DOMAIN table : Write(SubSeq(table, 1, i - 1) \o SubSeq(table, i + 1, Len(table)))
    BY <1>5 DEF Delete
  <2>2. i \in 1 .. Len(table) /\ Len(table) \in Nat
    OBVIOUS
  <2>3. SubSeq(table, 1, i - 1) \in Seq(Rows) /\ SubSeq(table, i + 1, Len(table)) \in Seq(Rows)
    BY <2>2
  <2>4. SubSeq(table, 1, i - 1) \o SubSeq(table, i + 1, Len(table)) \in Seq(Rows)
    BY <2>3
  <2> QED BY <2>1, <2>4 DEF Write
<1>6. CASE Advance
  BY <1>6 DEF Advance
<1>7. CASE UNCHANGED vars
  BY <1>7 DEF vars
<1> QED BY <1>1, <1>2, <1>3, <1>4, <1>5, <1>6, <1>7 DEF Next, Terminated

LEMMA ClientStep ==
    ASSUME RunType, ClientInv, [Next]_vars
    PROVE  ClientInv'
<1> USE DEF ClientInv, server, EndWith
<1>1. CASE RejectUrl \/ Connected \/ RejectConfig \/ AcquireFails \/ QueryFails \/ Finish
  BY <1>1 DEF RejectUrl, Connected, RejectConfig, AcquireFails, QueryFails, Finish
<1>2. CASE Acquire
  <2>1. UNCHANGED <<plan, results, outcome>> /\ NeedsClient
    BY <1>2 DEF Acquire
  <2> QED BY <2>1 DEF NeedsClient, Running, Current
<1>3. CASE AnswerWithoutQuery
  <2>1. UNCHANGED <<client, outcome>> /\ NotPushedDown(Current) /\ outcome = "running"
    BY <1>3 DEF AnswerWithoutQuery, Running
  <2> QED BY <2>1
<1>4. CASE Query
  BY <1>4 DEF Query
<1>5. CASE Insert \/ Delete \/ Advance
  <2>1. UNCHANGED <<plan, client, results, outcome>>
    BY <1>5 DEF Insert, Delete, Advance, Write
  <2> QED BY <2>1 DEF Running, Current
<1>6. CASE UNCHANGED vars
  BY <1>6 DEF vars, Running, Current
<1> QED BY <1>1, <1>2, <1>3, <1>4, <1>5, <1>6 DEF Next, Terminated

\* What a step does to the verdicts: it adds one, of the assertion whose turn it is,
\* or leaves them alone.
LEMMA ResultsMove ==
    ASSUME RunType, ClientInv, [Next]_vars
    PROVE  /\ plan' = plan
           /\ \/ results' = results
              \/ /\ Running /\ Accepted(Current) /\ UNCHANGED server /\ outcome' = "running"
                 /\ results' = Append(results, Verdict_(Current, table, now))
<1> USE DEF EndWith
<1>1. CASE AnswerWithoutQuery
  <2>1. /\ Running /\ NotPushedDown(Current) /\ results' = Append(results, "Error")
        /\ UNCHANGED <<plan, server, outcome>>
    BY <1>1 DEF AnswerWithoutQuery
  <2>2. Verdict_(Current, table, now) = "Error"
    BY <2>1, VerdictIs
  <2>3. ~ConfigError(Current)
    BY <2>1 DEF NotPushedDown, ConfigError
  <2> QED BY <2>1, <2>2, <2>3 DEF Accepted, Running
<1>2. CASE Query
  <2>1. /\ Running /\ client = "held" /\ ~QueryError(Current, Schema)
        /\ results' = Append(results, Verdict_(Current, table, now))
        /\ UNCHANGED <<plan, server, outcome>>
    BY <1>2 DEF Query
  <2> QED BY <2>1 DEF ClientInv, Accepted, Running
<1>3. CASE ~AnswerWithoutQuery /\ ~Query
  BY <1>3 DEF Next, Terminated, vars, RejectUrl, Connected, RejectConfig, Acquire, AcquireFails,
              QueryFails, Finish, Insert, Delete, Write, Advance
<1> QED BY <1>1, <1>2, <1>3

LEMMA AnsweredStep ==
    ASSUME RunType, ClientInv, AnsweredInv, [Next]_vars
    PROVE  AnsweredInv'
<1>1. CASE results' = results
  <2>1. plan' = plan /\ \A i \in DOMAIN results' : Accepted(plan'[i])
    BY <1>1, ResultsMove DEF AnsweredInv
  <2>2. outcome' = "ok" => outcome = "ok" \/ Finish
    BY DEF Next, Terminated, vars, RejectUrl, Connected, RejectConfig, AnswerWithoutQuery, Acquire,
           AcquireFails, Query, QueryFails, Insert, Delete, Write, Advance, EndWith
  <2>3. outcome' = "ok" => Len(results) = Len(plan)
    BY <2>2 DEF AnsweredInv, Finish
  <2> QED BY <1>1, <2>1, <2>3 DEF AnsweredInv, Accepted
<1>2. CASE results' # results
  <2>1. /\ plan' = plan /\ outcome' = "running" /\ Running /\ Accepted(Current)
        /\ results' = Append(results, Verdict_(Current, table, now))
        /\ Verdict_(Current, table, now) \in Verdict
    BY <1>2, ResultsMove, PlanIs, VerdictType DEF Current
  <2>2. DOMAIN results' = DOMAIN results \cup {Len(results) + 1}
    BY <2>1, AddedVerdict
  <2> QED BY <2>1, <2>2 DEF AnsweredInv, Accepted, Current
<1> QED BY <1>1, <1>2

LEMMA FailsStep ==
    ASSUME RunType, ClientInv, FailsOutliveInserts, [Next]_vars
    PROVE  FailsOutliveInserts'
<1> SUFFICES ASSUME ~deleted', NEW i \in DOMAIN results', plan'[i].kind \in RowLevel,
                    results'[i] = "Fail"
             PROVE  Verdict_(plan'[i], table', now') = "Fail"
  BY DEF FailsOutliveInserts
<1>1. CASE results' # results
  <2>1. /\ plan' = plan /\ UNCHANGED server /\ Running
        /\ results' = Append(results, Verdict_(Current, table, now))
        /\ Verdict_(Current, table, now) \in Verdict
    BY <1>1, ResultsMove, PlanIs, VerdictType DEF Current
  <2>2. /\ DOMAIN results' = DOMAIN results \cup {Len(results) + 1}
        /\ results'[Len(results) + 1] = Verdict_(Current, table, now)
        /\ \A k \in DOMAIN results : results'[k] = results[k]
    BY <2>1, AddedVerdict
  <2> QED BY <2>1, <2>2 DEF FailsOutliveInserts, server, Current
<1>2. CASE results' = results
  <2>0. plan' = plan /\ i \in DOMAIN plan /\ plan[i].kind \in AssertionKinds /\ table \in Seq(Rows)
    BY <1>2, ResultsMove, PlanIs DEF RunType
  <2>1. CASE ~deleted /\ table' = table
    <3>1. Verdict_(plan[i], table, now) = "Fail"
      BY <1>2, <2>0, <2>1 DEF FailsOutliveInserts
    <3> QED BY <2>0, <2>1, <3>1, Timeless DEF RowLevel
  <2>2. CASE Insert
    <3>1. PICK row \in Rows : table' = Append(table, row)
      BY <2>2 DEF Insert, Write
    <3>2. Verdict_(plan[i], table, now) = "Fail"
      BY <1>2, <2>0, <2>2 DEF FailsOutliveInserts, Insert
    <3> QED BY <2>0, <3>1, <3>2, InsertKeepsFail
  <2>3. CASE ~Insert
    <3>1. ~deleted /\ table' = table
      BY <2>3 DEF Next, Terminated, vars, server, RejectUrl, Connected, RejectConfig,
           AnswerWithoutQuery, Acquire, AcquireFails, Query, QueryFails, Finish, Delete, Advance
    <3> QED BY <2>1, <3>1
  <2> QED BY <2>2, <2>3
<1> QED BY <1>1, <1>2

LEMMA QuietStep ==
    ASSUME RunType, ClientInv, AnsweredInv, QuietRunsAreConsistent, [Next]_vars
    PROVE  QuietRunsAreConsistent'
<1> SUFFICES ASSUME writes' = 0, NEW i \in DOMAIN results'
             PROVE  /\ plan'[i].kind # "Freshness" => results'[i] = Verdict_(plan'[i], table', now')
                    /\ results'[i] = "Fail" => Verdict_(plan'[i], table', now') = "Fail"
  BY DEF QuietRunsAreConsistent
<1>1. CASE results' # results
  <2>1. /\ plan' = plan /\ UNCHANGED server /\ Running
        /\ results' = Append(results, Verdict_(Current, table, now))
        /\ Verdict_(Current, table, now) \in Verdict
    BY <1>1, ResultsMove, PlanIs, VerdictType DEF Current
  <2>2. /\ DOMAIN results' = DOMAIN results \cup {Len(results) + 1}
        /\ results'[Len(results) + 1] = Verdict_(Current, table, now)
        /\ \A k \in DOMAIN results : results'[k] = results[k]
    BY <2>1, AddedVerdict
  <2> QED BY <2>1, <2>2 DEF QuietRunsAreConsistent, server, Current
<1>2. CASE results' = results
  <2>1. /\ plan' = plan /\ i \in DOMAIN results /\ Accepted(plan[i]) /\ table \in Seq(Rows) /\ now \in Int
        /\ plan[i].kind \in AssertionKinds
        /\ plan[i].kind = "Freshness" => plan[i].within_seconds \in Int
    BY <1>2, ResultsMove, PlanIs DEF RunType, AnsweredInv
  <2>2. ~Insert /\ ~Delete
    <3>1. writes + 1 # 0
      BY DEF RunType
    <3> QED BY <3>1 DEF Insert, Delete, Write
  <2>3. table' = table /\ writes = 0 /\ (now' = now \/ now' = now + 1)
    BY <2>2 DEF Next, Terminated, vars, server, RejectUrl, Connected, RejectConfig,
         AnswerWithoutQuery, Acquire, AcquireFails, Query, QueryFails, Finish, Advance
  <2>4. /\ plan[i].kind # "Freshness" => results[i] = Verdict_(plan[i], table, now)
        /\ results[i] = "Fail" => Verdict_(plan[i], table, now) = "Fail"
    BY <2>1, <2>3 DEF QuietRunsAreConsistent
  <2>5. CASE plan[i].kind # "Freshness"
    BY <1>2, <2>1, <2>3, <2>4, <2>5, Timeless
  <2>6. CASE plan[i].kind = "Freshness"
    BY <1>2, <2>1, <2>3, <2>4, <2>6, StaleLater
  <2> QED BY <2>5, <2>6
<1> QED BY <1>1, <1>2
-----------------------------------------------------------------------------
LEMMA InitIInv == Init => IInv
<1> SUFFICES ASSUME Init PROVE IInv
  OBVIOUS
<1>1. plan \in Plans /\ now = Start /\ client = "none" /\ results = <<>> /\ outcome = "connecting" /\ writes = 0
  BY DEF Init
<1>2. table \in Seq(Rows)
  <2>1. PICK n \in 0 .. MaxRows : table \in [1 .. n -> Rows]
    BY DEF Init
  <2> QED BY <2>1, TimesAssumption
<1>3. Len(plan) \in Nat
  BY <1>1, PlansAssumption
<1> QED BY <1>1, <1>2, <1>3, TimesAssumption
        DEF IInv, RunType, ClientInv, AnsweredInv, FailsOutliveInserts, QuietRunsAreConsistent

THEOREM Invariant == Spec => []IInv
<1>1. IInv /\ [Next]_vars => IInv'
  BY RunTypeStep, ClientStep, AnsweredStep, FailsStep, QuietStep DEF IInv
<1> QED BY <1>1, InitIInv, PTL DEF Spec

\* An Ok of the Postgres adapter answers every assertion of the plan, and none that
\* the adapter or the server must refuse.
THEOREM OkIsComplete == Spec => []OkAnswersThePlan
<1>1. IInv => OkAnswersThePlan
  BY PlanIs DEF IInv, OkAnswersThePlan, AnsweredInv, Accepted
<1> QED BY <1>1, Invariant, PTL

\* As long as others only insert, a Fail about the rows is still true of the table
\* when the run ends, however many rows came between two queries.
THEOREM FailsAreNotStale == Spec => []FailsOutliveInserts
<1>1. IInv => FailsOutliveInserts
  BY DEF IInv
<1> QED BY <1>1, Invariant, PTL

\* Without writes the verdicts of a run are about one table, though each query has a
\* transaction of its own.
THEOREM QuietRuns == Spec => []QuietRunsAreConsistent
<1>1. IInv => QuietRunsAreConsistent
  BY DEF IInv
<1> QED BY <1>1, Invariant, PTL
=============================================================================
