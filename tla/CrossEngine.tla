---------------------------- MODULE CrossEngine -----------------------------
(***************************************************************************)
(* The same plan on the same table through the two evaluators: the run of  *)
(* the scan path (ScanRun), over a table in any batches, next to what the  *)
(* SQL pushed down to Postgres says of that table at the same moment.      *)
(***************************************************************************)
EXTENDS ScanRun

Pg == INSTANCE PgSql

\* The pushdown refuses the whole plan with an Err(AdapterError).
Refused(a) == Pg!ConfigError(a) \/ (~Pg!NotPushedDown(a) /\ Pg!QueryError(a, Schema))

PgVerdict(a) == Pg!Verdict_(a, table, now)

\* The seven assertions and the composite key, which both engines implement.
Core == {"NotNull", "Unique", "UniqueGroup", "Between", "Regex", "Enum", "RowCount", "Freshness"}

\* An assertion of the core that both engines accept on this schema.
Shared(a) ==
    /\ a.kind \in Core
    /\ ~Refused(a) /\ ~Pg!NotPushedDown(a)
    /\ Buildable(a, Schema)

Nulls(column) == DOMAIN table \ NonNull(table, column)

\* The data on which the engines may part: several NULLs under Unique, a NaN under
\* Between, a timestamp in the second beyond the limit of Freshness
\* (in the two, for one before 1970).
OnTheEdge(a) ==
    \/ a.kind = "Unique" /\ Cardinality(Nulls(a.column)) > 1
    \/ a.kind = "Between" /\ NaN \in Values(table, a.column)
    \/ /\ a.kind = "Freshness"
       /\ \E t \in Values(table, a.column) :
            LET age == now - t - a.within_seconds * PerSecond IN 0 < age /\ age < Slack(t) * PerSecond

-----------------------------------------------------------------------------
(* Correctness.                                                            *)

\* When a scan has ended, the engines agree on its table, except on the edges: what
\* the accumulators made of the batches is what the SQL counts in the table.
AgreeOffTheEdges ==
    phase = "done" =>
        \A i \in DOMAIN Assertions :
            LET a == Assertions[i]
            IN  Shared(a) /\ ~OnTheEdge(a) => results[i] = PgVerdict(a)

\* Where they part, Postgres is the stricter one: what the scan path rejects in a
\* table, the pushdown rejects too.
PushdownIsStricter ==
    phase = "done" =>
        \A i \in DOMAIN Assertions :
            LET a == Assertions[i]
            IN  Shared(a) /\ results[i] = "Fail" => PgVerdict(a) = "Fail"

-----------------------------------------------------------------------------
(* A claim of the tests that the code does not keep.                       *)

\* "Same seed data in Postgres + DuckDB + Parquet, same probe plan, must produce the
\* same Verdicts".
SameVerdicts ==
    phase = "done" =>
        \A i \in DOMAIN Assertions :
            LET a == Assertions[i]
            IN  Shared(a) => results[i] = PgVerdict(a)
=============================================================================
