------------------------------- MODULE PgSql --------------------------------
(***************************************************************************)
(* The pushdown: what PostgresAdapter asks the server for each assertion,  *)
(* and what it makes of the answer.  The SQL is given by what it counts on *)
(* a table; the server is external, and is modelled from the text of the   *)
(* queries with the semantics of SQL: GROUP BY puts NULLs in one group,    *)
(* WHERE drops a row whose condition is NULL, a float8 NaN is greater than *)
(* every number, an operator the column's type lacks fails the query.      *)
(***************************************************************************)
EXTENDS Tables, Verdicts, FiniteSetsExt

CONSTANT PerSecond  \* timestamp units per second

-----------------------------------------------------------------------------
(* What is decided without the server.                                     *)

\* Rejected with Err(AdapterError::Config).
ConfigError(a) ==
    \/ a.kind = "Enum" /\ a.allowed = {}
    \/ a.kind = "RowCount" /\ NoBounds(a)
    \/ a.kind = "Freshness" /\ a.within_seconds < 0

\* Answered with a verdict of Error, without a query.
NotPushedDown(a) ==
    \/ a.kind \in {"PercentileBetween", "CardinalityBetween", "SchemaMatch"}
    \/ a.kind = "UniqueGroup" /\ a.columns = {}

-----------------------------------------------------------------------------
(* The queries.                                                            *)

QueryColumns(a) ==
    CASE a.kind = "RowCount" -> {}
      [] a.kind = "UniqueGroup" -> a.columns
      [] OTHER -> {a.column}

\* The types the operators of a query are defined on; those of GROUP BY and of
\* IS NULL are defined on all of them.
Comparable(a, type) ==
    CASE a.kind = "Between" -> type \in Numeric
      [] a.kind \in {"Regex", "Enum"} -> type = "Utf8"
      [] a.kind = "Freshness" -> type = "Timestamp"
      [] OTHER -> TRUE

\* The server refuses the query: Err(AdapterError::Query).
QueryError(a, schema) ==
    \/ \E c \in QueryColumns(a) : c \notin Columns(schema) \/ ~Comparable(a, TypeOf(schema, c))
    \/ a.kind = "Regex" /\ a.pattern = NULL

\* Plausible bug: the groups of one row.
SingleGroups(rows, columns) ==
    LET group(i) == [c \in columns |-> rows[i][c]]
    IN  {group(i) : i \in {j \in DOMAIN rows : \A k \in DOMAIN rows : k # j => group(k) # group(j)}}

\* GROUP BY columns HAVING count(*) > 1: the groups of more than one row.
DuplicateGroups(rows, columns) ==
    LET group(i) == [c \in columns |-> rows[i][c]]
    IN  {group(i) : i \in {j \in DOMAIN rows : \E k \in DOMAIN rows : k # j /\ group(k) = group(j)}}

\* Plausible bug: the upper bound is excluded.
AboveOrAt(v, high) == v = NaN \/ v >= high

Above(v, high) == v = NaN \/ v > high

\* The rows that a counting query counts.
Counted(a, rows) ==
    CASE a.kind = "NotNull" -> DOMAIN rows \ NonNull(rows, a.column)
      [] a.kind = "Between" ->
           {i \in NonNull(rows, a.column) :
              Above(rows[i][a.column], a.high) \/ rows[i][a.column] < a.low}
      [] a.kind = "Regex" -> {i \in NonNull(rows, a.column) : rows[i][a.column] \notin a.pattern}
      [] a.kind = "Enum" -> {i \in NonNull(rows, a.column) : rows[i][a.column] \notin a.allowed}

\* MAX skips NULLs, and now() - MAX(column) is NULL when there is nothing else.
FreshEnough(a, rows, now) ==
    /\ Values(rows, a.column) # {}
    /\ now - Max(Values(rows, a.column)) <= a.within_seconds * PerSecond

\* The verdict of an assertion whose query the server answers, at one instant.
Verdict_(a, rows, now) ==
    CASE NotPushedDown(a) -> "Error"
      [] a.kind \in {"NotNull", "Between", "Regex", "Enum"} -> PassIf(Counted(a, rows) = {})
      [] a.kind = "Unique" -> PassIf(DuplicateGroups(rows, {a.column}) = {})
      [] a.kind = "UniqueGroup" /\ a.columns # {} -> PassIf(DuplicateGroups(rows, a.columns) = {})
      [] a.kind = "RowCount" -> PassIf(Within(Len(rows), a.low, a.high))
      [] a.kind = "Freshness" -> PassIf(FreshEnough(a, rows, now))
=============================================================================
