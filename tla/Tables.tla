------------------------------- MODULE Tables -------------------------------
(***************************************************************************)
(* Tables, schemas and assertions, as the pushdown and the scan path see   *)
(* them.  A table is a sequence of rows, a row a function from column      *)
(* names to cells, a schema a sequence of [name, type] records.  A cell is *)
(* NULL, NaN, an integer, or a string.                                     *)
(*                                                                         *)
(* An assertion is a record with a field kind and the fields of the        *)
(* Assertion variant.  An absent bound (None) is NULL.  A pattern is the   *)
(* set of the texts it matches, or NULL when it does not compile.  The     *)
(* percentile p is p / 100.                                                *)
(***************************************************************************)
EXTENDS Integers, Sequences, FiniteSets

CONSTANTS NULL, NaN

ASSUME CellsAssumption == NULL \notin Int /\ NaN \notin Int /\ NULL # NaN

AssertionKinds ==
    {"NotNull", "Unique", "UniqueGroup", "Between", "Regex", "Enum", "RowCount", "Freshness",
     "PercentileBetween", "CardinalityBetween", "SchemaMatch"}

Columns(schema) == {schema[i].name : i \in DOMAIN schema}

TypeOf(schema, column) == (CHOOSE f \in {schema[i] : i \in DOMAIN schema} : f.name = column).type

Numeric == {"Int64", "Float64"}

\* What a column holds of whose cells the numbers matter.
IsCell(v, type) ==
    /\ type \in {"Int64", "Timestamp"} => v \in Int \cup {NULL}
    /\ type = "Float64" => v \in Int \cup {NULL, NaN}

\* The positions of the rows with a value in the column.
NonNull(rows, column) == {i \in DOMAIN rows : rows[i][column] # NULL}

Values(rows, column) == {rows[i][column] : i \in NonNull(rows, column)}

\* `if let Some(lo)`, `if let Some(hi)`: n is within the bounds that are there.
Within(n, low, high) == (low # NULL => n >= low) /\ (high # NULL => n <= high)

NoBounds(a) == a.low = NULL /\ a.high = NULL

PassIf(b) == IF b THEN "Pass" ELSE "Fail"
=============================================================================
