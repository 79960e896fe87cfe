---------------------------- MODULE MCCrossEngine ---------------------------
(***************************************************************************)
(* A small table and one assertion of every kind, in the forms that can be *)
(* judged and in those that cannot.                                        *)
(***************************************************************************)
EXTENDS FlowRun

MCSchema ==
    <<[name |-> "id", type |-> "Int64"], [name |-> "tag", type |-> "Utf8"],
      [name |-> "x", type |-> "Float64"], [name |-> "at", type |-> "Timestamp"]>>

Row(id, tag, x, at) ==
    [c \in {"id", "tag", "x", "at"} |->
        CASE c = "id" -> id [] c = "tag" -> tag [] c = "x" -> x [] c = "at" -> at]

MCRows ==
    {Row(1, "a", 1, 2), Row(1, "b", 5, -1), Row(2, "a", 3, 3),
     Row(NULL, "a", NaN, NULL), Row(NULL, NULL, NULL, 5)}

On(kind, column) == [kind |-> kind, column |-> column]
Group(S) == [kind |-> "UniqueGroup", columns |-> S]
Between(column, low, high) == [kind |-> "Between", column |-> column, low |-> low, high |-> high]
Regex(column, pattern) == [kind |-> "Regex", column |-> column, pattern |-> pattern]
Enum(column, S) == [kind |-> "Enum", column |-> column, allowed |-> S]
RowCount(low, high) == [kind |-> "RowCount", low |-> low, high |-> high]
Distinct(column, low, high) ==
    [kind |-> "CardinalityBetween", column |-> column, low |-> low, high |-> high]
Percentile_(column, p, low, high) ==
    [kind |-> "PercentileBetween", column |-> column, p |-> p, low |-> low, high |-> high]
Freshness(s) == [kind |-> "Freshness", column |-> "at", within_seconds |-> s]
SchemaMatch(fields) == [kind |-> "SchemaMatch", fields |-> fields]

Sound ==
    <<On("NotNull", "id"), On("NotNull", "tag"), On("Unique", "id"), On("Unique", "tag"), Group({"id"}),
      Group({"id", "tag"}), Between("x", 1, 3), Between("id", 2, 3),
      Regex("tag", {"a"}), Enum("tag", {"b"}), RowCount(1, 2), RowCount(NULL, 1),
      Distinct("tag", 2, NULL), Percentile_("id", 50, 1, 1), Percentile_("id", 99, 2, 3),
      Percentile_("x", 50, 1, 3),
      Freshness(0), Freshness(1), Freshness(2), SchemaMatch(MCSchema), SchemaMatch(Tail(MCSchema))>>

Unsound ==
    <<On("NotNull", "ghost"), On("Unique", "x"), Group({}), Group({"id", "x"}), Group({"id", "at"}),
      Between("tag", 1, 3), Regex("tag", NULL), Regex("id", {"a"}), Enum("tag", {}),
      Enum("x", {"b"}), RowCount(NULL, NULL), Distinct("x", 1, NULL), Distinct("id", NULL, NULL),
      Percentile_("tag", 50, 1, 1), Percentile_("id", 101, 1, 1), Freshness(-1), SchemaMatch(<<>>)>>

MCAssertions == Sound \o Unsound

Column(name, nullable, pk) == [name |-> name, nullable |-> nullable, primary_key |-> pk]

\* A composite primary key that is declared once more; nullable natural keys; and a key
\* that the engine cannot judge.
MCDeclarations ==
    {[columns |-> <<Column("id", FALSE, TRUE), Column("tag", FALSE, TRUE), Column("x", TRUE, FALSE)>>,
      unique_constraints |-> <<<<"id", "tag">>>>],
     [columns |-> <<Column("id", TRUE, FALSE), Column("tag", TRUE, FALSE)>>,
      unique_constraints |-> <<<<"tag", "id">>, <<>>, <<"tag">>, <<"tag">>>>],
     [columns |-> <<Column("id", FALSE, TRUE), Column("x", TRUE, TRUE)>>, unique_constraints |-> <<>>]}
=============================================================================
