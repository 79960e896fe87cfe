------------------------------ MODULE MCPgRun -------------------------------
(***************************************************************************)
(* A small table with concurrent writers, and plans with an assertion of   *)
(* every kind, one refused on our side and one refused by the server.      *)
(***************************************************************************)
EXTENDS PgRun

MCSchema ==
    <<[name |-> "id", type |-> "Int64"], [name |-> "tag", type |-> "Utf8"],
      [name |-> "x", type |-> "Float64"], [name |-> "at", type |-> "Timestamp"]>>

Row(id, tag, x, at) ==
    [c \in {"id", "tag", "x", "at"} |->
        CASE c = "id" -> id [] c = "tag" -> tag [] c = "x" -> x [] c = "at" -> at]

MCRows == {Row(1, "a", 1, 2), Row(1, "b", 3, 4), Row(NULL, "a", NaN, NULL)}

On(kind, column) == [kind |-> kind, column |-> column]
Group(S) == [kind |-> "UniqueGroup", columns |-> S]
Between(column) == [kind |-> "Between", column |-> column, low |-> 1, high |-> 2]
Regex(pattern) == [kind |-> "Regex", column |-> "tag", pattern |-> pattern]
Enum(S) == [kind |-> "Enum", column |-> "tag", allowed |-> S]
RowCount(low, high) == [kind |-> "RowCount", low |-> low, high |-> high]
Freshness(s) == [kind |-> "Freshness", column |-> "at", within_seconds |-> s]
Percentile_ == [kind |-> "PercentileBetween", column |-> "x", p |-> 50, low |-> 1, high |-> 2]

MCPlans ==
    {<<On("NotNull", "id"), On("Unique", "id"), Group({"id", "tag"}), Between("x")>>,
     <<Regex({"a"}), Enum({"b"}), RowCount(1, 2), Freshness(1)>>,
     <<Percentile_, Group({}), On("Unique", "at")>>,
     <<On("Unique", "tag"), Enum({}), On("NotNull", "id")>>,
     <<On("NotNull", "id"), RowCount(NULL, NULL)>>,
     <<Freshness(-1)>>,
     <<On("NotNull", "tag"), Between("tag"), On("Unique", "id")>>,
     <<Regex(NULL)>>,
     <<On("NotNull", "ghost")>>}
=============================================================================
