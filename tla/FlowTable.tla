----------------------------- MODULE FlowTable ------------------------------
(***************************************************************************)
(* probe_from_table: the assertions derived from a declared table class.   *)
(* A declaration has its columns, each with a name, nullable and           *)
(* primary_key, and its __unique_constraints__, a sequence of sequences of *)
(* column names.                                                           *)
(***************************************************************************)
EXTENDS Sequences, TickLists

Names(columns) == [i \in DOMAIN columns |-> columns[i].name]

PrimaryKey(t) ==
    Names(Picked(t.columns, {i \in DOMAIN t.columns : t.columns[i].primary_key}))

Required(t) ==
    Names(Picked(t.columns, {i \in DOMAIN t.columns : ~t.columns[i].nullable}))

\* `if g and g not in groups`: each group that is not empty, where it is first met.
FirstMet(groups) ==
    {i \in DOMAIN groups :
        groups[i] # <<>> /\ \A j \in DOMAIN groups : j < i => groups[j] # groups[i]}

\* Plausible bug: a key group for every column of the primary key.
KeyGroupPerColumn(t) ==
    LET groups == [i \in DOMAIN PrimaryKey(t) |-> <<PrimaryKey(t)[i]>>] \o t.unique_constraints
    IN  Picked(groups, FirstMet(groups))

\* The primary key as one group, then the declared ones, each once.
KeyGroups(t) ==
    LET groups == <<PrimaryKey(t)>> \o t.unique_constraints
    IN  Picked(groups, FirstMet(groups))

UniqueOver(group) ==
    IF Len(group) = 1
      THEN [kind |-> "Unique", column |-> group[1]]
      ELSE [kind |-> "UniqueGroup", columns |-> Elements(group)]

\* The plan of the probe, without what `extend` adds to it.
DerivedPlan(t) ==
    [i \in DOMAIN Required(t) |-> [kind |-> "NotNull", column |-> Required(t)[i]]]
      \o [i \in DOMAIN KeyGroups(t) |-> UniqueOver(KeyGroups(t)[i])]
=============================================================================
