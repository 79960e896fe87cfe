------------------------------ MODULE FlowRun -------------------------------
(***************************************************************************)
(* Scans whose plan has the assertions that probe_from_table derives from  *)
(* declared tables.                                                        *)
(***************************************************************************)
EXTENDS CrossEngine, FlowTable

CONSTANT Declarations

IsList(s) == s \in Seq(Elements(s))

ASSUME DeclarationsAssumption ==
    \A t \in Declarations :
        /\ IsList(t.columns) /\ IsList(t.unique_constraints)
        /\ \A i \in DOMAIN t.unique_constraints : IsList(t.unique_constraints[i])

ASSUME DerivedPlansAreRun ==
    \A t \in Declarations : Elements(DerivedPlan(t)) \subseteq Elements(Assertions)

VerdictOf(a) == results[CHOOSE i \in DOMAIN Assertions : Assertions[i] = a]

DerivedProbePasses(t) ==
    \A i \in DOMAIN DerivedPlan(t) : VerdictOf(DerivedPlan(t)[i]) = "Pass"

-----------------------------------------------------------------------------
(* What a declaration says of a table, in SQL's terms.                     *)

DeclaredKeys(t) == {PrimaryKey(t)} \cup Elements(t.unique_constraints)

ComparableOn(key) == {i \in DOMAIN table : \A c \in Elements(key) : table[i][c] # NULL}

\* No two rows without a NULL in the key have the same one.
KeyHolds(key) ==
    key # <<>> =>
        \A i, j \in ComparableOn(key) :
            i # j => \E c \in Elements(key) : table[i][c] # table[j][c]

Conforms(t) ==
    /\ \A i \in DOMAIN t.columns :
         ~t.columns[i].nullable => NonNull(table, t.columns[i].name) = DOMAIN table
    /\ \A key \in DeclaredKeys(t) : KeyHolds(key)

NoNullInKeys(t) ==
    \A key \in DeclaredKeys(t) : Len(key) > 1 => ComparableOn(key) = DOMAIN table

\* The engine can judge every assertion of the plan: it keys rows by integers and by
\* texts, so that the probe of a table with another key ends in an Error.
CanBeJudged(t) == \A i \in DOMAIN DerivedPlan(t) : Buildable(DerivedPlan(t)[i], Schema)

-----------------------------------------------------------------------------
\* The derived probe is right about the declared table: it passes no table that
\* breaks the declaration, and fails none that conforms, composite keys of columns
\* that repeat one by one included; only NULLs in a composite key, which SQL takes as
\* distinct and the engine as equal, may make it too strict, and a key of times or
\* floats keeps it from being judged.
DerivedProbeJudgesTheDeclaration ==
    phase = "done" =>
        \A t \in Declarations :
            /\ DerivedProbePasses(t) => Conforms(t)
            /\ Conforms(t) /\ NoNullInKeys(t) /\ CanBeJudged(t) => DerivedProbePasses(t)
=============================================================================
