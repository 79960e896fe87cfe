----------------------------- MODULE TickLists ------------------------------
(***************************************************************************)
(* Lists of tick indices: what a load run's Vec<Sample> is, up to the      *)
(* content of the samples.  The collectors append to such lists and sort   *)
(* them with sort_by_key(|s| s.tick_index).                                *)
(***************************************************************************)
EXTENDS Naturals, Sequences, FiniteSets

Elements(s) == {s[i] : i \in DOMAIN s}

StrictlyIncreasing(s) == \A i, j \in DOMAIN s : i < j => s[i] < s[j]

\* The positions of s that a stable sort puts before position i.
SortsBefore(s, i) ==
    {j \in DOMAIN s : s[j] < s[i] \/ (s[j] = s[i] /\ j < i)}

\* Plausible bug: the list is left in the order it was collected in.
Unsorted(s) == s

\* The stable sort, by rank: the k-th element has k - 1 elements before it.
\* (SortSeq of module TLC is defined by a choice over permutations, of which
\* a theorem cannot easily use the existence.)
Sorted(s) ==
    [k \in DOMAIN s |->
        s[CHOOSE i \in DOMAIN s : Cardinality(SortsBefore(s, i)) = k - 1]]

\* The elements of s at the positions of K, in order: iter().filter(..).  (By rank, as
\* above: SelectSeq of module Sequences is defined by recursion.)
Picked(s, K) ==
    [k \in 1 .. Cardinality(K) |->
        s[CHOOSE i \in K : Cardinality({j \in K : j < i}) = k - 1]]
=============================================================================
