-------------------------- MODULE TickListsProofs ---------------------------
(***************************************************************************)
(* What appending, concatenating, sorting and filtering do to a list of    *)
(* tick indices; and that a finite set of integers has a greatest one.     *)
(***************************************************************************)
EXTENDS TickLists, Integers, FiniteSetsExt, SequenceTheorems, FiniteSetTheorems, FunctionTheorems,
        WellFoundedInduction, TLAPS

NoDuplicates(s) == \A i, j \in DOMAIN s : s[i] = s[j] => i = j

\* Vec::push of a sample: the list stays a list of ticks and gains exactly one.
LEMMA AppendTick ==
    ASSUME NEW s \in Seq(Nat), NEW t \in Nat
    PROVE  /\ Append(s, t) \in Seq(Nat)
           /\ Elements(Append(s, t)) = Elements(s) \cup {t}
           /\ DOMAIN Append(s, t) = 1 .. Len(s) + 1
           /\ \A i \in 1 .. Len(s) : Append(s, t)[i] = s[i]
           /\ Append(s, t)[Len(s) + 1] = t
<1> DEFINE a == Append(s, t)
<1>1. /\ a \in Seq(Nat)
      /\ Len(a) = Len(s) + 1
      /\ DOMAIN a = 1 .. Len(s) + 1
      /\ \A i \in 1 .. Len(s) : a[i] = s[i]
      /\ a[Len(s) + 1] = t
  OBVIOUS
<1>2. Len(s) \in Nat /\ DOMAIN s = 1 .. Len(s)
  OBVIOUS
<1> HIDE DEF a
<1>3. ASSUME NEW x \in Elements(a) PROVE x \in Elements(s) \cup {t}
  <2>1. PICK i \in 1 .. Len(s) + 1 : x = a[i]
    BY <1>1, <1>3 DEF Elements
  <2>2. CASE i = Len(s) + 1
    BY <2>1, <2>2, <1>1
  <2>3. CASE i \in 1 .. Len(s)
    BY <2>1, <2>3, <1>1, <1>2 DEF Elements
  <2> QED BY <2>1, <2>2, <2>3, <1>2
<1>4. ASSUME NEW x \in Elements(s) PROVE x \in Elements(a)
  <2>1. PICK i \in 1 .. Len(s) : x = s[i]
    BY <1>2, <1>4 DEF Elements
  <2>2. i \in DOMAIN a /\ x = a[i]
    BY <2>1, <1>1, <1>2
  <2> QED BY <2>2 DEF Elements
<1>5. t \in Elements(a)
  BY <1>1, <1>2 DEF Elements
<1> QED BY <1>1, <1>3, <1>4, <1>5 DEF a

\* Vec::append of a worker's chunk: the union of the two lists, in that order.
LEMMA ConcatTicks ==
    ASSUME NEW s \in Seq(Nat), NEW u \in Seq(Nat)
    PROVE  /\ s \o u \in Seq(Nat)
           /\ Elements(s \o u) = Elements(s) \cup Elements(u)
           /\ NoDuplicates(s) /\ NoDuplicates(u) /\ Elements(s) \cap Elements(u) = {}
                => NoDuplicates(s \o u)
<1> DEFINE c == s \o u
<1>1. /\ c \in Seq(Nat)
      /\ Len(c) = Len(s) + Len(u)
      /\ \A i \in 1 .. Len(s) + Len(u) :
            c[i] = IF i <= Len(s) THEN s[i] ELSE u[i - Len(s)]
  BY ConcatProperties
<1>2. /\ Len(s) \in Nat /\ DOMAIN s = 1 .. Len(s)
      /\ Len(u) \in Nat /\ DOMAIN u = 1 .. Len(u)
  OBVIOUS
<1>3. DOMAIN c = 1 .. Len(s) + Len(u)
  BY <1>1
<1> HIDE DEF c
<1>4. ASSUME NEW x \in Elements(c) PROVE x \in Elements(s) \cup Elements(u)
  <2>1. PICK i \in 1 .. Len(s) + Len(u) : x = c[i]
    BY <1>3, <1>4 DEF Elements
  <2>2. CASE i <= Len(s)
    <3>1. i \in DOMAIN s /\ x = s[i]
      BY <1>1, <1>2, <2>1, <2>2
    <3> QED BY <3>1 DEF Elements
  <2>3. CASE ~(i <= Len(s))
    <3>1. i - Len(s) \in DOMAIN u /\ x = u[i - Len(s)]
      BY <1>1, <1>2, <2>1, <2>3
    <3> QED BY <3>1 DEF Elements
  <2> QED BY <2>2, <2>3
<1>5. ASSUME NEW x \in Elements(s) PROVE x \in Elements(c)
  <2>1. PICK i \in 1 .. Len(s) : x = s[i]
    BY <1>2, <1>5 DEF Elements
  <2>2. i \in DOMAIN c /\ x = c[i]
    BY <1>1, <1>2, <1>3, <2>1
  <2> QED BY <2>2 DEF Elements
<1>6. ASSUME NEW x \in Elements(u) PROVE x \in Elements(c)
  <2>1. PICK i \in 1 .. Len(u) : x = u[i]
    BY <1>2, <1>6 DEF Elements
  <2>2. i + Len(s) \in DOMAIN c /\ x = c[i + Len(s)]
    <3>1. /\ i + Len(s) \in 1 .. Len(s) + Len(u)
          /\ ~(i + Len(s) <= Len(s))
          /\ (i + Len(s)) - Len(s) = i
      BY <1>2, <2>1
    <3>2. c[i + Len(s)] = u[i]
      BY <1>1, <3>1
    <3> QED BY <1>3, <2>1, <3>1, <3>2
  <2> QED BY <2>2 DEF Elements
<1>7. ASSUME NoDuplicates(s), NoDuplicates(u), Elements(s) \cap Elements(u) = {},
             NEW i \in DOMAIN c, NEW j \in DOMAIN c, c[i] = c[j]
      PROVE  i = j
  <2>1. ASSUME NEW k \in DOMAIN c
        PROVE  IF k <= Len(s) THEN k \in DOMAIN s /\ c[k] = s[k] /\ c[k] \in Elements(s)
               ELSE k - Len(s) \in DOMAIN u /\ c[k] = u[k - Len(s)] /\ c[k] \in Elements(u)
    <3>1. k \in 1 .. Len(s) + Len(u)
      BY <1>3, <2>1
    <3>2. CASE k <= Len(s)
      <4>1. k \in DOMAIN s /\ c[k] = s[k]
        BY <1>1, <1>2, <3>1, <3>2
      <4> QED BY <3>2, <4>1 DEF Elements
    <3>3. CASE ~(k <= Len(s))
      <4>1. k - Len(s) \in DOMAIN u /\ c[k] = u[k - Len(s)]
        BY <1>1, <1>2, <3>1, <3>3
      <4> QED BY <3>3, <4>1 DEF Elements
    <3> QED BY <3>2, <3>3
  <2>2. i \in Nat /\ j \in Nat
    BY <1>2, <1>3, <1>7
  <2>3. CASE i <= Len(s) /\ j <= Len(s)
    BY <1>7, <2>1, <2>3 DEF NoDuplicates
  <2>4. CASE ~(i <= Len(s)) /\ ~(j <= Len(s))
    <3>1. i - Len(s) = j - Len(s)
      BY <1>7, <2>1, <2>4 DEF NoDuplicates
    <3> QED BY <1>2, <2>2, <3>1
  <2>5. CASE (i <= Len(s)) # (j <= Len(s))
    BY <1>7, <2>1, <2>5
  <2> QED BY <2>3, <2>4, <2>5
<1>8. NoDuplicates(s) /\ NoDuplicates(u) /\ Elements(s) \cap Elements(u) = {}
        => NoDuplicates(c)
  BY <1>7 DEF NoDuplicates
<1> QED BY <1>1, <1>4, <1>5, <1>6, <1>8 DEF c

LEMMA Positions ==
    ASSUME NEW n \in Nat
    PROVE  IsFiniteSet(1 .. n) /\ Cardinality(1 .. n) = n
<1>1. IsFiniteSet(1 .. n) /\ Cardinality(1 .. n) = IF 1 > n THEN 0 ELSE n - 1 + 1
  BY FS_Interval
<1> QED BY <1>1

\* The stable sort has a place for every element: as many elements come before some
\* element as there are places before it.
LEMMA Ranks ==
    ASSUME NEW s \in Seq(Int)
    PROVE  /\ \A i \in DOMAIN s : /\ IsFiniteSet(SortsBefore(s, i))
                                  /\ Cardinality(SortsBefore(s, i)) \in 0 .. Len(s) - 1
           /\ \A i, j \in DOMAIN s : i \in SortsBefore(s, j) =>
                  Cardinality(SortsBefore(s, i)) < Cardinality(SortsBefore(s, j))
           /\ \A k \in DOMAIN s : \E i \in DOMAIN s : Cardinality(SortsBefore(s, i)) = k - 1
<1> DEFINE n == Len(s)
           B(i) == SortsBefore(s, i)
           rank == [i \in 1 .. n |-> Cardinality(B(i)) + 1]
<1>1. n \in Nat /\ DOMAIN s = 1 .. n /\ s \in [1 .. n -> Int]
  OBVIOUS
<1> HIDE DEF n
<1>2. IsFiniteSet(1 .. n) /\ Cardinality(1 .. n) = n
  BY <1>1, Positions
<1>3. ASSUME NEW i \in 1 .. n
      PROVE  IsFiniteSet(B(i)) /\ Cardinality(B(i)) \in 0 .. n - 1
  <2>1. B(i) \subseteq (1 .. n) \ {i}
    BY <1>1, <1>3 DEF SortsBefore
  <2>2. IsFiniteSet((1 .. n) \ {i}) /\ Cardinality((1 .. n) \ {i}) = n - 1
    BY <1>2, <1>3, FS_RemoveElement
  <2>3. IsFiniteSet(B(i)) /\ Cardinality(B(i)) <= n - 1
    BY <2>1, <2>2, FS_Subset
  <2>4. Cardinality(B(i)) \in Nat
    BY <2>3, FS_CardinalityType
  <2> QED BY <1>1, <2>3, <2>4
<1>4. ASSUME NEW i \in 1 .. n, NEW j \in 1 .. n, i \in B(j)
      PROVE  Cardinality(B(i)) < Cardinality(B(j))
  <2>1. B(i) \subseteq B(j)
    BY <1>1, <1>4 DEF SortsBefore
  <2>2. i \notin B(i)
    BY <1>1, <1>4 DEF SortsBefore
  <2>3. B(i) # B(j)
    BY <1>4, <2>2
  <2>4. IsFiniteSet(B(i)) /\ IsFiniteSet(B(j))
        /\ Cardinality(B(i)) \in Nat /\ Cardinality(B(j)) \in Nat
    BY <1>1, <1>3
  <2>5. Cardinality(B(i)) <= Cardinality(B(j)) /\ Cardinality(B(i)) # Cardinality(B(j))
    BY <2>1, <2>3, <2>4, FS_Subset
  <2> QED BY <2>4, <2>5
<1>5. ASSUME NEW i \in 1 .. n, NEW j \in 1 .. n, i # j
      PROVE  i \in B(j) \/ j \in B(i)
  BY <1>1, <1>5 DEF SortsBefore
<1>6. rank \in Injection(1 .. n, 1 .. n)
  <2>1. rank \in [1 .. n -> 1 .. n]
    BY <1>1, <1>3
  <2>2. ASSUME NEW i \in 1 .. n, NEW j \in 1 .. n, rank[i] = rank[j]
        PROVE  i = j
    <3>1. Cardinality(B(i)) = Cardinality(B(j)) /\ Cardinality(B(i)) \in Nat
      BY <1>1, <1>3, <2>2
    <3> QED BY <1>4, <1>5, <3>1
  <2> QED BY <2>1, <2>2, Fun_IsInj
<1>7. rank \in Surjection(1 .. n, 1 .. n)
  BY <1>2, <1>6, FS_Injection
<1>8. \A k \in 1 .. n : \E i \in 1 .. n : rank[i] = k
  <2> HIDE DEF rank
  <2> QED BY <1>7, Fun_SurjectionProperties
<1>9. ASSUME NEW k \in 1 .. n PROVE \E i \in 1 .. n : Cardinality(B(i)) = k - 1
  <2>1. PICK i \in 1 .. n : rank[i] = k
    BY <1>9, <1>8
  <2> HIDE DEF B
  <2>2. Cardinality(B(i)) + 1 = k /\ Cardinality(B(i)) \in Nat
    BY <1>1, <1>3, <2>1
  <2>3. Cardinality(B(i)) = k - 1
    BY <1>1, <2>2
  <2> QED BY <2>3
<1> QED BY <1>1, <1>3, <1>4, <1>9 DEF n

\* sort_by_key(|s| s.tick_index) permutes the list into non-decreasing order;
\* when no tick occurs twice the result is strictly increasing.
LEMMA SortTicks ==
    ASSUME NEW s \in Seq(Nat)
    PROVE  /\ Sorted(s) \in Seq(Nat)
           /\ Len(Sorted(s)) = Len(s)
           /\ Elements(Sorted(s)) = Elements(s)
           /\ NoDuplicates(s) => StrictlyIncreasing(Sorted(s))
<1> DEFINE n == Len(s)
           B(i) == SortsBefore(s, i)
           at(k) == CHOOSE i \in DOMAIN s : Cardinality(B(i)) = k - 1
           t == Sorted(s)
<1>1. n \in Nat /\ DOMAIN s = 1 .. n /\ s \in [1 .. n -> Nat]
  OBVIOUS
<1> HIDE DEF n
<1>2. ASSUME NEW i \in 1 .. n
      PROVE  IsFiniteSet(B(i)) /\ Cardinality(B(i)) \in 0 .. n - 1
  BY <1>1, Ranks DEF n
<1>3. ASSUME NEW i \in 1 .. n, NEW j \in 1 .. n, i \in B(j)
      PROVE  Cardinality(B(i)) < Cardinality(B(j))
  BY <1>1, <1>3, Ranks
<1>4. ASSUME NEW i \in 1 .. n, NEW j \in 1 .. n, i # j
      PROVE  i \in B(j) \/ j \in B(i)
  BY <1>1, <1>4 DEF SortsBefore
<1>5. ASSUME NEW k \in 1 .. n
      PROVE  at(k) \in 1 .. n /\ Cardinality(B(at(k))) = k - 1
  <2>1. \E i \in DOMAIN s : Cardinality(B(i)) = k - 1
    <3>1. s \in Seq(Int)
      OBVIOUS
    <3> QED BY <1>1, <1>5, <3>1, Ranks
  <2> HIDE DEF B
  <2> QED BY <1>1, <2>1
<1>6. t = [k \in 1 .. n |-> s[at(k)]]
  BY <1>1 DEF Sorted
<1> HIDE DEF t, at, B
<1>7. t \in [1 .. n -> Nat] /\ t \in Seq(Nat) /\ DOMAIN t = 1 .. n /\ Len(t) = n
  <2>1. t \in [1 .. n -> Nat]
    BY <1>1, <1>5, <1>6
  <2> QED BY <1>1, <2>1, SeqDef
<1>8. Elements(t) = Elements(s)
  <2>1. ASSUME NEW x \in Elements(t) PROVE x \in Elements(s)
    <3>1. PICK k \in 1 .. n : x = s[at(k)]
      BY <1>6, <1>7, <2>1 DEF Elements
    <3> QED BY <1>1, <1>5, <3>1 DEF Elements
  <2>2. ASSUME NEW x \in Elements(s) PROVE x \in Elements(t)
    <3>1. PICK i \in 1 .. n : x = s[i]
      BY <1>1, <2>2 DEF Elements
    <3> DEFINE k == Cardinality(B(i)) + 1
    <3>2. k \in 1 .. n
      BY <1>1, <1>2, <3>1
    <3>3. Cardinality(B(at(k))) = Cardinality(B(i)) /\ at(k) \in 1 .. n
      BY <1>1, <1>2, <1>5, <3>2
    <3>4. at(k) = i
      <4>1. Cardinality(B(i)) \in Nat
        BY <1>1, <1>2
      <4> QED BY <1>3, <1>4, <3>3, <4>1
    <3>5. t[k] = x
      BY <1>6, <3>1, <3>2, <3>4
    <3> QED BY <1>7, <3>2, <3>5 DEF Elements
  <2> QED BY <2>1, <2>2
<1>9. ASSUME NoDuplicates(s)
       PROVE  StrictlyIncreasing(t)
  <2> SUFFICES ASSUME NEW k \in 1 .. n, NEW l \in 1 .. n, k < l
               PROVE  t[k] < t[l]
    BY <1>7 DEF StrictlyIncreasing
  <2>1. /\ at(k) \in 1 .. n /\ Cardinality(B(at(k))) = k - 1
        /\ at(l) \in 1 .. n /\ Cardinality(B(at(l))) = l - 1
    BY <1>5
  <2>2. at(k) # at(l)
    BY <2>1, <1>1
  <2>3. ~(at(l) \in B(at(k)))
    <3>1. ~(l - 1 < k - 1)
      BY <1>1
    <3> QED BY <1>3, <2>1, <3>1
  <2>4. at(k) \in B(at(l))
    BY <1>4, <2>1, <2>2, <2>3
  <2>5. s[at(k)] < s[at(l)]
    <3>1. s[at(k)] # s[at(l)]
      BY <1>1, <1>9, <2>1, <2>2 DEF NoDuplicates
    <3> QED BY <1>1, <2>1, <2>4, <3>1 DEF B, SortsBefore
  <2> QED BY <1>6, <2>5
<1> QED BY <1>7, <1>8, <1>9 DEF t, n

\* What the sort leaves at position k: fewer than k elements are less than it, and at
\* least k are not greater.
LEMMA RankOfSorted ==
    ASSUME NEW s \in Seq(Int), NEW k \in DOMAIN s
    PROVE  /\ \E i \in DOMAIN s : Sorted(s)[k] = s[i]
           /\ Cardinality({i \in DOMAIN s : s[i] < Sorted(s)[k]}) <= k - 1
           /\ k <= Cardinality({i \in DOMAIN s : s[i] <= Sorted(s)[k]})
<1>1. PICK i \in DOMAIN s : Sorted(s)[k] = s[i] /\ Cardinality(SortsBefore(s, i)) = k - 1
  BY Ranks DEF Sorted
<1> DEFINE below == {j \in DOMAIN s : s[j] < s[i]}
           upto == {j \in DOMAIN s : s[j] <= s[i]}
<1>2. IsFiniteSet(SortsBefore(s, i)) /\ IsFiniteSet(upto)
  <2>1. DOMAIN s = 1 .. Len(s) /\ Len(s) \in Nat
    OBVIOUS
  <2>2. IsFiniteSet(DOMAIN s)
    BY <2>1, FS_Interval
  <2>3. upto \subseteq DOMAIN s /\ SortsBefore(s, i) \subseteq DOMAIN s
    BY DEF SortsBefore
  <2> QED BY <2>2, <2>3, FS_Subset
<1>3. below \subseteq SortsBefore(s, i)
  BY DEF SortsBefore
<1>4. i \notin SortsBefore(s, i) /\ SortsBefore(s, i) \cup {i} \subseteq upto
  BY DEF SortsBefore
<1>5. k \in Nat
  OBVIOUS
<1>6. Cardinality(SortsBefore(s, i) \cup {i}) = k
  <2>1. Cardinality(SortsBefore(s, i) \cup {i}) = Cardinality(SortsBefore(s, i)) + 1
    BY <1>2, <1>4, FS_AddElement
  <2> QED BY <1>1, <1>5, <2>1
<1>7. Cardinality(below) <= k - 1
  BY <1>1, <1>2, <1>3, FS_Subset
<1>8. k <= Cardinality(upto)
  BY <1>2, <1>4, <1>6, FS_Subset
<1> QED BY <1>1, <1>7, <1>8

\* A list sorted by distinct ticks has no tick twice.
LEMMA IncreasingIsDuplicateFree ==
    ASSUME NEW s \in Seq(Nat), StrictlyIncreasing(s)
    PROVE  NoDuplicates(s)
<1> SUFFICES ASSUME NEW i \in DOMAIN s, NEW j \in DOMAIN s, s[i] = s[j], i # j
             PROVE  FALSE
  BY DEF NoDuplicates
<1>1. i \in Nat /\ j \in Nat /\ s[i] \in Nat /\ s[j] \in Nat
  OBVIOUS
<1>2. i < j \/ j < i
  BY <1>1
<1>3. s[i] < s[j] \/ s[j] < s[i]
  BY <1>2 DEF StrictlyIncreasing
<1> QED BY <1>1, <1>3

\* f lists the positions of K in order: 1 .. n are their ranks.
InOrder(f, n, K) ==
    /\ f \in [1 .. n -> K]
    /\ \A k, l \in 1 .. n : k < l => f[k] < f[l]
    /\ \A i \in K : \E k \in 1 .. n : f[k] = i

\* Picking positions keeps all their elements, in order, and adds no other.
LEMMA PickedTicks ==
    ASSUME NEW S, NEW s \in Seq(S), NEW K \in SUBSET DOMAIN s
    PROVE  /\ IsFiniteSet(K) /\ Cardinality(K) \in Nat
           /\ Picked(s, K) \in Seq(S)
           /\ Len(Picked(s, K)) = Cardinality(K)
           /\ Elements(Picked(s, K)) = {s[i] : i \in K}
           /\ \E f : /\ InOrder(f, Cardinality(K), K)
                    /\ \A k \in 1 .. Cardinality(K) : Picked(s, K)[k] = s[f[k]]
<1> DEFINE n == Cardinality(K)
           B(i) == {j \in K : j < i}
           rank == [i \in K |-> Cardinality(B(i)) + 1]
           at(k) == CHOOSE i \in K : Cardinality(B(i)) = k - 1
           t == Picked(s, K)
<1>1. K \subseteq Nat /\ IsFiniteSet(K) /\ n \in Nat
  <2>1. DOMAIN s = 1 .. Len(s) /\ Len(s) \in Nat
    OBVIOUS
  <2>2. IsFiniteSet(1 .. Len(s))
    BY <2>1, FS_Interval
  <2>3. IsFiniteSet(K)
    BY <2>1, <2>2, FS_Subset
  <2> QED BY <2>1, <2>3, FS_CardinalityType
<1>2. IsFiniteSet(1 .. n) /\ Cardinality(1 .. n) = n
  <2> HIDE DEF n
  <2> QED BY <1>1, Positions
<1>3. ASSUME NEW i \in K
      PROVE  IsFiniteSet(B(i)) /\ Cardinality(B(i)) \in 0 .. n - 1
  <2>1. B(i) \subseteq K \ {i}
    BY <1>1
  <2>2. IsFiniteSet(K \ {i}) /\ Cardinality(K \ {i}) = n - 1
    BY <1>1, FS_RemoveElement
  <2>3. IsFiniteSet(B(i)) /\ Cardinality(B(i)) <= n - 1
    BY <2>1, <2>2, FS_Subset
  <2>4. Cardinality(B(i)) \in Nat
    BY <2>3, FS_CardinalityType
  <2> QED BY <1>1, <2>3, <2>4
<1>4. ASSUME NEW i \in K, NEW j \in K, i < j
      PROVE  Cardinality(B(i)) < Cardinality(B(j))
  <2>1. B(i) \subseteq B(j) /\ i \notin B(i) /\ i \in B(j)
    BY <1>1, <1>4
  <2> HIDE DEF B
  <2>2. IsFiniteSet(B(i)) /\ IsFiniteSet(B(j))
        /\ Cardinality(B(i)) \in Nat /\ Cardinality(B(j)) \in Nat
    BY <1>1, <1>3
  <2>3. Cardinality(B(i)) <= Cardinality(B(j)) /\ Cardinality(B(i)) # Cardinality(B(j))
    BY <2>1, <2>2, FS_Subset
  <2> QED BY <2>2, <2>3
<1>5. rank \in Injection(K, 1 .. n)
  <2>1. rank \in [K -> 1 .. n]
    <3> HIDE DEF n, B
    <3> QED BY <1>1, <1>3
  <2>2. ASSUME NEW i \in K, NEW j \in K, rank[i] = rank[j]
        PROVE  i = j
    <3> HIDE DEF B
    <3>1. Cardinality(B(i)) = Cardinality(B(j)) /\ Cardinality(B(i)) \in Nat
      BY <1>1, <1>3, <2>2
    <3>2. ~(i < j) /\ ~(j < i)
      BY <1>4, <3>1
    <3> QED BY <1>1, <3>2
  <2> HIDE DEF rank
  <2> QED BY <2>1, <2>2, Fun_IsInj
<1>6. rank \in Surjection(K, 1 .. n)
  <2> HIDE DEF rank
  <2> QED BY <1>1, <1>2, <1>5, FS_Injection
<1>7. \A k \in 1 .. n : \E i \in K : rank[i] = k
  <2> HIDE DEF rank
  <2> QED BY <1>6, Fun_SurjectionProperties
<1>8. ASSUME NEW k \in 1 .. n
      PROVE  at(k) \in K /\ Cardinality(B(at(k))) = k - 1
  <2>1. PICK i \in K : rank[i] = k
    BY <1>7
  <2> HIDE DEF B
  <2>2. Cardinality(B(i)) + 1 = k /\ Cardinality(B(i)) \in Nat
    BY <1>1, <1>3, <2>1
  <2>3. Cardinality(B(i)) = k - 1
    BY <2>2
  <2> QED BY <2>3
<1>9. t = [k \in 1 .. n |-> s[at(k)]]
  BY DEF Picked
<1> HIDE DEF t, at, B, rank, n
<1>10. t \in [1 .. n -> S] /\ t \in Seq(S) /\ DOMAIN t = 1 .. n /\ Len(t) = n
  <2>1. t \in [1 .. n -> S]
    BY <1>8, <1>9
  <2> QED BY <1>1, <2>1, SeqDef
<1>11. ASSUME NEW i \in K
       PROVE  \E k \in 1 .. n : at(k) = i
  <2>1. PICK k \in Nat : k = Cardinality(B(i)) + 1
    BY <1>3
  <2>2. k \in 1 .. n /\ Cardinality(B(i)) = k - 1
    BY <1>1, <1>3, <2>1
  <2>3. Cardinality(B(at(k))) = Cardinality(B(i)) /\ at(k) \in K
    BY <1>8, <2>2
  <2>4. ~(at(k) < i) /\ ~(i < at(k))
    BY <1>3, <1>4, <2>3
  <2> QED BY <1>1, <2>2, <2>3, <2>4
<1>12. ASSUME NEW k \in 1 .. n, NEW l \in 1 .. n, k < l
       PROVE  at(k) < at(l)
  <2>1. /\ at(k) \in K /\ Cardinality(B(at(k))) = k - 1
        /\ at(l) \in K /\ Cardinality(B(at(l))) = l - 1
    BY <1>8
  <2>2. ~(k - 1 = l - 1) /\ ~(l - 1 < k - 1)
    BY <1>1, <1>12
  <2>3. at(k) # at(l) /\ ~(at(l) < at(k))
    BY <1>4, <2>1, <2>2
  <2> QED BY <1>1, <2>1, <2>3
<1>13. Elements(t) = {s[i] : i \in K}
  <2>1. \A x : x \in Elements(t) <=> \E k \in 1 .. n : x = s[at(k)]
    BY <1>9, <1>10 DEF Elements
  <2>2. \A x : x \in Elements(t) <=> x \in {s[i] : i \in K}
    BY <1>8, <1>11, <2>1
  <2> QED BY <2>2
<1>14. \E f : InOrder(f, n, K) /\ \A k \in 1 .. n : t[k] = s[f[k]]
  <2> DEFINE g == [k \in 1 .. n |-> at(k)]
  <2>1. g \in [1 .. n -> K]
    BY <1>8
  <2>2. \A k, l \in 1 .. n : k < l => g[k] < g[l]
    BY <1>12
  <2>3. \A i \in K : \E k \in 1 .. n : g[k] = i
    BY <1>11
  <2>4. \A k \in 1 .. n : t[k] = s[g[k]]
    BY <1>9
  <2> HIDE DEF g
  <2> QED BY <2>1, <2>2, <2>3, <2>4 DEF InOrder
<1> QED BY <1>1, <1>10, <1>13, <1>14 DEF t, n

\* The positions of K with an element of T.
Hits(s, K, T) == {i \in K : s[i] \in T}

\* As many of the elements picked are in T as of the elements at the positions.
LEMMA PickedCount ==
    ASSUME NEW S, NEW s \in Seq(S), NEW K \in SUBSET DOMAIN s, NEW T
    PROVE  Cardinality(Hits(Picked(s, K), DOMAIN Picked(s, K), T)) = Cardinality(Hits(s, K, T))
<1> DEFINE p == Picked(s, K)
           n == Cardinality(K)
           A == {k \in DOMAIN p : p[k] \in T}
           B == {i \in K : s[i] \in T}
<1>1. n \in Nat /\ p \in Seq(S) /\ Len(p) = n
  BY PickedTicks
<1>2. PICK f : InOrder(f, n, K) /\ \A k \in 1 .. n : p[k] = s[f[k]]
  BY PickedTicks
<1>3. DOMAIN p = 1 .. n
  BY <1>1
<1>4. K \subseteq Int
  OBVIOUS
<1> HIDE DEF p, n
<1> DEFINE g == [k \in A |-> f[k]]
<1>5. IsFiniteSet(A)
  <2>1. A \subseteq 1 .. n
    BY <1>3
  <2> QED BY <1>1, <2>1, FS_Interval, FS_Subset
<1>6. g \in [A -> B]
  BY <1>2, <1>3 DEF InOrder
<1>7. \A k, l \in A : g[k] = g[l] => k = l
  <2> SUFFICES ASSUME NEW k \in A, NEW l \in A, k # l PROVE g[k] # g[l]
    OBVIOUS
  <2>1. k \in 1 .. n /\ l \in 1 .. n /\ (k < l \/ l < k)
    BY <1>1, <1>3
  <2>2. f[k] < f[l] \/ f[l] < f[k]
    BY <1>2, <2>1 DEF InOrder
  <2>3. f[k] \in Int /\ f[l] \in Int
    BY <1>2, <1>4, <2>1 DEF InOrder
  <2> QED BY <2>2, <2>3
<1>8. \A i \in B : \E k \in A : g[k] = i
  <2> SUFFICES ASSUME NEW i \in B PROVE \E k \in A : g[k] = i
    OBVIOUS
  <2>1. PICK k \in 1 .. n : f[k] = i
    BY <1>2 DEF InOrder
  <2> QED BY <1>2, <1>3, <2>1
<1>9. ExistsBijection(A, B)
  <2> HIDE DEF g, A, B
  <2>1. g \in Injection(A, B)
    BY <1>6, <1>7, Fun_IsInj
  <2>2. g \in Surjection(A, B)
    BY <1>6, <1>8, Fun_IsSurj
  <2> QED BY <2>1, <2>2 DEF Bijection, ExistsBijection
<1>10. Cardinality(A) = Cardinality(B)
  <2> HIDE DEF A, B
  <2> QED BY <1>5, <1>9, FS_Bijection
<1> QED BY <1>10 DEF p, Hits

LEMMA Quotient ==
    ASSUME NEW a \in Nat, NEW b \in Nat \ {0}
    PROVE  /\ a \div b \in Nat
           /\ (a \div b) * b <= a
           /\ a < ((a \div b) + 1) * b
OBVIOUS

-----------------------------------------------------------------------------
(* Induction on the number of elements: a set of naturals that is not      *)
(* empty has a least element.                                              *)

LEMMA LeastNumber ==
    ASSUME NEW S \in SUBSET Nat, S # {}
    PROVE  \E n \in S : \A m \in S : n <= m
<1> DEFINE less == {p \in Nat \X Nat : p[1] < p[2]}
<1>1. IsWellFoundedOn(less, Nat)
  BY NatLessThanWellFounded DEF OpToRel
<1>2. \E n \in S : \A m \in S : <<m, n>> \notin less
  <2> HIDE DEF less
  <2> QED BY <1>1, WFMin
<1>3. \A m, n \in Nat : m < n => <<m, n>> \in less
  OBVIOUS
<1>4. PICK n \in S : \A m \in S : <<m, n>> \notin less
  BY <1>2
<1> HIDE DEF less
<1>5. ASSUME NEW m \in S PROVE n <= m
  <2>1. ~(m < n) /\ m \in Nat /\ n \in Nat
    BY <1>3, <1>4
  <2> QED BY <2>1
<1> QED BY <1>5

LEMMA MaxExists ==
    ASSUME NEW S \in SUBSET Int, IsFiniteSet(S), S # {}
    PROVE  Max(S) \in S /\ \A x \in S : x <= Max(S)
<1> DEFINE HasMax(T) == \E x \in T : \A y \in T : x >= y
           Counterexample(n) ==
             \E T \in SUBSET Int :
               IsFiniteSet(T) /\ T # {} /\ Cardinality(T) = n /\ ~HasMax(T)
           Bad == {n \in Nat : Counterexample(n)}
<1>1. SUFFICES Bad = {}
  <2>1. HasMax(S)
    BY <1>1, FS_CardinalityType
  <2> QED BY <2>1 DEF Max
<1>2. SUFFICES ASSUME Bad # {} PROVE FALSE
  OBVIOUS
<1>3. PICK n \in Bad : \A m \in Bad : n <= m
  BY <1>2, LeastNumber
<1>4. PICK T \in SUBSET Int : IsFiniteSet(T) /\ T # {} /\ Cardinality(T) = n /\ ~HasMax(T)
  BY <1>3
<1>5. PICK x \in T : TRUE
  BY <1>4
<1> DEFINE U == T \ {x}
<1>6. IsFiniteSet(U) /\ Cardinality(U) = n - 1 /\ U \in SUBSET Int /\ n - 1 \in Nat
  <2>1. IsFiniteSet(U) /\ Cardinality(U) = Cardinality(T) - 1
    BY <1>4, <1>5, FS_RemoveElement
  <2>2. Cardinality(U) \in Nat
    BY <2>1, FS_CardinalityType
  <2> QED BY <1>4, <2>1, <2>2
<1>7. CASE HasMax(U)
  <2>1. PICK y \in U : \A z \in U : y >= z
    BY <1>7
  <2>2. \A z \in T : z = x \/ y >= z
    BY <2>1
  <2>3. x \in Int /\ y \in Int /\ T \subseteq Int
    BY <1>4, <1>5, <2>1
  <2>4. CASE x >= y
    <3>1. \A z \in T : x >= z
      BY <2>2, <2>3, <2>4
    <3> QED BY <1>4, <3>1
  <2>5. CASE y >= x
    <3>1. \A z \in T : y >= z
      BY <2>2, <2>5
    <3> QED BY <1>4, <2>1, <3>1
  <2> QED BY <2>3, <2>4, <2>5
<1>8. CASE ~HasMax(U)
  <2>1. CASE U = {}
    <3>1. \A z \in T : x >= z
      BY <1>4, <1>5, <2>1
    <3> QED BY <1>4, <3>1
  <2>2. CASE U # {}
    <3>1. n - 1 \in Bad
      BY <1>6, <1>8, <2>2
    <3> QED BY <1>3, <3>1
  <2> QED BY <2>1, <2>2
<1> QED BY <1>7, <1>8
=============================================================================
