--------------------------- MODULE ScanRunProofs ----------------------------
(***************************************************************************)
(* Theorems about a run of the scan path, for every plan, every schema,    *)
(* every set of rows, every way to cut a table of them into batches, and   *)
(* every time that passes between the pulls: what each accumulator knows   *)
(* of the rows it was fed, and so what its verdict says of the table.      *)
(***************************************************************************)
EXTENDS FlowRun, TickListsProofs

KeysOf(a, rows) == {Key(a, rows[i]) : i \in Keyed(a, rows)}

NoKeyTwice(a, rows) ==
    \A i, j \in Keyed(a, rows) : i # j => Key(a, rows[i]) # Key(a, rows[j])

MaxValue(rows, column) == IF Values(rows, column) = {} THEN NULL ELSE Max(Values(rows, column))

\* What one batch makes of the maximum t.
MaxAfter(t, batch, column) ==
    IF Values(batch, column) = {} THEN t ELSE MaxWith(Max(Values(batch, column)), t)

\* What a percentile takes from a batch.
CellsOf(batch, column) ==
    [i \in DOMAIN Picked(batch, NonNull(batch, column)) |->
        Picked(batch, NonNull(batch, column))[i][column]]

\* The values of a percentile are the cells of the column that are not NULL, in order.
ListsCells(values, rows, column) ==
    \E f : /\ InOrder(f, Len(values), NonNull(rows, column))
           /\ \A k \in 1 .. Len(values) : values[k] = rows[f[k]][column]

Counting == {"NotNull", "Between", "Regex", "Enum"}

Violates(a, row) ==
    \/ a.kind = "NotNull" /\ row[a.column] = NULL
    \/ a.kind = "Between" /\ row[a.column] # NULL /\ OutOfRange(row[a.column], a)
    \/ a.kind = "Regex" /\ row[a.column] # NULL /\ row[a.column] \notin a.pattern
    \/ a.kind = "Enum" /\ row[a.column] # NULL /\ row[a.column] \notin a.allowed

\* What an accumulator that is not broken knows of the rows it was fed.
Knows(acc, a, rows) ==
    /\ a.kind \in Counting =>
         /\ acc \in [kind : {a.kind}, count : Nat]
         /\ acc.count = 0 <=> Counted(a, rows) = {}
    /\ a.kind = "RowCount" => acc \in [kind : {a.kind}, count : Nat] /\ acc.count = Len(rows)
    /\ a.kind \in {"Unique", "UniqueGroup"} =>
         /\ acc \in [kind : {a.kind}, seen : {KeysOf(a, rows)}, dup_count : Nat]
         /\ acc.dup_count = 0 <=> NoKeyTwice(a, rows)
    /\ a.kind = "CardinalityBetween" =>
         acc \in [kind : {a.kind}, seen : {Values(rows, a.column)}]
    /\ a.kind = "PercentileBetween" =>
         /\ acc \in [kind : {a.kind}, values : Seq(Int \cup {NaN})]
         /\ ListsCells(acc.values, rows, a.column)
    /\ a.kind = "Freshness" =>
         acc \in [kind : {a.kind}, max_value : {MaxValue(rows, a.column)}]
    /\ a.kind = "SchemaMatch" =>
         acc \in [kind : {a.kind}, verdict : {PassIf(a.fields = Schema)}]

\* Not broken: by build, or by the first batch.
Working(a) == Buildable(a, Schema) /\ (BetweenFails(a, Schema) => pulls = 0)

TypeInv ==
    /\ phase \in {"scanning", "done", "failed"}
    /\ now \in Nat /\ pulls \in Nat
    /\ table \in Seq(Rows)
    /\ pulls = 0 => table = <<>>

AccsInv ==
    /\ DOMAIN accs = DOMAIN Assertions
    /\ \A i \in DOMAIN Assertions :
         IF Working(Assertions[i]) THEN Knows(accs[i], Assertions[i], table)
         ELSE accs[i] = Broken

IInv == TypeInv /\ AccsInv /\ VerdictsMatchTheTable

-----------------------------------------------------------------------------
(* One batch more.                                                         *)

LEMMA Joined ==
    ASSUME NEW rows \in Seq(Rows), NEW batch \in Seq(Rows)
    PROVE  /\ rows \o batch \in Seq(Rows)
           /\ Len(rows) \in Nat /\ DOMAIN rows = 1 .. Len(rows)
           /\ Len(batch) \in Nat /\ DOMAIN batch = 1 .. Len(batch)
           /\ Len(rows \o batch) = Len(rows) + Len(batch)
           /\ \A i : i \in DOMAIN (rows \o batch) <=>
                \/ i \in DOMAIN rows
                \/ \E j \in DOMAIN batch : i = Len(rows) + j
           /\ \A i \in DOMAIN rows : (rows \o batch)[i] = rows[i]
           /\ \A j \in DOMAIN batch : (rows \o batch)[Len(rows) + j] = batch[j]
<1>1. /\ rows \o batch \in Seq(Rows)
      /\ Len(rows \o batch) = Len(rows) + Len(batch)
      /\ \A i \in 1 .. Len(rows) + Len(batch) :
            (rows \o batch)[i] = IF i <= Len(rows) THEN rows[i] ELSE batch[i - Len(rows)]
  BY ConcatProperties
<1>2. /\ Len(rows) \in Nat /\ DOMAIN rows = 1 .. Len(rows)
      /\ Len(batch) \in Nat /\ DOMAIN batch = 1 .. Len(batch)
  OBVIOUS
<1>3. DOMAIN (rows \o batch) = 1 .. Len(rows) + Len(batch)
  BY <1>1
<1>4. ASSUME NEW i
      PROVE  i \in 1 .. Len(rows) + Len(batch) <=>
                \/ i \in 1 .. Len(rows)
                \/ \E j \in 1 .. Len(batch) : i = Len(rows) + j
  <2>1. i \in 1 .. Len(rows) + Len(batch) /\ i \notin 1 .. Len(rows)
          => i - Len(rows) \in 1 .. Len(batch) /\ i = Len(rows) + (i - Len(rows))
    BY <1>2
  <2> QED BY <1>2, <2>1
<1>5. \A j \in 1 .. Len(batch) : (rows \o batch)[Len(rows) + j] = batch[j]
  <2>1. \A j \in 1 .. Len(batch) :
          /\ Len(rows) + j \in 1 .. Len(rows) + Len(batch)
          /\ ~(Len(rows) + j <= Len(rows))
          /\ (Len(rows) + j) - Len(rows) = j
    BY <1>2
  <2> QED BY <1>1, <2>1
<1>6. \A i \in 1 .. Len(rows) : (rows \o batch)[i] = rows[i]
  BY <1>1, <1>2
<1> QED BY <1>1, <1>2, <1>3, <1>4, <1>5, <1>6

\* The cells of both parts, and the positions of those that are not NULL.
LEMMA JoinedCells ==
    ASSUME NEW rows \in Seq(Rows), NEW batch \in Seq(Rows), NEW column
    PROVE  /\ \A i : i \in NonNull(rows \o batch, column) <=>
                \/ i \in NonNull(rows, column)
                \/ \E j \in NonNull(batch, column) : i = Len(rows) + j
           /\ Values(rows \o batch, column) = Values(rows, column) \cup Values(batch, column)
<1> DEFINE both == rows \o batch
           n == Len(rows)
<1>1. /\ \A i : i \in DOMAIN both <=> i \in DOMAIN rows \/ \E j \in DOMAIN batch : i = n + j
      /\ \A i \in DOMAIN rows : both[i] = rows[i]
      /\ \A j \in DOMAIN batch : both[n + j] = batch[j]
  BY Joined
<1> HIDE DEF both, n
<1>2. \A i : i \in NonNull(both, column) <=>
         i \in NonNull(rows, column) \/ \E j \in NonNull(batch, column) : i = n + j
  BY <1>1 DEF NonNull
<1>3. \A v : v \in Values(both, column) <=> v \in Values(rows, column) \cup Values(batch, column)
  <2>1. \A i \in NonNull(rows, column) : i \in DOMAIN rows
    BY DEF NonNull
  <2>2. \A i \in NonNull(batch, column) : i \in DOMAIN batch
    BY DEF NonNull
  <2> QED BY <1>1, <1>2, <2>1, <2>2 DEF Values
<1>4. Values(both, column) = Values(rows, column) \cup Values(batch, column)
  BY <1>3
<1> QED BY <1>2, <1>4 DEF both, n

LEMMA CountedIs ==
    ASSUME NEW a, a.kind \in Counting, NEW rows
    PROVE  Counted(a, rows) = {i \in DOMAIN rows : Violates(a, rows[i])}
<1>1. CASE a.kind = "NotNull"
  BY <1>1 DEF Counted, Violates, NonNull
<1>2. CASE a.kind = "Between"
  BY <1>2 DEF Counted, Violates, NonNull
<1>3. CASE a.kind = "Regex"
  BY <1>3 DEF Counted, Violates, NonNull
<1>4. CASE a.kind = "Enum"
  BY <1>4 DEF Counted, Violates, NonNull
<1> QED BY <1>1, <1>2, <1>3, <1>4 DEF Counting

LEMMA JoinedCounts ==
    ASSUME NEW a, a.kind \in Counting, NEW rows \in Seq(Rows), NEW batch \in Seq(Rows)
    PROVE  Counted(a, rows \o batch) = {} <=> Counted(a, rows) = {} /\ Counted(a, batch) = {}
<1> DEFINE both == rows \o batch
           n == Len(rows)
<1>1. /\ \A i : i \in DOMAIN both <=> i \in DOMAIN rows \/ \E j \in DOMAIN batch : i = n + j
      /\ \A i \in DOMAIN rows : both[i] = rows[i]
      /\ \A j \in DOMAIN batch : both[n + j] = batch[j]
  BY Joined
<1>2. /\ Counted(a, both) = {i \in DOMAIN both : Violates(a, both[i])}
      /\ Counted(a, rows) = {i \in DOMAIN rows : Violates(a, rows[i])}
      /\ Counted(a, batch) = {i \in DOMAIN batch : Violates(a, batch[i])}
  BY CountedIs
<1> HIDE DEF both, n
<1>3. (\A i \in DOMAIN both : ~Violates(a, both[i])) <=>
        /\ \A i \in DOMAIN rows : ~Violates(a, rows[i])
        /\ \A j \in DOMAIN batch : ~Violates(a, batch[j])
  BY <1>1
<1>4. Counted(a, both) = {} <=> Counted(a, rows) = {} /\ Counted(a, batch) = {}
  BY <1>2, <1>3
<1> QED BY <1>4 DEF both

\* A repeated row is one whose key a row of the batch, or of those before it, has too.
LEMMA JoinedKeys ==
    ASSUME NEW a, a.kind \in {"Unique", "UniqueGroup"},
           NEW rows \in Seq(Rows), NEW batch \in Seq(Rows)
    PROVE  /\ KeysOf(a, rows \o batch) = KeysOf(a, rows) \cup KeysOf(a, batch)
           /\ NoKeyTwice(a, rows \o batch) <=>
                NoKeyTwice(a, rows) /\ Repeated(a, batch, KeysOf(a, rows)) = {}
<1> DEFINE both == rows \o batch
           n == Len(rows)
           key(i) == Key(a, rows[i])
           more(j) == Key(a, batch[j])
<1>1. /\ \A i \in DOMAIN rows : both[i] = rows[i]
      /\ \A j \in DOMAIN batch : both[n + j] = batch[j]
      /\ n \in Nat /\ DOMAIN rows = 1 .. n /\ DOMAIN batch \subseteq Nat \ {0}
  BY Joined
<1>2. \A i : i \in Keyed(a, both) <=>
        i \in Keyed(a, rows) \/ \E j \in Keyed(a, batch) : i = n + j
  BY Joined, JoinedCells DEF Keyed
<1>3. Keyed(a, rows) \subseteq DOMAIN rows /\ Keyed(a, batch) \subseteq DOMAIN batch
  BY DEF Keyed, NonNull
<1>4. /\ \A i \in Keyed(a, rows) : Key(a, both[i]) = key(i)
      /\ \A j \in Keyed(a, batch) : Key(a, both[n + j]) = more(j)
  BY <1>1, <1>3
<1>5. /\ \A i \in Keyed(a, rows), j \in Keyed(a, batch) : i # n + j
      /\ \A i, j \in Keyed(a, batch) : i # j => n + i # n + j
      /\ \A i, j \in Keyed(a, batch) : i # j => i < j \/ j < i
  BY <1>1, <1>3
<1> HIDE DEF both, n, key, more
<1>6. \A k : k \in KeysOf(a, both) <=> k \in KeysOf(a, rows) \cup KeysOf(a, batch)
  BY <1>2, <1>4 DEF KeysOf, key, more
<1>7. NoKeyTwice(a, both) <=>
        /\ NoKeyTwice(a, rows)
        /\ \A i \in Keyed(a, rows), j \in Keyed(a, batch) : key(i) # more(j)
        /\ \A i, j \in Keyed(a, batch) : i # j => more(i) # more(j)
  <2>1. NoKeyTwice(a, rows) <=> \A i, j \in Keyed(a, rows) : i # j => key(i) # key(j)
    BY DEF NoKeyTwice, key
  <2>2. ASSUME NoKeyTwice(a, both)
        PROVE  /\ \A i, j \in Keyed(a, rows) : i # j => key(i) # key(j)
               /\ \A i \in Keyed(a, rows), j \in Keyed(a, batch) : key(i) # more(j)
               /\ \A i, j \in Keyed(a, batch) : i # j => more(i) # more(j)
    BY <1>2, <1>4, <1>5, <2>2 DEF NoKeyTwice
  <2>3. ASSUME \A i, j \in Keyed(a, rows) : i # j => key(i) # key(j),
               \A i \in Keyed(a, rows), j \in Keyed(a, batch) : key(i) # more(j),
               \A i, j \in Keyed(a, batch) : i # j => more(i) # more(j)
        PROVE  NoKeyTwice(a, both)
    <3> SUFFICES ASSUME NEW i \in Keyed(a, both), NEW j \in Keyed(a, both), i # j
                 PROVE  Key(a, both[i]) # Key(a, both[j])
      BY DEF NoKeyTwice
    <3>1. CASE i \in Keyed(a, rows) /\ j \in Keyed(a, rows)
      BY <1>4, <2>3, <3>1
    <3>2. CASE i \in Keyed(a, rows) /\ j \notin Keyed(a, rows)
      BY <1>2, <1>4, <2>3, <3>2
    <3>3. CASE i \notin Keyed(a, rows) /\ j \in Keyed(a, rows)
      BY <1>2, <1>4, <2>3, <3>3
    <3>4. CASE i \notin Keyed(a, rows) /\ j \notin Keyed(a, rows)
      BY <1>2, <1>4, <2>3, <3>4
    <3> QED BY <3>1, <3>2, <3>3, <3>4
  <2> QED BY <2>1, <2>2, <2>3
<1>8. Repeated(a, batch, KeysOf(a, rows)) = {} <=>
        /\ \A i \in Keyed(a, rows), j \in Keyed(a, batch) : key(i) # more(j)
        /\ \A i, j \in Keyed(a, batch) : j < i => more(i) # more(j)
  BY DEF Repeated, KeysOf, key, more
<1>9. (\A i, j \in Keyed(a, batch) : i # j => more(i) # more(j)) <=>
      (\A i, j \in Keyed(a, batch) : j < i => more(i) # more(j))
  <2>1. \A i, j \in Keyed(a, batch) : j < i => i # j
    BY <1>1, <1>3
  <2> QED BY <1>5, <2>1
<1>10. NoKeyTwice(a, both) <=>
        NoKeyTwice(a, rows) /\ Repeated(a, batch, KeysOf(a, rows)) = {}
  BY <1>7, <1>8, <1>9
<1>11. KeysOf(a, both) = KeysOf(a, rows) \cup KeysOf(a, batch)
  BY <1>6
<1> QED BY <1>10, <1>11 DEF both

\* What the percentile appends to its values.
LEMMA JoinedLists ==
    ASSUME NEW rows \in Seq(Rows), NEW batch \in Seq(Rows), NEW column,
           NEW S, NEW values \in Seq(S), NEW added \in Seq(S),
           ListsCells(values, rows, column), ListsCells(added, batch, column)
    PROVE  values \o added \in Seq(S) /\ ListsCells(values \o added, rows \o batch, column)
<1> DEFINE both == rows \o batch
           n == Len(rows)
           all == values \o added
           m == Len(values)
           l == Len(added)
<1>1. /\ \A i \in DOMAIN rows : both[i] = rows[i]
      /\ \A j \in DOMAIN batch : both[n + j] = batch[j]
      /\ n \in Nat /\ DOMAIN rows = 1 .. n /\ DOMAIN batch \subseteq Nat \ {0}
      /\ \A i : i \in NonNull(both, column) <=>
           i \in NonNull(rows, column) \/ \E j \in NonNull(batch, column) : i = n + j
  BY Joined, JoinedCells
<1>2. NonNull(rows, column) \subseteq DOMAIN rows /\ NonNull(batch, column) \subseteq DOMAIN batch
  BY DEF NonNull
<1>3. /\ all \in Seq(S) /\ m \in Nat /\ l \in Nat /\ Len(all) = m + l
      /\ \A k \in 1 .. m + l : all[k] = IF k <= m THEN values[k] ELSE added[k - m]
  BY ConcatProperties
<1>4. PICK f : /\ InOrder(f, m, NonNull(rows, column))
               /\ \A k \in 1 .. m : values[k] = rows[f[k]][column]
  BY DEF ListsCells
<1>5. PICK g : /\ InOrder(g, l, NonNull(batch, column))
               /\ \A k \in 1 .. l : added[k] = batch[g[k]][column]
  BY DEF ListsCells
<1> HIDE DEF both, n, all, m, l
<1> DEFINE h == [k \in 1 .. m + l |-> IF k <= m THEN f[k] ELSE n + g[k - m]]
<1>6. /\ \A k \in 1 .. m : k \in 1 .. m + l /\ h[k] = f[k] /\ f[k] \in NonNull(rows, column)
                           /\ f[k] \in 1 .. n
      /\ \A k \in 1 .. l : m + k \in 1 .. m + l /\ h[m + k] = n + g[k]
                           /\ g[k] \in NonNull(batch, column) /\ g[k] \in Nat \ {0}
      /\ \A k \in 1 .. m + l : k \in 1 .. m \/ (k - m \in 1 .. l /\ m + (k - m) = k)
  <2>1. \A k \in 1 .. m : k \in 1 .. m + l /\ k <= m
    BY <1>3
  <2>2. \A k \in 1 .. l : m + k \in 1 .. m + l /\ ~(m + k <= m) /\ (m + k) - m = k
    BY <1>3
  <2>3. \A k \in 1 .. m + l : k \in 1 .. m \/ (k - m \in 1 .. l /\ m + (k - m) = k)
    BY <1>3
  <2>4. \A k \in 1 .. m : f[k] \in NonNull(rows, column) /\ f[k] \in 1 .. n
    BY <1>1, <1>2, <1>4 DEF InOrder
  <2>5. \A k \in 1 .. l : g[k] \in NonNull(batch, column) /\ g[k] \in Nat \ {0}
    BY <1>1, <1>2, <1>5 DEF InOrder
  <2> QED BY <2>1, <2>2, <2>3, <2>4, <2>5
<1>7. h = [k \in 1 .. m + l |-> h[k]]
  OBVIOUS
<1> HIDE DEF h
<1>8. InOrder(h, m + l, NonNull(both, column))
  <2>1. h \in [1 .. m + l -> NonNull(both, column)]
    <3>1. \A k \in 1 .. m + l : h[k] \in NonNull(both, column)
      BY <1>1, <1>6
    <3> QED BY <1>7, <3>1
  <2>2. ASSUME NEW j \in 1 .. m + l, NEW k \in 1 .. m + l, j < k
        PROVE  h[j] < h[k]
    <3>1. CASE j \in 1 .. m /\ k \in 1 .. m
      BY <1>4, <1>6, <2>2, <3>1 DEF InOrder
    <3>2. CASE j \in 1 .. m /\ k \notin 1 .. m
      <4>1. h[j] \in 1 .. n /\ h[k] = n + g[k - m] /\ g[k - m] \in Nat \ {0}
        BY <1>6, <3>2
      <4> QED BY <1>1, <4>1
    <3>3. CASE j \notin 1 .. m /\ k \notin 1 .. m
      <4>1. j - m \in 1 .. l /\ k - m \in 1 .. l /\ j - m < k - m
        BY <1>3, <1>6, <2>2, <3>3
      <4>2. g[j - m] < g[k - m] /\ g[j - m] \in Nat /\ g[k - m] \in Nat
        BY <1>5, <1>6, <4>1 DEF InOrder
      <4>3. h[j] = n + g[j - m] /\ h[k] = n + g[k - m]
        BY <1>6, <3>3
      <4> QED BY <1>1, <4>2, <4>3
    <3> QED BY <1>3, <2>2, <3>1, <3>2, <3>3
  <2>3. ASSUME NEW i \in NonNull(both, column)
        PROVE  \E k \in 1 .. m + l : h[k] = i
    <3>1. CASE i \in NonNull(rows, column)
      <4>1. PICK k \in 1 .. m : f[k] = i
        BY <1>4, <3>1 DEF InOrder
      <4> QED BY <1>6, <4>1
    <3>2. CASE i \notin NonNull(rows, column)
      <4>1. PICK j \in NonNull(batch, column) : i = n + j
        BY <1>1, <2>3, <3>2
      <4>2. PICK k \in 1 .. l : g[k] = j
        BY <1>5, <4>1 DEF InOrder
      <4> QED BY <1>6, <4>1, <4>2
    <3> QED BY <3>1, <3>2
  <2> QED BY <2>1, <2>2, <2>3 DEF InOrder
<1>9. ASSUME NEW k \in 1 .. m + l
      PROVE  all[k] = both[h[k]][column]
  <2>1. CASE k \in 1 .. m
    <3>1. all[k] = values[k]
      BY <1>3, <2>1
    <3>2. values[k] = rows[f[k]][column]
      BY <1>4, <2>1
    <3>3. both[h[k]] = rows[f[k]]
      BY <1>1, <1>6, <2>1
    <3> QED BY <3>1, <3>2, <3>3
  <2>2. CASE k \notin 1 .. m
    <3>1. /\ k - m \in 1 .. l /\ h[k] = n + g[k - m]
          /\ g[k - m] \in NonNull(batch, column)
      BY <1>6, <2>2
    <3>2. all[k] = added[k - m]
      BY <1>3, <2>2
    <3>3. added[k - m] = batch[g[k - m]][column]
      BY <1>5, <3>1
    <3>4. both[h[k]] = batch[g[k - m]]
      BY <1>1, <1>2, <3>1
    <3> QED BY <3>2, <3>3, <3>4
  <2> QED BY <2>1, <2>2
<1>10. ListsCells(all, both, column)
  BY <1>3, <1>8, <1>9 DEF ListsCells
<1> QED BY <1>3, <1>10 DEF all, both

-----------------------------------------------------------------------------
(* The cells of a column.                                                  *)

LEMMA CellTypes ==
    ASSUME NEW column \in Columns(Schema), NEW rows \in Seq(Rows)
    PROVE  /\ TypeOf(Schema, column) \in Numeric => Values(rows, column) \subseteq Int \cup {NaN}
           /\ TypeOf(Schema, column) = "Timestamp" => Values(rows, column) \subseteq Int
<1>1. \A i \in NonNull(rows, column) : rows[i] \in Rows /\ rows[i][column] # NULL
  BY DEF NonNull
<1>2. \A row \in Rows : IsCell(row[column], TypeOf(Schema, column))
  BY RowsAssumption
<1> QED BY <1>1, <1>2 DEF Values, IsCell, Numeric

LEMMA CellsAreFinite ==
    ASSUME NEW column, NEW rows \in Seq(Rows)
    PROVE  /\ NonNull(rows, column) \in SUBSET DOMAIN rows
           /\ IsFiniteSet(NonNull(rows, column)) /\ IsFiniteSet(Values(rows, column))
           /\ Values(rows, column) = {} <=> NonNull(rows, column) = {}
<1> DEFINE cell == [i \in NonNull(rows, column) |-> rows[i][column]]
<1>1. DOMAIN rows = 1 .. Len(rows) /\ Len(rows) \in Nat
  OBVIOUS
<1>2. IsFiniteSet(DOMAIN rows)
  BY <1>1, FS_Interval
<1>3. NonNull(rows, column) \in SUBSET DOMAIN rows
  BY DEF NonNull
<1>4. IsFiniteSet(NonNull(rows, column))
  BY <1>2, <1>3, FS_Subset
<1>5. cell \in Surjection(NonNull(rows, column), Values(rows, column))
  BY DEF Surjection, Values
<1>6. IsFiniteSet(Values(rows, column))
  <2> HIDE DEF cell
  <2> QED BY <1>4, <1>5, FS_Surjection
<1>7. Values(rows, column) = {} <=> NonNull(rows, column) = {}
  BY DEF Values
<1> QED BY <1>3, <1>4, <1>6, <1>7

\* The column of an assertion that build accepts.
LEMMA ColumnIs ==
    ASSUME NEW a, Buildable(a, Schema)
    PROVE  /\ a.kind \in {"Between", "PercentileBetween", "Freshness"} => a.column \in Columns(Schema)
           /\ a.kind = "PercentileBetween" => TypeOf(Schema, a.column) \in Numeric
           /\ a.kind = "Freshness" => TypeOf(Schema, a.column) = "Timestamp"
<1>1. a.kind \in {"Between", "PercentileBetween", "Freshness"} => ColumnsOf(a) = {a.column}
  BY DEF ColumnsOf
<1>2. /\ a.kind = "PercentileBetween" => Supported(a.kind) = Numeric
      /\ a.kind = "Freshness" => Supported(a.kind) = {"Timestamp"}
  BY DEF Supported
<1> QED BY <1>1, <1>2 DEF Buildable

-----------------------------------------------------------------------------
(* The accumulators.                                                       *)

LEMMA FreshIs ==
    ASSUME NEW a
    PROVE  /\ a.kind \in Counting \cup {"RowCount"} =>
                Fresh(a, Schema) = [kind |-> a.kind, count |-> 0]
           /\ a.kind \in {"Unique", "UniqueGroup"} =>
                Fresh(a, Schema) = [kind |-> a.kind, seen |-> {}, dup_count |-> 0]
           /\ a.kind = "CardinalityBetween" => Fresh(a, Schema) = [kind |-> a.kind, seen |-> {}]
           /\ a.kind = "PercentileBetween" => Fresh(a, Schema) = [kind |-> a.kind, values |-> <<>>]
           /\ a.kind = "Freshness" => Fresh(a, Schema) = [kind |-> a.kind, max_value |-> NULL]
           /\ a.kind = "SchemaMatch" =>
                Fresh(a, Schema) = [kind |-> a.kind, verdict |-> PassIf(a.fields = Schema)]
BY DEF Fresh, Counting

LEMMA FreshKnows ==
    ASSUME NEW a, a.kind \in AssertionKinds
    PROVE  Knows(Fresh(a, Schema), a, <<>>)
<1> DEFINE acc == Fresh(a, Schema)
<1>1. \A column : NonNull(<<>>, column) = {} /\ Values(<<>>, column) = {}
  BY DEF NonNull, Values
<1>2. Keyed(a, <<>>) = {}
  BY <1>1 DEF Keyed
<1>3. CASE a.kind \in Counting
  <2>1. Counted(a, <<>>) = {}
    BY <1>3, CountedIs
  <2> QED BY <1>3, <2>1, FreshIs DEF Knows, Counting
<1>4. CASE a.kind = "RowCount"
  BY <1>4, FreshIs DEF Knows, Counting
<1>5. CASE a.kind \in {"Unique", "UniqueGroup"}
  <2>1. KeysOf(a, <<>>) = {} /\ NoKeyTwice(a, <<>>)
    BY <1>2 DEF KeysOf, NoKeyTwice
  <2>2. acc \in [kind : {a.kind}, seen : {{}}, dup_count : Nat] /\ acc.dup_count = 0
    BY <1>5, FreshIs
  <2> QED BY <1>5, <2>1, <2>2 DEF Knows, Counting
<1>6. CASE a.kind = "CardinalityBetween"
  <2>1. acc \in [kind : {a.kind}, seen : {{}}]
    BY <1>6, FreshIs
  <2> QED BY <1>1, <1>6, <2>1 DEF Knows, Counting
<1>7. CASE a.kind = "PercentileBetween"
  <2>1. acc \in [kind : {a.kind}, values : Seq(Int \cup {NaN})] /\ acc.values = <<>>
    <3>1. <<>> \in Seq(Int \cup {NaN})
      OBVIOUS
    <3>2. \A S : \A v \in S : [kind |-> a.kind, values |-> v] \in [kind : {a.kind}, values : S]
      OBVIOUS
    <3>3. acc = [kind |-> a.kind, values |-> <<>>]
      BY <1>7, FreshIs
    <3> HIDE DEF acc
    <3>4. acc \in [kind : {a.kind}, values : Seq(Int \cup {NaN})]
      BY Zenon, <3>1, <3>2, <3>3
    <3> QED BY <3>3, <3>4
  <2>2. InOrder([k \in {} |-> 0], 0, {})
    <3>1. 1 .. 0 = {}
      OBVIOUS
    <3> QED BY <3>1 DEF InOrder
  <2>3. ListsCells(<<>>, <<>>, a.column)
    <3>1. Len(<<>>) = 0 /\ 1 .. 0 = {}
      OBVIOUS
    <3> QED BY <1>1, <2>2, <3>1 DEF ListsCells
  <2> QED BY <1>7, <2>1, <2>3 DEF Knows, Counting
<1>8. CASE a.kind = "Freshness"
  BY <1>1, <1>8, FreshIs DEF Knows, Counting, MaxValue
<1>9. CASE a.kind = "SchemaMatch"
  BY <1>9, FreshIs DEF Knows, Counting
<1> QED BY <1>3, <1>4, <1>5, <1>6, <1>7, <1>8, <1>9 DEF AssertionKinds, Counting

\* The maximum of the values so far, with those of one batch more.
LEMMA JoinedMax ==
    ASSUME NEW column \in Columns(Schema), TypeOf(Schema, column) = "Timestamp",
           NEW rows \in Seq(Rows), NEW batch \in Seq(Rows)
    PROVE  MaxValue(rows \o batch, column) = MaxAfter(MaxValue(rows, column), batch, column)
<1> DEFINE V == Values(rows, column)
           B == Values(batch, column)
           U == Values(rows \o batch, column)
<1>1. /\ V \in SUBSET Int /\ IsFiniteSet(V)
      /\ B \in SUBSET Int /\ IsFiniteSet(B)
      /\ U = V \cup B /\ IsFiniteSet(U)
  <2>1. rows \o batch \in Seq(Rows)
    BY Joined
  <2> QED BY <2>1, CellTypes, CellsAreFinite, JoinedCells
<1> HIDE DEF V, B, U
<1>2. \A S \in SUBSET Int : IsFiniteSet(S) /\ S # {} => Max(S) \in S /\ \A x \in S : x <= Max(S)
  BY MaxExists
<1>3. CASE B = {}
  BY <1>1, <1>3 DEF MaxValue, MaxAfter, V, B, U
<1>4. CASE B # {} /\ V = {}
  BY <1>1, <1>4 DEF MaxValue, MaxAfter, MaxWith, V, B, U
<1>5. CASE B # {} /\ V # {}
  <2>1. /\ Max(B) \in Int /\ Max(B) \in B /\ \A x \in B : x <= Max(B)
        /\ Max(V) \in Int /\ Max(V) \in V /\ \A x \in V : x <= Max(V)
        /\ Max(U) \in U /\ \A x \in U : x <= Max(U)
    BY <1>1, <1>2, <1>5
  <2>2. Max({Max(B), Max(V)}) \in {Max(B), Max(V)}
        /\ \A x \in {Max(B), Max(V)} : x <= Max({Max(B), Max(V)})
    <3>1. {Max(B), Max(V)} \in SUBSET Int
      BY <2>1
    <3>2. IsFiniteSet({Max(B)}) /\ {Max(B), Max(V)} = {Max(B)} \cup {Max(V)}
      BY FS_Singleton
    <3>3. IsFiniteSet({Max(B), Max(V)})
      BY <3>2, FS_AddElement
    <3> QED BY <1>2, <3>1, <3>3
  <2>3. Max({Max(B), Max(V)}) = Max(U)
    <3> DEFINE m == Max({Max(B), Max(V)})
               u == Max(U)
    <3>1. m \in U /\ m \in Int
      BY <1>1, <2>1, <2>2
    <3>2. Max(B) <= m /\ Max(V) <= m
      BY <2>2
    <3> HIDE DEF m
    <3>3. \A x \in U : x <= m
      <4>1. \A x \in B : x \in Int /\ x <= Max(B)
        BY <1>1, <2>1
      <4>2. \A x \in V : x \in Int /\ x <= Max(V)
        BY <1>1, <2>1
      <4> QED BY <1>1, <2>1, <3>1, <3>2, <4>1, <4>2
    <3>4. u \in Int /\ u <= m /\ m <= u
      BY <1>1, <2>1, <3>1, <3>3
    <3> QED BY <3>1, <3>4 DEF m
  <2>4. Max(V) # NULL
    BY <2>1, CellsAssumption
  <2> QED BY <1>1, <1>5, <2>3, <2>4 DEF MaxValue, MaxAfter, MaxWith, V, B, U
<1> QED BY <1>3, <1>4, <1>5

LEMMA UpdateKnows ==
    ASSUME NEW a, a.kind \in AssertionKinds, Buildable(a, Schema), ~BetweenFails(a, Schema),
           NEW rows \in Seq(Rows), NEW batch \in Seq(Rows), NEW acc, Knows(acc, a, rows)
    PROVE  Knows(Update(acc, a, Schema, batch), a, rows \o batch)
<1> DEFINE new == Update(acc, a, Schema, batch)
           both == rows \o batch
<1>1. acc.kind = a.kind
  BY DEF Knows, AssertionKinds, Counting
<1>2. IsFiniteSet(DOMAIN batch)
  <2>1. DOMAIN batch = 1 .. Len(batch) /\ Len(batch) \in Nat
    OBVIOUS
  <2> QED BY <2>1, FS_Interval
<1>3. CASE a.kind \in Counting
  <2> DEFINE added == Cardinality(Counted(a, batch))
  <2>1. Counted(a, batch) \subseteq DOMAIN batch
    BY <1>3, CountedIs
  <2>2. added \in Nat /\ (added = 0 <=> Counted(a, batch) = {})
    BY <1>2, <2>1, FS_Subset, FS_CardinalityType, FS_EmptySet
  <2>3. acc \in [kind : {a.kind}, count : Nat] /\ (acc.count = 0 <=> Counted(a, rows) = {})
    BY <1>3 DEF Knows
  <2>4. new = [kind |-> a.kind, count |-> acc.count + added]
    BY <1>1, <1>3, <2>3 DEF Update, Counting, AddTo
  <2> HIDE DEF new, added
  <2>5. new \in [kind : {a.kind}, count : Nat] /\ new.count = acc.count + added
    BY <2>2, <2>3, <2>4
  <2>6. new.count = 0 <=> Counted(a, both) = {}
    <3>1. new.count = 0 <=> acc.count = 0 /\ added = 0
      BY <2>2, <2>3, <2>5
    <3> QED BY <1>3, <2>2, <2>3, <3>1, JoinedCounts
  <2> QED BY <1>3, <2>5, <2>6 DEF Knows, Counting, new
<1>4. CASE a.kind = "RowCount"
  <2>1. Cardinality(Counted(a, batch)) = Len(batch) /\ Len(batch) \in Nat
    <3>1. Counted(a, batch) = 1 .. Len(batch)
      BY <1>4 DEF Counted
    <3>2. Len(batch) \in Nat
      OBVIOUS
    <3> QED BY <3>1, <3>2, Positions
  <2>2. acc \in [kind : {a.kind}, count : Nat] /\ acc.count = Len(rows)
    BY <1>4 DEF Knows
  <2>3. new = [kind |-> a.kind, count |-> acc.count + Cardinality(Counted(a, batch))]
    BY <1>1, <1>4, <2>2 DEF Update, Counting, AddTo
  <2>4. Len(both) = Len(rows) + Len(batch)
    BY Joined
  <2> HIDE DEF new, both
  <2>5. new \in [kind : {a.kind}, count : Nat] /\ new.count = Len(both)
    BY <2>1, <2>2, <2>3, <2>4
  <2> QED BY <1>4, <2>5 DEF Knows, Counting, new, both
<1>5. CASE a.kind \in {"Unique", "UniqueGroup"}
  <2> DEFINE added == Cardinality(Repeated(a, batch, KeysOf(a, rows)))
  <2>1. acc \in [kind : {a.kind}, seen : {KeysOf(a, rows)}, dup_count : Nat]
        /\ (acc.dup_count = 0 <=> NoKeyTwice(a, rows))
    BY <1>5 DEF Knows
  <2>2. Repeated(a, batch, KeysOf(a, rows)) \subseteq DOMAIN batch
    BY DEF Repeated, Keyed, NonNull
  <2>3. added \in Nat /\ (added = 0 <=> Repeated(a, batch, KeysOf(a, rows)) = {})
    BY <1>2, <2>2, FS_Subset, FS_CardinalityType, FS_EmptySet
  <2>4. new = [kind |-> a.kind, seen |-> KeysOf(a, rows) \cup KeysOf(a, batch),
               dup_count |-> acc.dup_count + added]
    BY <1>1, <1>5, <2>1 DEF Update, Counting, AddTo, KeysOf
  <2>5. acc.dup_count + added \in Nat
    BY <2>1, <2>3
  <2>6. KeysOf(a, both) = KeysOf(a, rows) \cup KeysOf(a, batch)
    BY <1>5, JoinedKeys
  <2>7. NoKeyTwice(a, both) <=> NoKeyTwice(a, rows) /\ added = 0
    BY <1>5, <2>3, JoinedKeys
  <2> HIDE DEF new, added, both
  <2>8. new \in [kind : {a.kind}, seen : {KeysOf(a, both)}, dup_count : Nat]
        /\ new.dup_count = acc.dup_count + added
    BY <2>4, <2>5, <2>6
  <2>9. new.dup_count = 0 <=> NoKeyTwice(a, both)
    BY <2>1, <2>3, <2>7, <2>8
  <2> QED BY <1>5, <2>8, <2>9 DEF Knows, Counting, new, both
<1>6. CASE a.kind = "CardinalityBetween"
  <2>1. acc \in [kind : {a.kind}, seen : {Values(rows, a.column)}]
    BY <1>6 DEF Knows
  <2>2. new = [kind |-> a.kind, seen |-> Values(rows, a.column) \cup Values(batch, a.column)]
    BY <1>1, <1>6, <2>1 DEF Update, Counting
  <2>3. Values(both, a.column) = Values(rows, a.column) \cup Values(batch, a.column)
    BY JoinedCells
  <2> HIDE DEF new, both
  <2>4. new \in [kind : {a.kind}, seen : {Values(both, a.column)}]
    BY <2>2, <2>3
  <2> QED BY <1>6, <2>4 DEF Knows, Counting, new, both
<1>7. CASE a.kind = "PercentileBetween"
  <2> DEFINE K == NonNull(batch, a.column)
             present == Picked(batch, K)
             added == CellsOf(batch, a.column)
  <2>1. acc \in [kind : {a.kind}, values : Seq(Int \cup {NaN})]
        /\ ListsCells(acc.values, rows, a.column)
    BY <1>7 DEF Knows
  <2>2. new = [kind |-> a.kind, values |-> acc.values \o added]
    BY <1>1, <1>7, <2>1 DEF Update, Counting, CellsOf
  <2>3. K \in SUBSET DOMAIN batch
    BY CellsAreFinite
  <2>4. /\ present \in Seq(Rows) /\ Len(present) = Cardinality(K) /\ Cardinality(K) \in Nat
        /\ \E f : InOrder(f, Cardinality(K), K) /\ \A k \in 1 .. Cardinality(K) : present[k] = batch[f[k]]
    BY <2>3, PickedTicks
  <2>5. DOMAIN present = 1 .. Cardinality(K)
    BY <2>4
  <2>6. Values(batch, a.column) \subseteq Int \cup {NaN}
    BY <1>7, ColumnIs, CellTypes
  <2>7. \A i \in K : batch[i][a.column] \in Int \cup {NaN}
    BY <2>6 DEF Values
  <2>0. added = [i \in DOMAIN present |-> present[i][a.column]]
    BY DEF CellsOf
  <2> HIDE DEF present, K, added
  <2>8. PICK f : InOrder(f, Cardinality(K), K) /\ \A k \in 1 .. Cardinality(K) : present[k] = batch[f[k]]
    BY <2>4
  <2>9. \A k \in 1 .. Cardinality(K) : added[k] = batch[f[k]][a.column] /\ f[k] \in K
    BY <2>0, <2>5, <2>8 DEF InOrder
  <2>10. added = [k \in 1 .. Cardinality(K) |-> added[k]]
    BY <2>0, <2>5
  <2> HIDE DEF new, both
  <2>11. added \in [1 .. Cardinality(K) -> Int \cup {NaN}]
    BY <2>7, <2>9, <2>10
  <2>12. added \in Seq(Int \cup {NaN}) /\ Len(added) = Cardinality(K)
    BY <2>4, <2>11, SeqDef
  <2>13. ListsCells(added, batch, a.column)
    BY <2>8, <2>9, <2>12 DEF ListsCells, K
  <2>14. acc.values \in Seq(Int \cup {NaN})
    BY <2>1
  <2>15. acc.values \o added \in Seq(Int \cup {NaN}) /\ ListsCells(acc.values \o added, both, a.column)
    BY <2>1, <2>12, <2>13, <2>14, JoinedLists DEF both
  <2>16. new \in [kind : {a.kind}, values : Seq(Int \cup {NaN})] /\ new.values = acc.values \o added
    BY <2>2, <2>15
  <2>17. ListsCells(new.values, both, a.column)
    BY <2>15, <2>16
  <2> QED BY <1>7, <2>16, <2>17 DEF Knows, Counting, new, both
<1>8. CASE a.kind = "Freshness"
  <2>1. acc \in [kind : {a.kind}, max_value : {MaxValue(rows, a.column)}]
    BY <1>8 DEF Knows
  <2>2. new = [kind |-> a.kind,
               max_value |-> MaxAfter(MaxValue(rows, a.column), batch, a.column)]
    BY <1>1, <1>8, <2>1 DEF Update, Counting, MaxAfter
  <2>3. MaxValue(both, a.column) = MaxAfter(MaxValue(rows, a.column), batch, a.column)
    BY <1>8, ColumnIs, JoinedMax
  <2> HIDE DEF new, both
  <2>4. new \in [kind : {a.kind}, max_value : {MaxValue(both, a.column)}]
    BY <2>2, <2>3
  <2> QED BY <1>8, <2>4 DEF Knows, Counting, new, both
<1>9. CASE a.kind = "SchemaMatch"
  <2>1. new = acc
    BY <1>1, <1>9 DEF Update, Counting
  <2> QED BY <1>9, <2>1 DEF Knows, Counting
<1> QED BY <1>3, <1>4, <1>5, <1>6, <1>7, <1>8, <1>9 DEF AssertionKinds, Counting

-----------------------------------------------------------------------------
(* The clock and the timestamps in seconds.                                *)

LEMMA Scaled ==
    ASSUME NEW m \in Int, NEW n \in Int
    PROVE  /\ m * PerSecond \in Int
           /\ m <= n <=> m * PerSecond <= n * PerSecond
<1>1. PerSecond \in Nat \ {0}
  BY UnitAssumption
<1>2. ASSUME NEW x \in Int, NEW y \in Int, x < y
      PROVE  x * PerSecond < y * PerSecond
  <2>1. PICK d \in Nat : y = x + 1 + d
    <3>1. y - x - 1 \in Nat /\ y = x + 1 + (y - x - 1)
      BY <1>2
    <3> QED BY <3>1
  <2>2. y * PerSecond = x * PerSecond + PerSecond + d * PerSecond
    BY <1>1, <2>1
  <2>3. d * PerSecond \in Nat /\ x * PerSecond \in Int
    BY <1>1
  <2> QED BY <1>1, <2>2, <2>3
<1>3. m * PerSecond \in Int /\ n * PerSecond \in Int
  BY <1>1
<1>4. CASE m < n
  BY <1>2, <1>3, <1>4
<1>5. CASE n < m
  <2>1. n * PerSecond < m * PerSecond
    BY <1>2, <1>5
  <2> QED BY <1>3, <1>5, <2>1
<1> QED BY <1>3, <1>4, <1>5

\* Seconds rounds towards 1970.
LEMMA SecondsIs ==
    ASSUME NEW t \in Int
    PROVE  /\ Seconds(t) \in Int
           /\ t >= 0 => /\ Seconds(t) >= 0
                        /\ Seconds(t) * PerSecond <= t
                        /\ t < (Seconds(t) + 1) * PerSecond
           /\ t < 0 => /\ Seconds(t) <= 0
                       /\ (Seconds(t) - 1) * PerSecond < t
                       /\ t <= Seconds(t) * PerSecond
<1>1. PerSecond \in Nat \ {0}
  BY UnitAssumption
<1>2. CASE t >= 0
  <2>1. t \in Nat /\ Seconds(t) = t \div PerSecond
    BY <1>2 DEF Seconds
  <2> QED BY <1>1, <1>2, <2>1, Quotient
<1>3. CASE t < 0
  <2>1. -t \in Nat /\ Seconds(t) = -((-t) \div PerSecond)
    BY <1>3 DEF Seconds
  <2>2. PICK q \in Nat : q = (-t) \div PerSecond /\ q * PerSecond <= -t /\ -t < (q + 1) * PerSecond
    BY <1>1, <2>1, Quotient
  <2>3. (-q) * PerSecond = -(q * PerSecond)
    BY <1>1
  <2>4. (-q - 1) * PerSecond = -((q + 1) * PerSecond)
    BY <1>1
  <2>5. q * PerSecond \in Int /\ (q + 1) * PerSecond \in Int
    BY <1>1
  <2>6. Seconds(t) = -q
    BY <2>1, <2>2
  <2>7. (-q - 1) * PerSecond < t /\ t <= (-q) * PerSecond
    BY <2>2, <2>3, <2>4, <2>5
  <2> QED BY <1>3, <2>6, <2>7
<1> QED BY <1>2, <1>3

LEMMA SecondsGrow ==
    ASSUME NEW t \in Int, NEW u \in Int, t <= u
    PROVE  Seconds(t) <= Seconds(u)
<1> DEFINE s == Seconds(t)
           r == Seconds(u)
<1>1. s \in Int /\ r \in Int
  BY SecondsIs
<1>2. CASE t >= 0
  <2>1. s * PerSecond <= t /\ u < (r + 1) * PerSecond
    BY <1>2, SecondsIs
  <2> HIDE DEF s, r
  <2>2. ~((r + 1) * PerSecond <= s * PerSecond)
    BY <1>1, <2>1, Scaled
  <2>3. ~(r + 1 <= s)
    BY <1>1, <2>2, Scaled
  <2> QED BY <1>1, <2>3 DEF s, r
<1>3. CASE t < 0 /\ u >= 0
  <2>1. s <= 0 /\ 0 <= r
    BY <1>3, SecondsIs
  <2> QED BY <1>1, <2>1
<1>4. CASE t < 0 /\ u < 0
  <2>1. (s - 1) * PerSecond < t /\ u <= r * PerSecond
    BY <1>4, SecondsIs
  <2> HIDE DEF s, r
  <2>2. ~(r * PerSecond <= (s - 1) * PerSecond)
    BY <1>1, <2>1, Scaled
  <2>3. ~(r <= s - 1)
    BY <1>1, <2>2, Scaled
  <2> QED BY <1>1, <2>3 DEF s, r
<1> QED BY <1>2, <1>3, <1>4

-----------------------------------------------------------------------------
(* The verdicts.                                                           *)

LEMMA FinalizeIs ==
    ASSUME NEW acc, NEW a, acc.kind = a.kind
    PROVE  /\ a.kind \in Counting => Finalize(acc, a, now) = PassIf(acc.count = 0)
           /\ a.kind = "RowCount" => Finalize(acc, a, now) = PassIf(Within(acc.count, a.low, a.high))
           /\ a.kind \in {"Unique", "UniqueGroup"} =>
                Finalize(acc, a, now) = PassIf(acc.dup_count = 0)
           /\ a.kind = "CardinalityBetween" =>
                Finalize(acc, a, now) = PassIf(Within(Cardinality(acc.seen), a.low, a.high))
           /\ a.kind = "PercentileBetween" =>
                Finalize(acc, a, now) =
                  IF acc.values = <<>> THEN "Error"
                  ELSE PassIf(Percentile(a.p, acc.values) \in a.low .. a.high)
           /\ a.kind = "Freshness" =>
                Finalize(acc, a, now) =
                  PassIf(/\ acc.max_value # NULL
                         /\ Seconds(now) - Seconds(acc.max_value) <= a.within_seconds)
           /\ a.kind = "SchemaMatch" => Finalize(acc, a, now) = acc.verdict
BY DEF Finalize, Counting

LEMMA HoldsIs ==
    ASSUME NEW a
    PROVE  /\ a.kind = "NotNull" => (Holds(a) <=> NonNull(table, a.column) = DOMAIN table)
           /\ a.kind = "Unique" =>
                (Holds(a) <=> \A i, j \in NonNull(table, a.column) :
                                i # j => table[i][a.column] # table[j][a.column])
           /\ a.kind = "UniqueGroup" =>
                (Holds(a) <=> \A i, j \in DOMAIN table :
                                i # j => \E c \in a.columns : table[i][c] # table[j][c])
           /\ a.kind = "Between" =>
                (Holds(a) <=> Values(table, a.column) \subseteq (a.low .. a.high) \cup {NaN})
           /\ a.kind = "Regex" => (Holds(a) <=> Values(table, a.column) \subseteq a.pattern)
           /\ a.kind = "Enum" => (Holds(a) <=> Values(table, a.column) \subseteq a.allowed)
           /\ a.kind = "RowCount" => (Holds(a) <=> Within(Len(table), a.low, a.high))
           /\ a.kind = "CardinalityBetween" =>
                (Holds(a) <=> Within(Cardinality(Values(table, a.column)), a.low, a.high))
           /\ a.kind = "SchemaMatch" => (Holds(a) <=> a.fields = Schema)
           /\ a.kind = "PercentileBetween" =>
                (Holds(a) <=>
                   \E v \in Values(table, a.column) :
                     /\ AtRank((a.p * (Cardinality(NonNull(table, a.column)) - 1)) \div 100, a.column, v)
                     /\ v \in a.low .. a.high)
           /\ a.kind = "Freshness" =>
                (Holds(a) <=> \E t \in Values(table, a.column) :
                                Seconds(now) <= Seconds(t) + a.within_seconds)
BY DEF Holds

\* What the plan may hold, assertion by assertion.
WellFormed(a) ==
    /\ a.kind \in AssertionKinds
    /\ a.kind \in {"Between", "PercentileBetween"} => a.low \in Int /\ a.high \in Int
    /\ a.kind = "PercentileBetween" => a.p \in Int
    /\ a.kind = "Freshness" => a.within_seconds \in Int

LEMMA CountVerdict ==
    ASSUME TypeInv, NEW a, WellFormed(a), a.kind \in Counting, Judgeable(a)
    PROVE  Counted(a, table) = {} <=> Holds(a)
<1>1. Counted(a, table) = {} <=> \A i \in DOMAIN table : ~Violates(a, table[i])
  BY CountedIs
<1>2. \A S : Values(table, a.column) \subseteq S <=>
               \A i \in DOMAIN table : table[i][a.column] = NULL \/ table[i][a.column] \in S
  BY DEF Values, NonNull
<1>3. CASE a.kind = "NotNull"
  <2>1. Holds(a) <=> \A i \in DOMAIN table : table[i][a.column] # NULL
    BY <1>3, HoldsIs DEF NonNull
  <2> QED BY <1>1, <1>3, <2>1 DEF Violates
<1>4. CASE a.kind = "Between"
  <2>1. \A i \in DOMAIN table : table[i][a.column] = NULL \/ table[i][a.column] \in Int \cup {NaN}
    <3>1. CASE pulls = 0
      BY <3>1 DEF TypeInv
    <3>2. CASE pulls # 0
      <4>1. TypeOf(Schema, a.column) \in Numeric /\ a.column \in Columns(Schema)
        BY <1>4, <3>2, ColumnIs DEF Judgeable
      <4>2. Values(table, a.column) \subseteq Int \cup {NaN}
        BY <4>1, CellTypes DEF TypeInv
      <4> QED BY <1>2, <4>2
    <3> QED BY <3>1, <3>2
  <2>2. a.low \in Int /\ a.high \in Int
    BY <1>4 DEF WellFormed
  <2>3. \A v \in Int \cup {NaN} : OutOfRange(v, a) <=> v \notin (a.low .. a.high) \cup {NaN}
    BY <2>2, CellsAssumption DEF OutOfRange
  <2>4. NULL \notin (a.low .. a.high) \cup {NaN}
    BY CellsAssumption
  <2>5. Holds(a) <=> Values(table, a.column) \subseteq (a.low .. a.high) \cup {NaN}
    BY <1>4, HoldsIs
  <2>6. \A i \in DOMAIN table :
          ~Violates(a, table[i]) <=>
            table[i][a.column] = NULL \/ table[i][a.column] \in (a.low .. a.high) \cup {NaN}
    BY <1>4, <2>1, <2>3 DEF Violates
  <2> QED BY <1>1, <1>2, <2>5, <2>6
<1>5. CASE a.kind = "Regex"
  <2>1. Holds(a) <=> Values(table, a.column) \subseteq a.pattern
    BY <1>5, HoldsIs
  <2> QED BY <1>1, <1>2, <1>5, <2>1 DEF Violates
<1>6. CASE a.kind = "Enum"
  <2>1. Holds(a) <=> Values(table, a.column) \subseteq a.allowed
    BY <1>6, HoldsIs
  <2> QED BY <1>1, <1>2, <1>6, <2>1 DEF Violates
<1> QED BY <1>3, <1>4, <1>5, <1>6 DEF Counting

LEMMA KeyVerdict ==
    ASSUME NEW a, a.kind \in {"Unique", "UniqueGroup"}
    PROVE  NoKeyTwice(a, table) <=> Holds(a)
<1>1. CASE a.kind = "Unique"
  BY <1>1, HoldsIs DEF NoKeyTwice, Keyed, Key
<1>2. CASE a.kind = "UniqueGroup"
  <2>1. \A i, j : Key(a, table[i]) = Key(a, table[j]) <=>
                    \A c \in a.columns : table[i][c] = table[j][c]
    BY <1>2 DEF Key
  <2>2. NoKeyTwice(a, table) <=>
          \A i, j \in DOMAIN table : i # j => Key(a, table[i]) # Key(a, table[j])
    BY <1>2 DEF NoKeyTwice, Keyed
  <2> QED BY <1>2, <2>1, <2>2, HoldsIs
<1> QED BY <1>1, <1>2

LEMMA FreshVerdict ==
    ASSUME TypeInv, NEW a, WellFormed(a), a.kind = "Freshness", Buildable(a, Schema)
    PROVE  /\ Values(table, a.column) # {} => MaxValue(table, a.column) \in Values(table, a.column)
           /\ MaxValue(table, a.column) = NULL <=> Values(table, a.column) = {}
           /\ \A t \in Values(table, a.column) : t <= MaxValue(table, a.column)
           /\ Holds(a) <=>
                /\ MaxValue(table, a.column) # NULL
                /\ Seconds(now) - Seconds(MaxValue(table, a.column)) <= a.within_seconds
<1> DEFINE V == Values(table, a.column)
           m == MaxValue(table, a.column)
<1>1. V \in SUBSET Int /\ IsFiniteSet(V)
  BY ColumnIs, CellTypes, CellsAreFinite DEF TypeInv
<1>2. now \in Int /\ a.within_seconds \in Int
  BY DEF TypeInv, WellFormed
<1>3. Holds(a) <=> \E t \in V : Seconds(now) <= Seconds(t) + a.within_seconds
  BY HoldsIs
<1>4. CASE V = {}
  BY <1>3, <1>4 DEF MaxValue
<1>5. CASE V # {}
  <2>1. m = Max(V)
    BY <1>5 DEF MaxValue
  <2>2. m \in V /\ \A t \in V : t <= m
    BY <1>1, <1>5, <2>1, MaxExists
  <2> HIDE DEF V, m
  <2>3. m \in Int /\ m # NULL
    BY <1>1, <2>2, CellsAssumption
  <2>4. \A t \in V : t \in Int /\ Seconds(t) \in Int /\ Seconds(t) <= Seconds(m)
    BY <1>1, <2>2, <2>3, SecondsIs, SecondsGrow
  <2>5. Seconds(now) \in Int /\ Seconds(m) \in Int
    BY <1>2, <2>3, SecondsIs
  <2>6. (\E t \in V : Seconds(now) <= Seconds(t) + a.within_seconds)
          <=> Seconds(now) - Seconds(m) <= a.within_seconds
    BY <1>2, <2>2, <2>4, <2>5
  <2> QED BY <1>3, <1>5, <2>2, <2>3, <2>6 DEF V, m
<1> QED BY <1>4, <1>5

-----------------------------------------------------------------------------
(* The percentile.                                                         *)

LEMMA RankInRange ==
    ASSUME NEW p \in 0 .. 100, NEW n \in Nat \ {0}
    PROVE  (p * (n - 1)) \div 100 \in 0 .. n - 1
<1>1. p * (n - 1) \in Nat /\ p * (n - 1) <= 100 * (n - 1)
  <2>1. PICK q \in Nat : p + q = 100
    <3>1. 100 - p \in Nat /\ p + (100 - p) = 100
      OBVIOUS
    <3> QED BY <3>1
  <2>2. PICK m \in Nat : m = n - 1
    OBVIOUS
  <2>3. p * m \in Nat /\ q * m \in Nat /\ p * m + q * m = 100 * m
    BY <2>1, <2>2
  <2> QED BY <2>2, <2>3
<1>2. PICK r \in Nat : r = (p * (n - 1)) \div 100 /\ r * 100 <= p * (n - 1)
  BY <1>1, Quotient
<1> QED BY <1>1, <1>2

Listed(values, T) == {k \in DOMAIN values : values[k] \in T}
Holding(rows, column, T) == {i \in NonNull(rows, column) : rows[i][column] \in T}

\* The cells of a list are as many as those of the column, whichever are counted.
LEMMA ListedCount ==
    ASSUME NEW rows \in Seq(Rows), NEW column, NEW values \in Seq(Int \cup {NaN}),
           ListsCells(values, rows, column), NEW T
    PROVE  /\ Cardinality(Listed(values, T)) = Cardinality(Holding(rows, column, T))
           /\ \A v : v \in Values(rows, column) <=> \E k \in DOMAIN values : values[k] = v
<1> DEFINE n == Len(values)
           A == {k \in DOMAIN values : values[k] \in T}
           B == {i \in NonNull(rows, column) : rows[i][column] \in T}
<1>1. n \in Nat /\ DOMAIN values = 1 .. n
  OBVIOUS
<1>2. PICK f : /\ InOrder(f, n, NonNull(rows, column))
               /\ \A k \in 1 .. n : values[k] = rows[f[k]][column]
  BY DEF ListsCells
<1> DEFINE g == [k \in A |-> f[k]]
<1>3. \A k \in 1 .. n : f[k] \in NonNull(rows, column)
  BY <1>2 DEF InOrder
<1>4. IsFiniteSet(A)
  <2>1. IsFiniteSet(1 .. n)
    BY <1>1, FS_Interval
  <2> QED BY <1>1, <2>1, FS_Subset
<1>5. g \in [A -> B]
  BY <1>1, <1>2, <1>3
<1>6. \A k, l \in A : g[k] = g[l] => k = l
  <2> SUFFICES ASSUME NEW k \in A, NEW l \in A, k # l PROVE g[k] # g[l]
    OBVIOUS
  <2>1. k \in 1 .. n /\ l \in 1 .. n /\ (k < l \/ l < k)
    BY <1>1
  <2>2. f[k] < f[l] \/ f[l] < f[k]
    BY <1>2, <2>1 DEF InOrder
  <2>3. f[k] \in Int /\ f[l] \in Int
    <3>1. DOMAIN rows \subseteq Int
      OBVIOUS
    <3> QED BY <1>3, <2>1, <3>1 DEF NonNull
  <2> QED BY <2>2, <2>3
<1>7. \A i \in B : \E k \in A : g[k] = i
  <2> SUFFICES ASSUME NEW i \in B PROVE \E k \in A : g[k] = i
    OBVIOUS
  <2>1. PICK k \in 1 .. n : f[k] = i
    BY <1>2 DEF InOrder
  <2> QED BY <1>1, <1>2, <2>1
<1>8. g \in Bijection(A, B)
  <2> HIDE DEF g, A, B
  <2>1. g \in Injection(A, B)
    BY <1>5, <1>6, Fun_IsInj
  <2>2. g \in Surjection(A, B)
    BY <1>5, <1>7, Fun_IsSurj
  <2> QED BY <2>1, <2>2 DEF Bijection
<1>9. Cardinality(A) = Cardinality(B)
  <2> HIDE DEF g, A, B
  <2>1. ExistsBijection(A, B)
    BY <1>8 DEF ExistsBijection
  <2> QED BY <1>4, <2>1, FS_Bijection
<1>10. \A v : v \in Values(rows, column) <=> \E k \in DOMAIN values : values[k] = v
  <2>1. \A i \in NonNull(rows, column) : \E k \in 1 .. n : f[k] = i
    BY <1>2 DEF InOrder
  <2>2. \A v : v \in Values(rows, column) <=> \E k \in 1 .. n : rows[f[k]][column] = v
    BY <1>3, <2>1 DEF Values
  <2> QED BY <1>1, <1>2, <2>2
<1> QED BY <1>9, <1>10 DEF Listed, Holding

\* No two values have one rank.
LEMMA OneAtRank ==
    ASSUME TypeInv, NEW column, Values(table, column) \subseteq Int,
           NEW r \in Int, NEW v \in Int, NEW w \in Int, AtRank(r, column, v), AtRank(r, column, w)
    PROVE  v = w
<1> DEFINE below(x) == {i \in NonNull(table, column) : table[i][column] < x}
           upto(x) == {i \in NonNull(table, column) : table[i][column] <= x}
<1>1. ASSUME NEW x \in Int, NEW y \in Int, x < y, AtRank(r, column, x), AtRank(r, column, y)
      PROVE  FALSE
  <2>1. \A i \in NonNull(table, column) : table[i][column] \in Int
    BY DEF Values
  <2>2. upto(x) \subseteq below(y)
    BY <1>1, <2>1
  <2>3. IsFiniteSet(below(y)) /\ IsFiniteSet(upto(x))
    <3>1. IsFiniteSet(NonNull(table, column))
      BY CellsAreFinite DEF TypeInv
    <3> QED BY <3>1, FS_Subset
  <2>4. Cardinality(below(y)) <= r /\ r < Cardinality(upto(x))
    BY <1>1 DEF AtRank
  <2> HIDE DEF below, upto
  <2>5. Cardinality(upto(x)) <= Cardinality(below(y))
        /\ Cardinality(upto(x)) \in Nat /\ Cardinality(below(y)) \in Nat
    BY <2>2, <2>3, FS_Subset, FS_CardinalityType
  <2> QED BY <2>4, <2>5
<1> QED BY <1>1

LEMMA PercentileVerdict ==
    ASSUME TypeInv, NEW a, WellFormed(a), a.kind = "PercentileBetween", Buildable(a, Schema),
           NaN \notin Values(table, a.column), Values(table, a.column) # {},
           NEW values \in Seq(Int \cup {NaN}), ListsCells(values, table, a.column)
    PROVE  Percentile(a.p, values) \in a.low .. a.high <=> Holds(a)
<1> DEFINE V == Values(table, a.column)
           n == Len(values)
           r == (a.p * (n - 1)) \div 100
           v == Sorted(values)[r + 1]
<1>1. table \in Seq(Rows)
  BY DEF TypeInv
<1>2. V \subseteq Int
  <2>1. a.column \in Columns(Schema) /\ TypeOf(Schema, a.column) \in Numeric
    BY ColumnIs
  <2> QED BY <1>1, <2>1, CellTypes
<1>3. \A x : x \in V <=> \E k \in DOMAIN values : values[k] = x
  BY <1>1, ListedCount
<1>4. n \in Nat \ {0} /\ DOMAIN values = 1 .. n
  <2>1. n \in Nat /\ DOMAIN values = 1 .. n
    OBVIOUS
  <2> QED BY <1>3, <2>1
<1>5. values \in Seq(Int)
  <2>1. \A k \in 1 .. n : values[k] \in Int
    BY <1>2, <1>3, <1>4
  <2>2. values = [k \in 1 .. n |-> values[k]]
    BY <1>4
  <2>3. values \in [1 .. n -> Int]
    BY <2>1, <2>2
  <2> QED BY <1>4, <2>3, SeqDef
<1>6. Cardinality(NonNull(table, a.column)) = n
  <2>1. Cardinality(Listed(values, V)) = Cardinality(Holding(table, a.column, V))
    BY <1>1, ListedCount
  <2>2. Listed(values, V) = 1 .. n
    BY <1>3, <1>4 DEF Listed
  <2>3. Holding(table, a.column, V) = NonNull(table, a.column)
    BY DEF Values, Holding
  <2> HIDE DEF n, V
  <2> QED BY <1>4, <2>1, <2>2, <2>3, Positions
<1>7. a.p \in 0 .. 100
  BY DEF Buildable, Rejected, WellFormed
<1>8. r \in 0 .. n - 1 /\ r + 1 \in DOMAIN values
  <2> HIDE DEF n
  <2>1. r \in 0 .. n - 1
    BY <1>4, <1>7, RankInRange
  <2> HIDE DEF r
  <2> QED BY <1>4, <2>1
<1> HIDE DEF n, r
<1>9. /\ \E i \in DOMAIN values : v = values[i]
      /\ Cardinality({i \in DOMAIN values : values[i] < v}) <= (r + 1) - 1
      /\ r + 1 <= Cardinality({i \in DOMAIN values : values[i] <= v})
  BY <1>5, <1>8, RankOfSorted
<1> HIDE DEF v, V
<1>10. v \in V /\ v \in Int
  BY <1>2, <1>3, <1>9
<1>11. AtRank(r, a.column, v)
  <2> DEFINE below == {x \in Int : x < v}
             upto == {x \in Int : x <= v}
  <2>1. \A k \in DOMAIN values : values[k] \in Int
    BY <1>5
  <2>2. \A i \in NonNull(table, a.column) : table[i][a.column] \in Int
    BY <1>2 DEF V, Values
  <2>3. /\ {k \in DOMAIN values : values[k] < v} = Listed(values, below)
        /\ {k \in DOMAIN values : values[k] <= v} = Listed(values, upto)
    BY <2>1 DEF Listed
  <2>4. /\ {i \in NonNull(table, a.column) : table[i][a.column] < v} = Holding(table, a.column, below)
        /\ {i \in NonNull(table, a.column) : table[i][a.column] <= v} = Holding(table, a.column, upto)
    BY <2>2 DEF Holding
  <2> HIDE DEF below, upto
  <2>5. /\ Cardinality(Listed(values, below)) = Cardinality(Holding(table, a.column, below))
        /\ Cardinality(Listed(values, upto)) = Cardinality(Holding(table, a.column, upto))
    BY <1>1, ListedCount
  <2>6. Cardinality(Holding(table, a.column, upto)) \in Nat
    <3>1. IsFiniteSet(NonNull(table, a.column))
      BY <1>1, CellsAreFinite
    <3>2. IsFiniteSet(Holding(table, a.column, upto))
      BY <3>1, FS_Subset DEF Holding
    <3> QED BY <3>2, FS_CardinalityType
  <2>7. (r + 1) - 1 = r
    BY <1>8
  <2>8. /\ Cardinality({i \in NonNull(table, a.column) : table[i][a.column] < v}) <= r
        /\ r < Cardinality({i \in NonNull(table, a.column) : table[i][a.column] <= v})
    <3>1. Cardinality(Holding(table, a.column, below)) <= r
      BY <1>9, <2>3, <2>5, <2>7
    <3>2. r + 1 <= Cardinality(Holding(table, a.column, upto))
      BY <1>9, <2>3, <2>5
    <3>3. r < Cardinality(Holding(table, a.column, upto))
      BY <1>8, <2>6, <3>2
    <3> QED BY <2>4, <3>1, <3>3
  <2> QED BY <2>8 DEF AtRank
<1>12. Percentile(a.p, values) = v
  BY DEF Percentile, v, r, n
<1>13. Holds(a) <=> \E w \in V : AtRank(r, a.column, w) /\ w \in a.low .. a.high
  BY <1>6, HoldsIs DEF r, V
<1>14. \A w \in V : AtRank(r, a.column, w) => w = v
  BY <1>2, <1>8, <1>10, <1>11, OneAtRank DEF V
<1> QED BY <1>10, <1>11, <1>12, <1>13, <1>14

-----------------------------------------------------------------------------
(* The run.                                                                *)

LEMMA AssertionsAre ==
    ASSUME NEW i \in DOMAIN Assertions
    PROVE  WellFormed(Assertions[i])
BY AssertionsAssumption DEF WellFormed

LEMMA KindIs ==
    ASSUME NEW acc, NEW a, a.kind \in AssertionKinds, NEW rows, Knows(acc, a, rows)
    PROVE  acc.kind = a.kind
BY DEF Knows, AssertionKinds, Counting

\* At the end of the stream an accumulator says of the table what the assertion means.
LEMMA VerdictIsAboutTheTable ==
    ASSUME TypeInv, NEW a, WellFormed(a), Working(a), ~LeftToChance(a),
           NEW acc, Knows(acc, a, table)
    PROVE  Finalize(acc, a, now) = IF Judgeable(a) THEN PassIf(Holds(a)) ELSE "Error"
<1>1. acc.kind = a.kind
  BY KindIs DEF WellFormed
<1>2. Buildable(a, Schema)
  BY DEF Working
<1>3. a.kind # "PercentileBetween" => Judgeable(a)
  BY DEF Working, Judgeable, BetweenFails
<1>4. CASE a.kind \in Counting
  <2>1. Judgeable(a)
    BY <1>3, <1>4 DEF Counting
  <2>2. acc.count = 0 <=> Holds(a)
    BY <1>4, <2>1, CountVerdict DEF Knows
  <2> QED BY <1>1, <1>4, <2>1, <2>2, FinalizeIs DEF PassIf
<1>5. CASE a.kind = "RowCount"
  <2>1. acc.count = Len(table)
    BY <1>5 DEF Knows
  <2> QED BY <1>1, <1>3, <1>5, <2>1, FinalizeIs, HoldsIs DEF PassIf
<1>6. CASE a.kind \in {"Unique", "UniqueGroup"}
  <2>1. acc.dup_count = 0 <=> Holds(a)
    BY <1>6, KeyVerdict DEF Knows
  <2> QED BY <1>1, <1>3, <1>6, <2>1, FinalizeIs DEF PassIf
<1>7. CASE a.kind = "CardinalityBetween"
  <2>1. acc.seen = Values(table, a.column)
    BY <1>7 DEF Knows
  <2> QED BY <1>1, <1>3, <1>7, <2>1, FinalizeIs, HoldsIs DEF PassIf
<1>8. CASE a.kind = "PercentileBetween"
  <2>1. acc.values \in Seq(Int \cup {NaN}) /\ ListsCells(acc.values, table, a.column)
    BY <1>8 DEF Knows
  <2>2. NaN \notin Values(table, a.column)
    BY <1>8 DEF LeftToChance
  <2>3. Judgeable(a) <=> Values(table, a.column) # {}
    BY <1>2, <1>8 DEF Judgeable
  <2>4. Values(table, a.column) = {} <=> acc.values = <<>>
    <3>1. \A v : v \in Values(table, a.column) <=> \E k \in DOMAIN acc.values : acc.values[k] = v
      BY <2>1, ListedCount DEF TypeInv
    <3>2. ASSUME NEW s \in Seq(Int \cup {NaN})
          PROVE  s = <<>> <=> DOMAIN s = {}
      <4>1. DOMAIN s = 1 .. Len(s) /\ Len(s) \in Nat
        OBVIOUS
      <4>2. s = <<>> <=> Len(s) = 0
        BY EmptySeq
      <4> QED BY <4>1, <4>2
    <3> QED BY <2>1, <3>1, <3>2
  <2>5. CASE Values(table, a.column) = {}
    BY <1>1, <1>8, <2>3, <2>4, <2>5, FinalizeIs
  <2>6. CASE Values(table, a.column) # {}
    <3>1. Percentile(a.p, acc.values) \in a.low .. a.high <=> Holds(a)
      BY <1>2, <1>8, <2>1, <2>2, <2>6, PercentileVerdict
    <3> QED BY <1>1, <1>8, <2>3, <2>4, <2>6, <3>1, FinalizeIs DEF PassIf
  <2> QED BY <2>5, <2>6
<1>9. CASE a.kind = "Freshness"
  <2>1. acc.max_value = MaxValue(table, a.column)
    BY <1>9 DEF Knows
  <2>2. Holds(a) <=> /\ acc.max_value # NULL
                     /\ Seconds(now) - Seconds(acc.max_value) <= a.within_seconds
    BY <1>2, <1>9, <2>1, FreshVerdict
  <2> QED BY <1>1, <1>3, <1>9, <2>2, FinalizeIs DEF PassIf
<1>10. CASE a.kind = "SchemaMatch"
  <2>1. acc.verdict = PassIf(a.fields = Schema)
    BY <1>10 DEF Knows
  <2> QED BY <1>1, <1>3, <1>10, <2>1, FinalizeIs, HoldsIs DEF PassIf
<1> QED BY <1>4, <1>5, <1>6, <1>7, <1>8, <1>9, <1>10 DEF WellFormed, AssertionKinds, Counting

LEMMA BrokenIs ==
    ASSUME NEW a
    PROVE  /\ Broken.kind = "Error"
           /\ \A t : Finalize(Broken, a, t) = "Error"
           /\ \A batch : Update(Broken, a, Schema, batch) = Broken
           /\ ~Unordered(Broken)
BY DEF Broken, Finalize, Update, Unordered

\* Only the values of a percentile over NaNs cannot be sorted.
LEMMA UnsortableIs ==
    ASSUME TypeInv, AccsInv, NEW i \in DOMAIN Assertions, i \in Unsortable
    PROVE  LeftToChance(Assertions[i])
<1> DEFINE a == Assertions[i]
<1>1. Unordered(accs[i])
  BY DEF Unsortable
<1>2. Working(a) /\ Knows(accs[i], a, table)
  BY <1>1, BrokenIs DEF AccsInv
<1>3. accs[i].kind = a.kind
  BY <1>2, AssertionsAre, KindIs DEF WellFormed
<1>4. a.kind = "PercentileBetween" /\ \E k \in DOMAIN accs[i].values : accs[i].values[k] = NaN
  BY <1>1, <1>3 DEF Unordered
<1>5. accs[i].values \in Seq(Int \cup {NaN}) /\ ListsCells(accs[i].values, table, a.column)
  BY <1>2, <1>4 DEF Knows
<1>6. NaN \in Values(table, a.column)
  BY <1>4, <1>5, ListedCount DEF TypeInv
<1> QED BY <1>4, <1>6 DEF LeftToChance

LEMMA JudgedVerdict ==
    ASSUME TypeInv, AccsInv, NEW i \in DOMAIN Assertions, ~LeftToChance(Assertions[i])
    PROVE  Finalize(accs[i], Assertions[i], now) =
             IF Judgeable(Assertions[i]) THEN PassIf(Holds(Assertions[i])) ELSE "Error"
<1> DEFINE a == Assertions[i]
<1>1. CASE Working(a)
  <2>1. WellFormed(a) /\ Knows(accs[i], a, table)
    BY <1>1, AssertionsAre DEF AccsInv
  <2> QED BY <1>1, <2>1, VerdictIsAboutTheTable
<1>2. CASE ~Working(a)
  <2>1. accs[i] = Broken
    BY <1>2 DEF AccsInv
  <2>2. ~Judgeable(a)
    BY <1>2 DEF Working, Judgeable, BetweenFails, TypeInv
  <2> QED BY <2>1, <2>2, BrokenIs
<1> QED BY <1>1, <1>2

LEMMA InitIInv == Init => IInv
<1> SUFFICES ASSUME Init PROVE IInv
  OBVIOUS
<1>1. TypeInv
  BY BoundsAssumption DEF Init, TypeInv
<1>2. AccsInv
  <2>1. \A i \in DOMAIN Assertions :
          /\ Working(Assertions[i]) <=> Buildable(Assertions[i], Schema)
          /\ accs[i] = IF Buildable(Assertions[i], Schema) THEN Fresh(Assertions[i], Schema) ELSE Broken
    BY DEF Init, Working, Build
  <2>2. DOMAIN accs = DOMAIN Assertions
    BY DEF Init
  <2>3. \A i \in DOMAIN Assertions : Knows(Fresh(Assertions[i], Schema), Assertions[i], table)
    BY AssertionsAre, FreshKnows DEF Init, WellFormed
  <2> QED BY <2>1, <2>2, <2>3 DEF AccsInv
<1>3. VerdictsMatchTheTable
  BY DEF Init, VerdictsMatchTheTable
<1> QED BY <1>1, <1>2, <1>3 DEF IInv

LEMMA BatchesAre == \A batch \in Batches : batch \in Seq(Rows)
<1> SUFFICES ASSUME NEW n \in 0 .. MaxBatch, NEW batch \in [1 .. n -> Rows]
             PROVE  batch \in Seq(Rows)
  BY DEF Batches
<1>1. n \in Nat
  BY BoundsAssumption
<1> QED BY <1>1, SeqDef

LEMMA TypeStep ==
    ASSUME TypeInv, [Next]_vars
    PROVE  TypeInv'
<1>1. CASE \E batch \in Batches : PullBatch(batch)
  <2>1. PICK batch \in Batches : PullBatch(batch)
    BY <1>1
  <2>2. table \o batch \in Seq(Rows)
    BY BatchesAre, Joined DEF TypeInv
  <2>3. pulls + 1 \in Nat /\ pulls + 1 # 0
    BY DEF TypeInv
  <2> QED BY <2>1, <2>2, <2>3 DEF TypeInv, PullBatch
<1>2. CASE EndOfStream \/ SortPanics \/ ScannerFails \/ Advance \/ Terminated \/ UNCHANGED vars
  BY <1>2 DEF TypeInv, EndOfStream, SortPanics, ScannerFails, Advance, Terminated, vars
<1> QED BY <1>1, <1>2 DEF Next

LEMMA AccsStep ==
    ASSUME TypeInv, AccsInv, [Next]_vars
    PROVE  AccsInv'
<1>1. CASE \E batch \in Batches : PullBatch(batch)
  <2>1. PICK batch \in Batches : PullBatch(batch)
    BY <1>1
  <2>2. batch \in Seq(Rows) /\ table \in Seq(Rows)
    BY BatchesAre DEF TypeInv
  <2>3. /\ accs' = [i \in DOMAIN accs |-> Update(accs[i], Assertions[i], Schema, batch)]
        /\ table' = table \o batch
        /\ pulls' # 0
    BY <2>1 DEF PullBatch, TypeInv
  <2>4. DOMAIN accs' = DOMAIN Assertions
    BY <2>3 DEF AccsInv
  <2>5. ASSUME NEW i \in DOMAIN Assertions
        PROVE  IF Working(Assertions[i])' THEN Knows(accs'[i], Assertions[i], table')
               ELSE accs'[i] = Broken
    <3> DEFINE a == Assertions[i]
    <3>1. accs'[i] = Update(accs[i], a, Schema, batch)
      BY <2>3 DEF AccsInv
    <3>2. Working(a)' <=> Buildable(a, Schema) /\ ~BetweenFails(a, Schema)
      BY <2>3 DEF Working
    <3>3. a.kind \in AssertionKinds
      BY AssertionsAre DEF WellFormed
    <3>4. CASE Working(a)'
      <4>1. Working(a)
        BY <3>2, <3>4 DEF Working
      <4>2. Knows(accs[i], a, table)
        BY <4>1 DEF AccsInv
      <4>3. Knows(accs'[i], a, table')
        BY <2>2, <2>3, <3>1, <3>2, <3>3, <3>4, <4>2, UpdateKnows
      <4> QED BY <3>4, <4>3
    <3>5. CASE ~Working(a)' /\ ~Working(a)
      <4>1. accs[i] = Broken
        BY <3>5 DEF AccsInv
      <4> QED BY <3>1, <3>5, <4>1, BrokenIs
    <3>6. CASE ~Working(a)' /\ Working(a)
      <4>1. BetweenFails(a, Schema)
        BY <3>2, <3>6 DEF Working
      <4>2. accs[i].kind = a.kind
        BY <3>3, <3>6, KindIs DEF AccsInv
      <4>3. a.kind = "Between"
        BY <4>1 DEF BetweenFails
      <4>4. Update(accs[i], a, Schema, batch) = Broken
        BY <4>1, <4>2, <4>3 DEF Update
      <4> QED BY <3>1, <3>6, <4>4
    <3> QED BY <3>4, <3>5, <3>6
  <2> QED BY <2>4, <2>5 DEF AccsInv
<1>2. CASE EndOfStream \/ SortPanics \/ ScannerFails \/ Advance \/ Terminated \/ UNCHANGED vars
  <2>1. accs' = accs /\ table' = table /\ pulls' = pulls
    BY <1>2 DEF EndOfStream, SortPanics, ScannerFails, Advance, Terminated, vars
  <2>2. \A i \in DOMAIN Assertions : Working(Assertions[i])' <=> Working(Assertions[i])
    BY <2>1 DEF Working
  <2> QED BY <2>1, <2>2 DEF AccsInv
<1> QED BY <1>1, <1>2 DEF Next

LEMMA SameMeaning ==
    ASSUME NEW CONSTANT a, UNCHANGED <<table, now, pulls>>
    PROVE  /\ Holds(a)' <=> Holds(a)
           /\ Judgeable(a)' <=> Judgeable(a)
           /\ LeftToChance(a)' <=> LeftToChance(a)
BY DEF Holds, AtRank, Judgeable, LeftToChance

LEMMA VerdictsStep ==
    ASSUME IInv, [Next]_vars
    PROVE  VerdictsMatchTheTable'
<1>1. CASE EndOfStream
  <2>1. PICK chance \in [Unsortable -> {"Pass", "Fail"}] :
          results' = [i \in DOMAIN accs |->
                        IF i \in Unsortable THEN chance[i]
                        ELSE Finalize(accs[i], Assertions[i], now)]
    BY <1>1 DEF EndOfStream
  <2>2. UNCHANGED <<table, now, pulls>>
    BY <1>1 DEF EndOfStream
  <2>3. DOMAIN accs = DOMAIN Assertions
    BY DEF IInv, AccsInv
  <2>4. ASSUME NEW i \in DOMAIN Assertions, ~LeftToChance(Assertions[i])'
        PROVE  results'[i] =
                 IF Judgeable(Assertions[i])' THEN PassIf(Holds(Assertions[i])') ELSE "Error"
    <3> DEFINE a == Assertions[i]
    <3>1. /\ Holds(a)' <=> Holds(a)
          /\ Judgeable(a)' <=> Judgeable(a)
          /\ LeftToChance(a)' <=> LeftToChance(a)
      BY <2>2, SameMeaning
    <3>2. ~LeftToChance(a)
      BY <2>4, <3>1
    <3>3. i \notin Unsortable
      BY <3>2, UnsortableIs DEF IInv
    <3>4. results'[i] = Finalize(accs[i], a, now)
      BY <2>1, <2>3, <3>3
    <3>5. Finalize(accs[i], a, now) = IF Judgeable(a) THEN PassIf(Holds(a)) ELSE "Error"
      BY <3>2, JudgedVerdict DEF IInv
    <3> QED BY <3>1, <3>4, <3>5 DEF PassIf
  <2> QED BY <2>4 DEF VerdictsMatchTheTable, PassIf
<1>2. CASE (\E batch \in Batches : PullBatch(batch)) \/ SortPanics \/ ScannerFails \/ Advance
  BY <1>2 DEF VerdictsMatchTheTable, PullBatch, SortPanics, ScannerFails, Advance
<1>3. CASE Terminated \/ UNCHANGED vars
  <2>1. UNCHANGED <<phase, results, table, now, pulls>>
    BY <1>3 DEF Terminated, vars
  <2>2. ASSUME NEW i \in DOMAIN Assertions
        PROVE  /\ Holds(Assertions[i])' <=> Holds(Assertions[i])
               /\ Judgeable(Assertions[i])' <=> Judgeable(Assertions[i])
               /\ LeftToChance(Assertions[i])' <=> LeftToChance(Assertions[i])
    BY <2>1, SameMeaning
  <2> QED BY <2>1, <2>2 DEF IInv, VerdictsMatchTheTable, PassIf
<1> QED BY <1>1, <1>2, <1>3 DEF Next

\* The inductive invariant: what every accumulator knows of the rows so far.
THEOREM Invariant == Spec => []IInv
<1>1. IInv /\ [Next]_vars => IInv'
  BY TypeStep, AccsStep, VerdictsStep DEF IInv
<1> QED BY <1>1, InitIInv, PTL DEF Spec

\* The verdicts of a run are about the whole table, however the scanner cut it into
\* batches: for every plan, schema and table.
THEOREM VerdictsAreSound == Spec => []VerdictsMatchTheTable
<1>1. IInv => VerdictsMatchTheTable
  BY DEF IInv
<1> QED BY <1>1, Invariant, PTL

-----------------------------------------------------------------------------
(* The errors of Freshness.                                                *)

LEMMA FreshResult ==
    ASSUME IInv, phase = "done", NEW i \in DOMAIN Assertions,
           Assertions[i].kind = "Freshness", Buildable(Assertions[i], Schema)
    PROVE  /\ Values(table, Assertions[i].column) \subseteq Int
           /\ results[i] = PassIf(\E t \in Values(table, Assertions[i].column) :
                                    Seconds(now) <= Seconds(t) + Assertions[i].within_seconds)
<1> DEFINE a == Assertions[i]
<1>1. Values(table, a.column) \subseteq Int
  BY ColumnIs, CellTypes DEF IInv, TypeInv
<1>2. Judgeable(a) /\ ~LeftToChance(a)
  BY DEF Judgeable, LeftToChance
<1>3. results[i] = PassIf(Holds(a))
  BY <1>2 DEF IInv, VerdictsMatchTheTable
<1> QED BY <1>1, <1>3, HoldsIs DEF PassIf

LEMMA Rounding ==
    ASSUME NEW t \in Int, NEW n \in Nat, NEW w \in Int
    PROVE  /\ ~(Seconds(n) <= Seconds(t) + w) => n - t > w * PerSecond
           /\ Seconds(n) <= Seconds(t) + w => n - t < (w + Slack(t)) * PerSecond
<1> DEFINE s == Seconds(t)
           r == Seconds(n)
           P == PerSecond
<1>1. P \in Nat \ {0}
  BY UnitAssumption
<1>2. /\ s \in Int /\ r \in Int
      /\ r * P <= n /\ n < (r + 1) * P
      /\ t >= 0 => s * P <= t /\ t < (s + 1) * P
      /\ t < 0 => (s - 1) * P < t /\ t <= s * P
  BY SecondsIs
<1> HIDE DEF s, r, P
<1>3. \A x, y \in Int : (x * P \in Int) /\ (x <= y => x * P <= y * P)
  BY Scaled DEF P
<1>4. /\ (s + 1) * P = s * P + P
      /\ (s - 1) * P = s * P - P
      /\ (r + 1) * P = r * P + P
      /\ (s + w + 1) * P = s * P + w * P + P
      /\ (s + w) * P = s * P + w * P
      /\ (w + 1) * P = w * P + P
      /\ (w + 2) * P = w * P + P + P
  BY <1>1, <1>2
<1>5. s * P \in Int /\ w * P \in Int /\ r * P \in Int
  BY <1>2, <1>3
<1>6. ASSUME ~(r <= s + w)
      PROVE  n - t > w * P
  <2>1. s + w + 1 <= r
    BY <1>2, <1>6
  <2>2. (s + w + 1) * P <= r * P
    BY <1>2, <1>3, <2>1
  <2>3. t < s * P + P
    BY <1>1, <1>2, <1>4, <1>5
  <2> QED BY <1>1, <1>2, <1>4, <1>5, <2>2, <2>3
<1>7. ASSUME r <= s + w
      PROVE  n - t < (w + Slack(t)) * P
  <2>1. r * P <= (s + w) * P
    BY <1>2, <1>3, <1>7
  <2>2. n < s * P + w * P + P
    BY <1>1, <1>2, <1>4, <1>5, <2>1
  <2>3. CASE t >= 0
    <3>1. Slack(t) = 1
      BY <2>3 DEF Slack
    <3> QED BY <1>1, <1>2, <1>4, <1>5, <2>2, <2>3, <3>1
  <2>4. CASE t < 0
    <3>1. Slack(t) = 2
      BY <2>4 DEF Slack
    <3> QED BY <1>1, <1>2, <1>4, <1>5, <2>2, <2>4, <3>1
  <2> QED BY <2>3, <2>4
<1> QED BY <1>6, <1>7 DEF s, r, P

\* Freshness errs by less than a second, and by less than two before 1970.
THEOREM FreshnessIsNearlyExact == Spec => []FreshnessErrsByLessThanASecond
<1>1. ASSUME IInv PROVE FreshnessErrsByLessThanASecond
  <2> SUFFICES ASSUME phase = "done", NEW i \in DOMAIN Assertions,
                      Assertions[i].kind = "Freshness", Buildable(Assertions[i], Schema)
               PROVE  LET a == Assertions[i] IN
                      /\ results[i] = "Fail" =>
                           \A t \in Values(table, a.column) : now - t > a.within_seconds * PerSecond
                      /\ results[i] = "Pass" =>
                           \E t \in Values(table, a.column) :
                             now - t < (a.within_seconds + Slack(t)) * PerSecond
    BY DEF FreshnessErrsByLessThanASecond
  <2> DEFINE a == Assertions[i]
             V == Values(table, a.column)
             w == a.within_seconds
  <2>1. V \subseteq Int /\ results[i] = PassIf(\E t \in V : Seconds(now) <= Seconds(t) + w)
    BY <1>1, FreshResult
  <2>2. now \in Nat /\ w \in Int
    BY <1>1, AssertionsAre DEF IInv, TypeInv, WellFormed
  <2> HIDE DEF V, w
  <2>3. \A t \in V :
          /\ ~(Seconds(now) <= Seconds(t) + w) => now - t > w * PerSecond
          /\ Seconds(now) <= Seconds(t) + w => now - t < (w + Slack(t)) * PerSecond
    BY <2>1, <2>2, Rounding
  <2> QED BY <2>1, <2>3 DEF PassIf, V, w
<1> QED BY <1>1, Invariant, PTL

-----------------------------------------------------------------------------
(* What no batch can repair.                                               *)

\* What a verdict on the rows needs of them, row by row.
RowsAreGood(a, rows) ==
    /\ a.kind \in Counting => Counted(a, rows) = {}
    /\ a.kind \in {"Unique", "UniqueGroup"} => NoKeyTwice(a, rows)
    /\ a.kind = "SchemaMatch" => a.fields = Schema

LEMMA RowLevelVerdict ==
    ASSUME NEW a, a.kind \in RowLevel, NEW rows, NEW acc, Knows(acc, a, rows), NEW t
    PROVE  Finalize(acc, a, t) = "Fail" <=> ~RowsAreGood(a, rows)
<1>1. CASE a.kind \in Counting
  <2>1. acc.kind = a.kind /\ (acc.count = 0 <=> Counted(a, rows) = {})
    BY <1>1 DEF Knows
  <2>2. Finalize(acc, a, t) = PassIf(acc.count = 0)
    BY <1>1, <2>1 DEF Finalize, Counting
  <2> QED BY <1>1, <2>1, <2>2 DEF RowsAreGood, PassIf, Counting
<1>2. CASE a.kind \in {"Unique", "UniqueGroup"}
  <2>1. acc.kind = a.kind /\ (acc.dup_count = 0 <=> NoKeyTwice(a, rows))
    BY <1>2 DEF Knows
  <2>2. Finalize(acc, a, t) = PassIf(acc.dup_count = 0)
    BY <1>2, <2>1 DEF Finalize
  <2> QED BY <1>2, <2>1, <2>2 DEF RowsAreGood, PassIf, Counting
<1>3. CASE a.kind = "SchemaMatch"
  <2>1. acc.kind = a.kind /\ acc.verdict = PassIf(a.fields = Schema)
    BY <1>3 DEF Knows
  <2>2. Finalize(acc, a, t) = acc.verdict
    BY <1>3, <2>1 DEF Finalize
  <2> QED BY <1>3, <2>1, <2>2 DEF RowsAreGood, PassIf, Counting
<1> QED BY <1>1, <1>2, <1>3 DEF RowLevel, Counting

LEMMA DoomedIs ==
    ASSUME AccsInv, NEW i \in DOMAIN Assertions
    PROVE  Doomed(i) <=>
             \/ ~Working(Assertions[i])
             \/ Assertions[i].kind \in RowLevel /\ ~RowsAreGood(Assertions[i], table)
<1> DEFINE a == Assertions[i]
<1>1. CASE Working(a)
  <2>1. Knows(accs[i], a, table)
    BY <1>1 DEF AccsInv
  <2>2. accs[i].kind # "Error"
    BY <2>1, AssertionsAre, KindIs DEF WellFormed, AssertionKinds
  <2>3. a.kind \in RowLevel => (Finalize(accs[i], a, now) = "Fail" <=> ~RowsAreGood(a, table))
    BY <2>1, RowLevelVerdict
  <2> QED BY <1>1, <2>2, <2>3 DEF Doomed
<1>2. CASE ~Working(a)
  <2>1. accs[i] = Broken
    BY <1>2 DEF AccsInv
  <2> QED BY <1>2, <2>1, BrokenIs DEF Doomed
<1> QED BY <1>1, <1>2

DoomIsKnown ==
    \A i \in DOMAIN Assertions :
        Doomed(i) <=> \/ ~Working(Assertions[i])
                      \/ Assertions[i].kind \in RowLevel /\ ~RowsAreGood(Assertions[i], table)

\* A violation found in one batch, and a column found broken, decide the verdict.
THEOREM FailsAreForGood == Spec => FailIsForGood
<1>1. AccsInv => DoomIsKnown
  BY DoomedIs DEF DoomIsKnown
<1>2. AccsInv' => DoomIsKnown'
  BY <1>1, PTL
<1>3. ASSUME IInv, IInv', [Next]_vars
      PROVE  \A i \in DOMAIN Assertions : Doomed(i) => Doomed(i)'
  <2> SUFFICES ASSUME NEW i \in DOMAIN Assertions, Doomed(i) PROVE Doomed(i)'
    OBVIOUS
  <2> DEFINE a == Assertions[i]
  <2>1. ~Working(a) \/ (a.kind \in RowLevel /\ ~RowsAreGood(a, table))
    BY <1>3, <1>1 DEF IInv, DoomIsKnown
  <2>2. Doomed(i)' <=> ~Working(a)' \/ (a.kind \in RowLevel /\ ~RowsAreGood(a, table'))
    BY <1>3, <1>2 DEF IInv, DoomIsKnown
  <2>3. CASE \E batch \in Batches : PullBatch(batch)
    <3>1. PICK batch \in Batches : PullBatch(batch)
      BY <2>3
    <3>2. batch \in Seq(Rows) /\ table \in Seq(Rows) /\ table' = table \o batch /\ pulls' # 0
      BY <1>3, <3>1, BatchesAre DEF PullBatch, IInv, TypeInv
    <3>3. ~Working(a) => ~Working(a)'
      BY <3>2 DEF Working
    <3>4. RowsAreGood(a, table') => RowsAreGood(a, table)
      BY <3>2, JoinedCounts, JoinedKeys DEF RowsAreGood
    <3> QED BY <2>1, <2>2, <3>3, <3>4
  <2>4. CASE EndOfStream \/ SortPanics \/ ScannerFails \/ Advance \/ Terminated \/ UNCHANGED vars
    <3>1. table' = table /\ pulls' = pulls
      BY <2>4 DEF EndOfStream, SortPanics, ScannerFails, Advance, Terminated, vars
    <3>2. Working(a)' <=> Working(a)
      BY <3>1 DEF Working
    <3> QED BY <2>1, <2>2, <3>1, <3>2
  <2> QED BY <1>3, <2>3, <2>4 DEF Next
<1>4. IInv /\ IInv' /\ [Next]_vars =>
        [\A i \in DOMAIN Assertions : Doomed(i) => Doomed(i)']_vars
  BY <1>3
<1> QED BY <1>4, Invariant, PTL DEF Spec, FailIsForGood

-----------------------------------------------------------------------------
(* The two engines.                                                        *)

\* What the SQL asks of the table, assertion by assertion.
PgHolds(a) ==
    /\ a.kind = "NotNull" => NonNull(table, a.column) = DOMAIN table
    /\ a.kind = "Between" =>
         \A i \in NonNull(table, a.column) :
           LET v == table[i][a.column] IN ~(v = NaN \/ v > a.high) /\ ~(v < a.low)
    /\ a.kind = "Regex" => \A i \in NonNull(table, a.column) : table[i][a.column] \in a.pattern
    /\ a.kind = "Enum" => \A i \in NonNull(table, a.column) : table[i][a.column] \in a.allowed
    /\ a.kind = "Unique" =>
         \A i, k \in DOMAIN table : k # i => table[i][a.column] # table[k][a.column]
    /\ a.kind = "UniqueGroup" =>
         \A i, k \in DOMAIN table : k # i => \E c \in a.columns : table[i][c] # table[k][c]
    /\ a.kind = "RowCount" => Within(Len(table), a.low, a.high)
    /\ a.kind = "Freshness" =>
         /\ Values(table, a.column) # {}
         /\ now - Max(Values(table, a.column)) <= a.within_seconds * PerSecond

LEMMA PgOperators ==
    /\ \A rows, column : Pg!NonNull(rows, column) = NonNull(rows, column)
    /\ \A rows, column : Pg!Values(rows, column) = Values(rows, column)
    /\ \A S : Pg!Max(S) = Max(S)
    /\ \A n, low, high : Pg!Within(n, low, high) <=> Within(n, low, high)
    /\ \A b : Pg!PassIf(b) = PassIf(b)
<1>1. \A rows, column : Pg!NonNull(rows, column) = NonNull(rows, column)
  BY DEF Pg!NonNull, NonNull
<1>2. \A rows, column : Pg!Values(rows, column) = Values(rows, column)
  BY <1>1 DEF Pg!Values, Values
<1>3. \A S : Pg!Max(S) = Max(S)
  BY DEF Pg!Max, Max
<1>4. \A n, low, high : Pg!Within(n, low, high) <=> Within(n, low, high)
  BY DEF Pg!Within, Within
<1>5. \A b : Pg!PassIf(b) = PassIf(b)
  BY DEF Pg!PassIf, PassIf
<1> QED BY <1>1, <1>2, <1>3, <1>4, <1>5

LEMMA NoDuplicateGroups ==
    ASSUME NEW rows, NEW columns
    PROVE  Pg!DuplicateGroups(rows, columns) = {} <=>
             \A i, k \in DOMAIN rows : k # i => \E c \in columns : rows[i][c] # rows[k][c]
<1> DEFINE group(i) == [c \in columns |-> rows[i][c]]
<1>1. \A i, k : group(k) = group(i) <=> \A c \in columns : rows[i][c] = rows[k][c]
  OBVIOUS
<1>2. Pg!DuplicateGroups(rows, columns) =
        {group(i) : i \in {j \in DOMAIN rows : \E k \in DOMAIN rows : k # j /\ group(k) = group(j)}}
  BY DEF Pg!DuplicateGroups
<1> HIDE DEF group
<1>3. Pg!DuplicateGroups(rows, columns) = {} <=>
        \A i \in DOMAIN rows : ~ \E k \in DOMAIN rows : k # i /\ group(k) = group(i)
  BY <1>2
<1> QED BY <1>1, <1>3

LEMMA PgVerdictIs ==
    ASSUME NEW a, a.kind \in Core, ~Pg!NotPushedDown(a)
    PROVE  PgVerdict(a) = PassIf(PgHolds(a))
<1>1. CASE a.kind \in Counting
  <2>1. Pg!Verdict_(a, table, now) = Pg!PassIf(Pg!Counted(a, table) = {})
    BY <1>1 DEF Pg!Verdict_, Pg!NotPushedDown, Counting
  <2>2. Pg!Counted(a, table) = {} <=> PgHolds(a)
    <3>1. CASE a.kind = "NotNull"
      BY <3>1, PgOperators DEF Pg!Counted, PgHolds, NonNull
    <3>2. CASE a.kind = "Between"
      BY <3>2, PgOperators DEF Pg!Counted, PgHolds, Pg!Above
    <3>3. CASE a.kind = "Regex"
      BY <3>3, PgOperators DEF Pg!Counted, PgHolds
    <3>4. CASE a.kind = "Enum"
      BY <3>4, PgOperators DEF Pg!Counted, PgHolds
    <3> QED BY <1>1, <3>1, <3>2, <3>3, <3>4 DEF Counting
  <2> QED BY <2>1, <2>2, PgOperators DEF PgVerdict, PassIf
<1>2. CASE a.kind = "Unique"
  <2>1. Pg!Verdict_(a, table, now) = Pg!PassIf(Pg!DuplicateGroups(table, {a.column}) = {})
    BY <1>2 DEF Pg!Verdict_, Pg!NotPushedDown
  <2>2. Pg!DuplicateGroups(table, {a.column}) = {} <=> PgHolds(a)
    BY <1>2, NoDuplicateGroups DEF PgHolds
  <2> QED BY <2>1, <2>2, PgOperators DEF PgVerdict, PassIf
<1>3. CASE a.kind = "UniqueGroup"
  <2>1. Pg!Verdict_(a, table, now) = Pg!PassIf(Pg!DuplicateGroups(table, a.columns) = {})
    BY <1>3 DEF Pg!Verdict_, Pg!NotPushedDown
  <2>2. Pg!DuplicateGroups(table, a.columns) = {} <=> PgHolds(a)
    BY <1>3, NoDuplicateGroups DEF PgHolds
  <2> QED BY <2>1, <2>2, PgOperators DEF PgVerdict, PassIf
<1>4. CASE a.kind = "RowCount"
  <2>1. Pg!Verdict_(a, table, now) = Pg!PassIf(Pg!Within(Len(table), a.low, a.high))
    BY <1>4 DEF Pg!Verdict_, Pg!NotPushedDown
  <2>2. Pg!Within(Len(table), a.low, a.high) <=> PgHolds(a)
    BY <1>4, PgOperators DEF PgHolds
  <2> QED BY <2>1, <2>2, PgOperators DEF PgVerdict, PassIf
<1>5. CASE a.kind = "Freshness"
  <2>1. Pg!Verdict_(a, table, now) = Pg!PassIf(Pg!FreshEnough(a, table, now))
    BY <1>5 DEF Pg!Verdict_, Pg!NotPushedDown
  <2>2. Pg!FreshEnough(a, table, now) <=> PgHolds(a)
    BY <1>5, PgOperators DEF PgHolds, Pg!FreshEnough
  <2> QED BY <2>1, <2>2, PgOperators DEF PgVerdict, PassIf
<1> QED BY <1>1, <1>2, <1>3, <1>4, <1>5 DEF Core, Counting

\* An assertion of both engines can be judged by the scan path.
LEMMA SharedIs ==
    ASSUME NEW a, WellFormed(a), Shared(a)
    PROVE  /\ a.kind \in Core /\ ~Pg!NotPushedDown(a)
           /\ Buildable(a, Schema) /\ Judgeable(a) /\ ~LeftToChance(a)
           /\ a.kind = "Between" => /\ a.column \in Columns(Schema)
                                    /\ TypeOf(Schema, a.column) \in Numeric
<1>1. a.kind = "Between" => TypeOf(Schema, a.column) \in Numeric
  <2> SUFFICES ASSUME a.kind = "Between" PROVE TypeOf(Schema, a.column) \in Numeric
    OBVIOUS
  <2>1. ~Pg!QueryError(a, Schema)
    BY DEF Shared, Refused
  <2>2. Pg!QueryColumns(a) = {a.column}
    BY DEF Pg!QueryColumns
  <2>3. Pg!Comparable(a, Pg!TypeOf(Schema, a.column))
    BY <2>1, <2>2 DEF Pg!QueryError
  <2>4. Pg!TypeOf(Schema, a.column) \in Pg!Numeric
    BY <2>3 DEF Pg!Comparable
  <2>5. Pg!TypeOf(Schema, a.column) = TypeOf(Schema, a.column)
    BY DEF Pg!TypeOf, TypeOf
  <2>6. Pg!Numeric = Numeric
    BY DEF Pg!Numeric, Numeric
  <2> QED BY <2>4, <2>5, <2>6
<1>2. a.kind \in Core /\ ~Pg!NotPushedDown(a) /\ Buildable(a, Schema)
  BY DEF Shared
<1>3. a.kind # "PercentileBetween"
  BY <1>2 DEF Core
<1>4. Judgeable(a) /\ ~LeftToChance(a)
  BY <1>1, <1>2, <1>3 DEF Judgeable, LeftToChance
<1> QED BY <1>1, <1>2, <1>4, ColumnIs

\* What the SQL accepts, the accumulators accept.
LEMMA Stricter ==
    ASSUME TypeInv, NEW a, WellFormed(a), Shared(a), PgHolds(a)
    PROVE  Holds(a)
<1>1. a.kind \in Core /\ Buildable(a, Schema)
  BY SharedIs
<1>2. \A S : (\A i \in NonNull(table, a.column) : table[i][a.column] \in S)
               => Values(table, a.column) \subseteq S
  BY DEF Values
<1>3. CASE a.kind = "NotNull"
  BY <1>3, HoldsIs DEF PgHolds
<1>4. CASE a.kind = "Between"
  <2>1. Values(table, a.column) \subseteq Int \cup {NaN}
    BY <1>4, SharedIs, CellTypes DEF TypeInv
  <2>2. \A i \in NonNull(table, a.column) : table[i][a.column] \in Int \cup {NaN}
    BY <2>1 DEF Values
  <2>3. a.low \in Int /\ a.high \in Int
    BY <1>4 DEF WellFormed
  <2>4. \A i \in NonNull(table, a.column) :
          LET v == table[i][a.column] IN ~(v = NaN \/ v > a.high) /\ ~(v < a.low)
    BY <1>4 DEF PgHolds
  <2>5. \A i \in NonNull(table, a.column) : table[i][a.column] \in (a.low .. a.high) \cup {NaN}
    BY <2>2, <2>3, <2>4
  <2> QED BY <1>2, <1>4, <2>5, HoldsIs
<1>5. CASE a.kind = "Regex"
  BY <1>2, <1>5, HoldsIs DEF PgHolds
<1>6. CASE a.kind = "Enum"
  BY <1>2, <1>6, HoldsIs DEF PgHolds
<1>7. CASE a.kind = "Unique"
  BY <1>7, HoldsIs DEF PgHolds, NonNull
<1>8. CASE a.kind = "UniqueGroup"
  BY <1>8, HoldsIs DEF PgHolds
<1>9. CASE a.kind = "RowCount"
  BY <1>9, HoldsIs DEF PgHolds
<1>10. CASE a.kind = "Freshness"
  <2> DEFINE V == Values(table, a.column)
             w == a.within_seconds
  <2>1. V \in SUBSET Int /\ IsFiniteSet(V)
    BY <1>1, <1>10, ColumnIs, CellTypes, CellsAreFinite DEF TypeInv
  <2>2. V # {} /\ now - Max(V) <= w * PerSecond
    BY <1>10 DEF PgHolds
  <2>3. now \in Nat /\ w \in Int
    BY <1>10 DEF TypeInv, WellFormed
  <2> HIDE DEF V, w
  <2>4. PICK m \in V : m = Max(V) /\ m \in Int
    BY <2>1, <2>2, MaxExists
  <2>5. w * PerSecond \in Int
    BY <2>3, Scaled
  <2>6. ~(now - m > w * PerSecond)
    BY <2>2, <2>3, <2>4, <2>5
  <2>7. Seconds(now) <= Seconds(m) + w
    BY <2>3, <2>4, <2>6, Rounding
  <2> QED BY <1>10, <2>4, <2>7, HoldsIs DEF V, w
<1> QED BY <1>1, <1>3, <1>4, <1>5, <1>6, <1>7, <1>8, <1>9, <1>10 DEF Core

\* Off the edges, what the accumulators accept, the SQL accepts.
LEMMA OffTheEdges ==
    ASSUME TypeInv, NEW a, WellFormed(a), Shared(a), ~OnTheEdge(a), Holds(a)
    PROVE  PgHolds(a)
<1>1. a.kind \in Core /\ Buildable(a, Schema)
  BY SharedIs
<1>2. \A S : Values(table, a.column) \subseteq S
               => \A i \in NonNull(table, a.column) : table[i][a.column] \in S
  BY DEF Values
<1>3. CASE a.kind = "NotNull"
  BY <1>3, HoldsIs DEF PgHolds
<1>4. CASE a.kind = "Between"
  <2>1. Values(table, a.column) \subseteq (a.low .. a.high) \cup {NaN} /\ NaN \notin Values(table, a.column)
    BY <1>4, HoldsIs DEF OnTheEdge
  <2>2. Values(table, a.column) \subseteq a.low .. a.high
    BY <2>1
  <2>3. \A i \in NonNull(table, a.column) : table[i][a.column] \in a.low .. a.high
    BY <1>2, <2>2
  <2>4. a.low \in Int /\ a.high \in Int /\ NaN \notin Int
    BY <1>4, CellsAssumption DEF WellFormed
  <2> QED BY <1>4, <2>3, <2>4 DEF PgHolds
<1>5. CASE a.kind = "Regex"
  BY <1>2, <1>5, HoldsIs DEF PgHolds
<1>6. CASE a.kind = "Enum"
  BY <1>2, <1>6, HoldsIs DEF PgHolds
<1>7. CASE a.kind = "Unique"
  <2>1. Cardinality(Nulls(a.column)) <= 1 /\ IsFiniteSet(Nulls(a.column))
    <3>1. DOMAIN table = 1 .. Len(table) /\ Len(table) \in Nat
      BY DEF TypeInv
    <3>2. IsFiniteSet(Nulls(a.column))
      BY <3>1, Positions, FS_Subset DEF Nulls
    <3>3. Cardinality(Nulls(a.column)) \in Nat
      BY <3>2, FS_CardinalityType
    <3> QED BY <1>7, <3>2, <3>3 DEF OnTheEdge
  <2>2. ASSUME NEW i \in Nulls(a.column), NEW k \in Nulls(a.column), k # i
        PROVE  FALSE
    <3>1. IsFiniteSet({i}) /\ Cardinality({i}) = 1
      BY FS_Singleton
    <3>2. Cardinality({i} \cup {k}) = 2
      BY <2>2, <3>1, FS_AddElement
    <3>3. Cardinality({i} \cup {k}) <= Cardinality(Nulls(a.column))
      BY <2>1, FS_Subset
    <3>4. Cardinality(Nulls(a.column)) \in Nat
      BY <2>1, FS_CardinalityType
    <3> QED BY <2>1, <3>2, <3>3, <3>4
  <2>3. \A i, k \in DOMAIN table : k # i => table[i][a.column] # table[k][a.column]
    BY <1>7, <2>2, HoldsIs DEF Nulls, NonNull
  <2> QED BY <1>7, <2>3 DEF PgHolds
<1>8. CASE a.kind = "UniqueGroup"
  BY <1>8, HoldsIs DEF PgHolds
<1>9. CASE a.kind = "RowCount"
  BY <1>9, HoldsIs DEF PgHolds
<1>10. CASE a.kind = "Freshness"
  <2> DEFINE V == Values(table, a.column)
             w == a.within_seconds
             m == MaxValue(table, a.column)
  <2>1. /\ V # {} => m \in V
        /\ m = NULL <=> V = {}
        /\ Holds(a) <=> m # NULL /\ Seconds(now) - Seconds(m) <= w
    BY <1>1, <1>10, FreshVerdict
  <2>2. V # {} /\ m = Max(V)
    BY <2>1 DEF MaxValue
  <2>3. V \subseteq Int
    BY <1>1, <1>10, ColumnIs, CellTypes DEF TypeInv
  <2>4. now \in Nat /\ w \in Int
    BY <1>10 DEF TypeInv, WellFormed
  <2>5. \A t \in V : LET age == now - t - w * PerSecond IN ~(0 < age /\ age < Slack(t) * PerSecond)
    BY <1>10 DEF OnTheEdge
  <2> HIDE DEF V, w, m
  <2>6. m \in Int /\ m \in V
    BY <2>1, <2>2, <2>3
  <2>7. Slack(m) \in Int
    BY DEF Slack
  <2>8. Seconds(now) <= Seconds(m) + w
    <3>1. Seconds(now) \in Int /\ Seconds(m) \in Int
      BY <2>4, <2>6, SecondsIs
    <3> QED BY <2>1, <2>2, <2>4, <3>1
  <2>9. now - m < (w + Slack(m)) * PerSecond
    BY <2>4, <2>6, <2>8, Rounding
  <2>10. (w + Slack(m)) * PerSecond = w * PerSecond + Slack(m) * PerSecond
    BY <2>4, <2>7, UnitAssumption
  <2>11. w * PerSecond \in Int /\ Slack(m) * PerSecond \in Int
    BY <2>4, <2>7, Scaled
  <2>12. ~(0 < now - m - w * PerSecond /\ now - m - w * PerSecond < Slack(m) * PerSecond)
    BY <2>5, <2>6
  <2>13. now - m <= w * PerSecond
    BY <2>4, <2>6, <2>9, <2>10, <2>11, <2>12
  <2> QED BY <1>10, <2>2, <2>13 DEF PgHolds, V, w
<1> QED BY <1>1, <1>3, <1>4, <1>5, <1>6, <1>7, <1>8, <1>9, <1>10 DEF Core

LEMMA SharedResult ==
    ASSUME IInv, phase = "done", NEW i \in DOMAIN Assertions, Shared(Assertions[i])
    PROVE  /\ results[i] = PassIf(Holds(Assertions[i]))
           /\ PgVerdict(Assertions[i]) = PassIf(PgHolds(Assertions[i]))
           /\ PgHolds(Assertions[i]) => Holds(Assertions[i])
           /\ ~OnTheEdge(Assertions[i]) => (Holds(Assertions[i]) => PgHolds(Assertions[i]))
<1> DEFINE a == Assertions[i]
<1>1. WellFormed(a) /\ TypeInv
  BY AssertionsAre DEF IInv
<1>2. Judgeable(a) /\ ~LeftToChance(a) /\ a.kind \in Core /\ ~Pg!NotPushedDown(a)
  BY <1>1, SharedIs
<1>3. results[i] = PassIf(Holds(a))
  BY <1>2 DEF IInv, VerdictsMatchTheTable
<1>4. PgVerdict(a) = PassIf(PgHolds(a))
  BY <1>2, PgVerdictIs
<1>5. PgHolds(a) => Holds(a)
  BY <1>1, Stricter
<1>6. ~OnTheEdge(a) => (Holds(a) => PgHolds(a))
  BY <1>1, OffTheEdges
<1> QED BY <1>3, <1>4, <1>5, <1>6

\* Off the edges the two engines give one verdict on one table.
THEOREM EnginesAgree == Spec => []AgreeOffTheEdges
<1>1. ASSUME IInv PROVE AgreeOffTheEdges
  <2> SUFFICES ASSUME phase = "done", NEW i \in DOMAIN Assertions,
                      Shared(Assertions[i]), ~OnTheEdge(Assertions[i])
               PROVE  results[i] = PgVerdict(Assertions[i])
    BY DEF AgreeOffTheEdges
  <2> QED BY <1>1, SharedResult DEF PassIf
<1> QED BY <1>1, Invariant, PTL

\* What the scan path rejects in a table, the pushdown rejects.
THEOREM PushdownRejectsMore == Spec => []PushdownIsStricter
<1>1. ASSUME IInv PROVE PushdownIsStricter
  <2> SUFFICES ASSUME phase = "done", NEW i \in DOMAIN Assertions,
                      Shared(Assertions[i]), results[i] = "Fail"
               PROVE  PgVerdict(Assertions[i]) = "Fail"
    BY DEF PushdownIsStricter
  <2> QED BY <1>1, SharedResult DEF PassIf
<1> QED BY <1>1, Invariant, PTL

-----------------------------------------------------------------------------
(* The plan of a declared table.                                           *)

LEMMA ConcatElements ==
    ASSUME NEW S, NEW u \in Seq(S), NEW v \in Seq(S)
    PROVE  u \o v \in Seq(S) /\ Elements(u \o v) = Elements(u) \cup Elements(v)
<1> DEFINE c == u \o v
           m == Len(u)
           n == Len(v)
<1>1. /\ c \in Seq(S) /\ Len(c) = m + n
      /\ \A i \in 1 .. m + n : c[i] = IF i <= m THEN u[i] ELSE v[i - m]
  BY ConcatProperties
<1>2. /\ m \in Nat /\ n \in Nat
      /\ DOMAIN u = 1 .. m /\ DOMAIN v = 1 .. n /\ DOMAIN c = 1 .. m + n
  BY <1>1
<1> HIDE DEF c, m, n
<1>3. Elements(c) \subseteq Elements(u) \cup Elements(v)
  <2> SUFFICES ASSUME NEW i \in DOMAIN c PROVE c[i] \in Elements(u) \cup Elements(v)
    BY DEF Elements
  <2>1. CASE i <= m
    BY <1>1, <1>2, <2>1 DEF Elements
  <2>2. CASE ~(i <= m)
    <3>1. i - m \in DOMAIN v /\ c[i] = v[i - m]
      BY <1>1, <1>2, <2>2
    <3> QED BY <3>1 DEF Elements
  <2> QED BY <2>1, <2>2
<1>4. Elements(u) \subseteq Elements(c)
  <2>1. \A i \in DOMAIN u : i \in DOMAIN c /\ c[i] = u[i]
    BY <1>1, <1>2
  <2> QED BY <2>1 DEF Elements
<1>5. Elements(v) \subseteq Elements(c)
  <2>1. \A i \in DOMAIN v : i + m \in DOMAIN c /\ c[i + m] = v[i]
    BY <1>1, <1>2
  <2> QED BY <2>1 DEF Elements
<1> QED BY <1>1, <1>3, <1>4, <1>5 DEF c

\* `tuple(col.name for col in columns if ..)`
LEMMA NamesOf ==
    ASSUME NEW columns, IsList(columns), NEW K \in SUBSET DOMAIN columns
    PROVE  /\ IsList(Names(Picked(columns, K)))
           /\ Elements(Names(Picked(columns, K))) = {columns[i].name : i \in K}
<1> DEFINE p == Picked(columns, K)
<1>1. p \in Seq(Elements(columns)) /\ Elements(p) = {columns[i] : i \in K}
  BY PickedTicks DEF IsList
<1>2. DOMAIN p = 1 .. Len(p) /\ Len(p) \in Nat
  BY <1>1
<1> HIDE DEF p
<1>3. Elements(Names(p)) = {x.name : x \in Elements(p)}
  BY DEF Elements, Names
<1>4. Elements(Names(p)) = {columns[i].name : i \in K}
  BY <1>1, <1>3
<1>5. Names(p) \in [1 .. Len(p) -> Elements(Names(p))]
  BY <1>2 DEF Names, Elements
<1>6. IsList(Names(p))
  BY <1>2, <1>5, SeqDef DEF IsList
<1> QED BY <1>4, <1>6 DEF p

\* Each group that is not empty is met a first time.
LEMMA GroupsOf ==
    ASSUME NEW groups, IsList(groups)
    PROVE  /\ IsList(Picked(groups, FirstMet(groups)))
           /\ Elements(Picked(groups, FirstMet(groups))) = Elements(groups) \ {<<>>}
<1> DEFINE K == FirstMet(groups)
           p == Picked(groups, K)
<1>1. K \in SUBSET DOMAIN groups
  BY DEF FirstMet
<1>2. p \in Seq(Elements(groups)) /\ Elements(p) = {groups[i] : i \in K}
  BY <1>1, PickedTicks DEF IsList
<1>3. DOMAIN groups \subseteq Nat
  BY DEF IsList
<1>4. ASSUME NEW g \in Elements(groups), g # <<>> PROVE \E i \in K : groups[i] = g
  <2> DEFINE met == {i \in DOMAIN groups : groups[i] = g}
  <2>1. met # {} /\ met \in SUBSET Nat
    BY <1>3 DEF Elements
  <2>2. PICK i \in met : \A j \in met : i <= j
    BY <2>1, LeastNumber
  <2>3. \A j \in DOMAIN groups : j < i => groups[j] # groups[i]
    BY <1>3, <2>2
  <2> QED BY <1>4, <2>2, <2>3 DEF FirstMet
<1>5. Elements(p) = Elements(groups) \ {<<>>}
  <2>1. \A i \in K : groups[i] \in Elements(groups) \ {<<>>}
    BY DEF FirstMet, Elements
  <2> HIDE DEF K, p
  <2> QED BY <1>2, <1>4, <2>1
<1>6. IsList(p)
  <2>1. p \in [1 .. Len(p) -> Elements(p)] /\ Len(p) \in Nat
    BY <1>2 DEF Elements
  <2> QED BY <2>1, SeqDef DEF IsList
<1> QED BY <1>5, <1>6 DEF p, K

LEMMA KeysAreLists ==
    ASSUME NEW t \in Declarations
    PROVE  /\ \A key \in DeclaredKeys(t) : IsList(key)
           /\ IsList(KeyGroups(t))
           /\ Elements(KeyGroups(t)) = DeclaredKeys(t) \ {<<>>}
<1> DEFINE first == <<PrimaryKey(t)>>
           groups == first \o t.unique_constraints
           S == DeclaredKeys(t)
<1>1. /\ IsList(t.columns) /\ IsList(t.unique_constraints)
      /\ \A i \in DOMAIN t.unique_constraints : IsList(t.unique_constraints[i])
  BY DeclarationsAssumption
<1>2. IsList(PrimaryKey(t))
  BY <1>1, NamesOf DEF PrimaryKey
<1>3. \A key \in DeclaredKeys(t) : IsList(key)
  BY <1>1, <1>2 DEF DeclaredKeys, Elements
<1>4. first \in Seq(S) /\ Elements(first) = {PrimaryKey(t)}
  <2>1. PrimaryKey(t) \in S
    BY DEF DeclaredKeys
  <2>2. DOMAIN first = {1} /\ first[1] = PrimaryKey(t)
    OBVIOUS
  <2> HIDE DEF S
  <2> QED BY <2>1, <2>2 DEF Elements
<1>5. t.unique_constraints \in Seq(S)
  <2>1. Elements(t.unique_constraints) \subseteq S
    BY DEF DeclaredKeys
  <2> HIDE DEF S
  <2>2. t.unique_constraints \in Seq(Elements(t.unique_constraints))
    BY <1>1 DEF IsList
  <2> QED BY <2>1, <2>2
<1>6. groups \in Seq(S) /\ Elements(groups) = S
  <2> HIDE DEF first
  <2>1. groups \in Seq(S) /\ Elements(groups) = Elements(first) \cup Elements(t.unique_constraints)
    BY <1>4, <1>5, ConcatElements
  <2> QED BY <1>4, <2>1 DEF DeclaredKeys
<1>7. IsList(groups)
  BY <1>6 DEF IsList
<1> HIDE DEF groups
<1>8. IsList(Picked(groups, FirstMet(groups)))
      /\ Elements(Picked(groups, FirstMet(groups))) = S \ {<<>>}
  BY <1>6, <1>7, GroupsOf
<1> QED BY <1>3, <1>8 DEF groups, KeyGroups

\* The plan has an assertion for each thing declared, and no other.
LEMMA DerivedPlanIs ==
    ASSUME NEW t \in Declarations
    PROVE  /\ \A i \in DOMAIN t.columns : ~t.columns[i].nullable =>
                [kind |-> "NotNull", column |-> t.columns[i].name] \in Elements(DerivedPlan(t))
           /\ \A key \in DeclaredKeys(t) \ {<<>>} : UniqueOver(key) \in Elements(DerivedPlan(t))
           /\ \A a \in Elements(DerivedPlan(t)) :
                \/ \E i \in DOMAIN t.columns :
                     ~t.columns[i].nullable /\ a = [kind |-> "NotNull", column |-> t.columns[i].name]
                \/ \E key \in DeclaredKeys(t) \ {<<>>} : a = UniqueOver(key)
<1> DEFINE K == {i \in DOMAIN t.columns : ~t.columns[i].nullable}
           NotNull(name) == [kind |-> "NotNull", column |-> name]
           u == [i \in DOMAIN Required(t) |-> NotNull(Required(t)[i])]
           v == [i \in DOMAIN KeyGroups(t) |-> UniqueOver(KeyGroups(t)[i])]
<1>1. IsList(Required(t)) /\ Elements(Required(t)) = {t.columns[i].name : i \in K}
  BY DeclarationsAssumption, NamesOf DEF Required
<1>2. IsList(KeyGroups(t)) /\ Elements(KeyGroups(t)) = DeclaredKeys(t) \ {<<>>}
  BY KeysAreLists
<1>3. Elements(u) = {NotNull(name) : name \in Elements(Required(t))}
  BY DEF Elements
<1>4. Elements(v) = {UniqueOver(key) : key \in Elements(KeyGroups(t))}
  BY DEF Elements
<1> DEFINE S == Elements(u) \cup Elements(v)
<1>5. u \in Seq(S)
  <2>1. DOMAIN Required(t) = 1 .. Len(Required(t)) /\ Len(Required(t)) \in Nat
    BY <1>1 DEF IsList
  <2>2. u \in [1 .. Len(Required(t)) -> S]
    BY <2>1 DEF Elements
  <2> HIDE DEF u, S
  <2> QED BY <2>1, <2>2, SeqDef
<1>6. v \in Seq(S)
  <2>1. DOMAIN KeyGroups(t) = 1 .. Len(KeyGroups(t)) /\ Len(KeyGroups(t)) \in Nat
    BY <1>2 DEF IsList
  <2>2. v \in [1 .. Len(KeyGroups(t)) -> S]
    BY <2>1 DEF Elements
  <2> HIDE DEF v, S
  <2> QED BY <2>1, <2>2, SeqDef
<1>7. Elements(DerivedPlan(t)) = Elements(u) \cup Elements(v)
  <2>1. DerivedPlan(t) = u \o v
    BY DEF DerivedPlan
  <2> HIDE DEF u, v
  <2> QED BY <1>5, <1>6, <2>1, ConcatElements
<1> HIDE DEF u, v
<1> QED BY <1>1, <1>2, <1>3, <1>4, <1>7

LEMMA DerivedKind ==
    ASSUME NEW t \in Declarations, NEW a \in Elements(DerivedPlan(t))
    PROVE  a.kind \in {"NotNull", "Unique", "UniqueGroup"}
BY DerivedPlanIs DEF UniqueOver

\* A derived assertion passes when the engine can judge it and it holds of the table.
LEMMA DerivedVerdict ==
    ASSUME IInv, phase = "done", NEW t \in Declarations, NEW a \in Elements(DerivedPlan(t))
    PROVE  VerdictOf(a) = "Pass" <=> Buildable(a, Schema) /\ Holds(a)
<1>1. \E i \in DOMAIN Assertions : Assertions[i] = a
  BY DerivedPlansAreRun DEF Elements
<1> DEFINE i == CHOOSE j \in DOMAIN Assertions : Assertions[j] = a
<1>2. i \in DOMAIN Assertions /\ Assertions[i] = a /\ VerdictOf(a) = results[i]
  BY <1>1 DEF VerdictOf
<1> HIDE DEF i
<1>3. ~LeftToChance(a) /\ (Judgeable(a) <=> Buildable(a, Schema))
  BY DerivedKind DEF LeftToChance, Judgeable
<1>4. results[i] = IF Judgeable(a) THEN PassIf(Holds(a)) ELSE "Error"
  BY <1>2, <1>3 DEF IInv, VerdictsMatchTheTable
<1> QED BY <1>2, <1>3, <1>4 DEF PassIf

\* What a unique assertion asks is what SQL asks of the key, or, with NULLs, more.
LEMMA KeyMeans ==
    ASSUME NEW key, IsList(key), key # <<>>
    PROVE  /\ Holds(UniqueOver(key)) => KeyHolds(key)
           /\ KeyHolds(key) /\ (Len(key) > 1 => ComparableOn(key) = DOMAIN table)
                => Holds(UniqueOver(key))
<1>1. Len(key) \in Nat /\ Len(key) # 0 /\ DOMAIN key = 1 .. Len(key)
  BY DEF IsList
<1>2. CASE Len(key) = 1
  <2> DEFINE c == key[1]
             a == UniqueOver(key)
  <2>1. a.kind = "Unique" /\ a.column = c
    BY <1>2 DEF UniqueOver
  <2>2. Elements(key) = {c}
    BY <1>1, <1>2 DEF Elements
  <2> HIDE DEF a, c
  <2>3. ComparableOn(key) = NonNull(table, c)
    BY <2>2 DEF ComparableOn, NonNull
  <2>4. Holds(a) <=> \A i, j \in NonNull(table, c) : i # j => table[i][c] # table[j][c]
    BY <2>1, HoldsIs
  <2>5. KeyHolds(key) <=> \A i, j \in NonNull(table, c) : i # j => table[i][c] # table[j][c]
    BY <2>2, <2>3 DEF KeyHolds
  <2> QED BY <2>4, <2>5 DEF a
<1>3. CASE Len(key) # 1
  <2> DEFINE a == UniqueOver(key)
  <2>1. a.kind = "UniqueGroup" /\ a.columns = Elements(key)
    BY <1>3 DEF UniqueOver
  <2> HIDE DEF a
  <2>2. Holds(a) <=> \A i, j \in DOMAIN table :
                       i # j => \E c \in Elements(key) : table[i][c] # table[j][c]
    BY <2>1, HoldsIs
  <2>3. ComparableOn(key) \subseteq DOMAIN table
    BY DEF ComparableOn
  <2>4. KeyHolds(key) <=> \A i, j \in ComparableOn(key) :
                            i # j => \E c \in Elements(key) : table[i][c] # table[j][c]
    BY DEF KeyHolds
  <2>5. Holds(a) => KeyHolds(key)
    BY <2>2, <2>3, <2>4
  <2>6. KeyHolds(key) /\ ComparableOn(key) = DOMAIN table => Holds(a)
    BY <2>2, <2>4
  <2>7. Len(key) > 1
    BY <1>1, <1>3
  <2> QED BY <2>5, <2>6, <2>7 DEF a
<1> QED BY <1>2, <1>3

\* The probe that is derived from a declaration passes only tables that keep it, and
\* fails none of them but for a NULL in a composite key: whatever the keys, and however
\* often they are declared.
THEOREM DerivedProbesAreRight == Spec => []DerivedProbeJudgesTheDeclaration
<1>1. ASSUME IInv PROVE DerivedProbeJudgesTheDeclaration
  <2> SUFFICES ASSUME phase = "done", NEW t \in Declarations
               PROVE  /\ DerivedProbePasses(t) => Conforms(t)
                      /\ Conforms(t) /\ NoNullInKeys(t) /\ CanBeJudged(t) => DerivedProbePasses(t)
    BY DEF DerivedProbeJudgesTheDeclaration
  <2> DEFINE plan == Elements(DerivedPlan(t))
  <2>1. /\ DerivedProbePasses(t) <=> \A a \in plan : VerdictOf(a) = "Pass"
        /\ CanBeJudged(t) <=> \A a \in plan : Buildable(a, Schema)
    BY DEF DerivedProbePasses, CanBeJudged, Elements
  <2>2. \A a \in plan : VerdictOf(a) = "Pass" <=> Buildable(a, Schema) /\ Holds(a)
    BY <1>1, DerivedVerdict
  <2>3. \A name : Holds([kind |-> "NotNull", column |-> name]) <=> NonNull(table, name) = DOMAIN table
    BY HoldsIs
  <2>4. \A key \in DeclaredKeys(t) : IsList(key)
    BY KeysAreLists
  <2>5. ASSUME DerivedProbePasses(t) PROVE Conforms(t)
    <3>1. \A a \in plan : Holds(a)
      BY <2>1, <2>2, <2>5
    <3>2. ASSUME NEW i \in DOMAIN t.columns, ~t.columns[i].nullable
          PROVE  NonNull(table, t.columns[i].name) = DOMAIN table
      BY <2>3, <3>1, <3>2, DerivedPlanIs
    <3>3. ASSUME NEW key \in DeclaredKeys(t), key # <<>> PROVE KeyHolds(key)
      BY <2>4, <3>1, <3>3, DerivedPlanIs, KeyMeans
    <3>4. KeyHolds(<<>>)
      BY DEF KeyHolds
    <3> QED BY <3>2, <3>3, <3>4 DEF Conforms
  <2>6. ASSUME Conforms(t), NoNullInKeys(t), CanBeJudged(t) PROVE DerivedProbePasses(t)
    <3>1. ASSUME NEW a \in plan PROVE Holds(a)
      <4>1. CASE \E i \in DOMAIN t.columns :
                   ~t.columns[i].nullable /\ a = [kind |-> "NotNull", column |-> t.columns[i].name]
        BY <2>3, <2>6, <4>1 DEF Conforms
      <4>2. CASE \E key \in DeclaredKeys(t) \ {<<>>} : a = UniqueOver(key)
        <5>1. PICK key \in DeclaredKeys(t) \ {<<>>} : a = UniqueOver(key)
          BY <4>2
        <5>2. KeyHolds(key) /\ (Len(key) > 1 => ComparableOn(key) = DOMAIN table)
          BY <2>6 DEF Conforms, NoNullInKeys
        <5> QED BY <2>4, <5>1, <5>2, KeyMeans
      <4> QED BY <4>1, <4>2, DerivedPlanIs
    <3> QED BY <2>1, <2>2, <2>6, <3>1
  <2> QED BY <2>5, <2>6
<1> QED BY <1>1, Invariant, PTL
=============================================================================
