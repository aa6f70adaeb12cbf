--------------------------- MODULE CallFlowProofs ---------------------------
(***************************************************************************)
(* Proofs about the tables and the lookup of ThreadLookup, for any         *)
(* accounts, participants and numbers and lists of any length, and about   *)
(* the calls of CallFlow, for any channels, contexts and times.            *)
(***************************************************************************)
EXTENDS CallFlow, FiniteSetTheorems, FunctionTheorems, SequenceTheorems,
        WellFoundedInduction, NaturalsInduction, TLAPS

-----------------------------------------------------------------------------
(* The least of some numbers; some rows of a table in their order          *)

LEMMA LeastNumber ==
    ASSUME NEW T, T \subseteq Nat, T # {}
    PROVE  \E n \in T : \A m \in T : n <= m
<1> DEFINE R == {p \in Nat \X Nat : p[1] < p[2]}
<1>1. IsWellFoundedOn(R, Nat)
  BY NatLessThanWellFounded, Zenon DEF OpToRel
<1> HIDE DEF R
<1>2. PICK n \in T : \A m \in T : ~ (<<m, n>> \in R)
  BY <1>1, WFMin, Zenon
<1>3. ASSUME NEW m \in T PROVE n <= m
  <2>1. m \in Nat /\ n \in Nat
    OBVIOUS
  <2>2. ~(<<m, n>> \in R)
    BY <1>2
  <2>3. m < n => <<m, n>> \in R
    BY <2>1 DEF R
  <2> QED
    BY <2>1, <2>2, <2>3
<1> QED
  BY <1>3

LEMMA FirstIsLeast ==
    ASSUME NEW places, places \subseteq Nat, places # {}
    PROVE  /\ First(places) \in places
           /\ \A i \in places : First(places) <= i
           /\ \A i \in places : (\A j \in places : i <= j) => First(places) = i
<1>1. \E i \in places : \A j \in places : i <= j
  BY LeastNumber
<1>2. First(places) \in places /\ \A i \in places : First(places) <= i
  BY <1>1 DEF First
<1>3. ASSUME NEW i \in places, \A j \in places : i <= j PROVE First(places) = i
  <2>1. First(places) <= i /\ i <= First(places) /\ i \in Nat /\ First(places) \in Nat
    BY <1>2, <1>3
  <2> QED
    BY <2>1
<1> QED
  BY <1>2, <1>3

\* `at` goes through the places in their order.
IsOrder(at, size, places) ==
    /\ at \in [1 .. size -> places]
    /\ \A m, n \in 1 .. size : m < n => at[m] < at[n]
    /\ \A i \in places : \E n \in 1 .. size : at[n] = i

LEMMA PlacesAreFinite ==
    ASSUME NEW len \in Nat, NEW places \in SUBSET (1 .. len)
    PROVE  IsFiniteSet(places) /\ Cardinality(places) \in Nat /\ Cardinality(places) <= len
<1>1. IsFiniteSet(1 .. len) /\ Cardinality(1 .. len) = len
  <2>1. 1 \in Int /\ len \in Int
    OBVIOUS
  <2>2. IsFiniteSet(1 .. len) /\ Cardinality(1 .. len) = IF 1 > len THEN 0 ELSE len - 1 + 1
    BY <2>1, FS_Interval, Zenon
  <2> QED
    BY <2>2
<1>2. IsFiniteSet(places) /\ Cardinality(places) <= Cardinality(1 .. len)
  BY <1>1, FS_Subset, Zenon
<1> QED
  BY <1>1, <1>2, FS_CardinalityType

LEMMA OrderExists ==
    ASSUME NEW len \in Nat, NEW places \in SUBSET (1 .. len)
    PROVE  \E at : IsOrder(at, Cardinality(places), places)
<1> DEFINE size == Cardinality(places)
           UpTo(i) == {j \in places : j <= i}
           rank == [i \in places |-> Cardinality(UpTo(i))]
           at == [n \in 1 .. size |-> CHOOSE i \in places : rank[i] = n]
<1>1. IsFiniteSet(places) /\ size \in Nat /\ places \subseteq Nat
  BY PlacesAreFinite
<1> HIDE DEF size
<1>2. ASSUME NEW i \in places
      PROVE  /\ IsFiniteSet(UpTo(i)) /\ rank[i] = Cardinality(UpTo(i))
             /\ rank[i] \in 1 .. size /\ rank[i] \in Nat
  <2>1. UpTo(i) \subseteq places /\ i \in UpTo(i)
    BY <1>1
  <2>2. IsFiniteSet(UpTo(i)) /\ Cardinality(UpTo(i)) <= size
    <3> HIDE DEF UpTo
    <3> QED
      BY <1>1, <2>1, FS_Subset DEF size
  <2>3. Cardinality(UpTo(i)) \in Nat /\ Cardinality(UpTo(i)) # 0
    <3> HIDE DEF UpTo
    <3> QED
      BY <2>1, <2>2, FS_CardinalityType, FS_EmptySet
  <2>4. rank[i] = Cardinality(UpTo(i))
    OBVIOUS
  <2> HIDE DEF rank, UpTo
  <2> QED
    BY <1>1, <2>2, <2>3, <2>4
<1>3. ASSUME NEW i \in places, NEW j \in places, i < j
      PROVE  rank[i] < rank[j]
  <2>0. i \in Nat /\ j \in Nat /\ \A k \in places : k \in Nat
    BY <1>1
  <2>1. UpTo(i) \subseteq UpTo(j) /\ j \in UpTo(j) /\ j \notin UpTo(i)
    <3>1. \A k \in places : k <= i => k <= j
      BY <1>3, <2>0
    <3>2. j <= j /\ ~(j <= i)
      BY <1>3, <2>0
    <3> QED
      BY <3>1, <3>2
  <2>2. /\ IsFiniteSet(UpTo(j)) /\ rank[i] = Cardinality(UpTo(i))
        /\ rank[j] = Cardinality(UpTo(j)) /\ rank[i] \in Nat /\ rank[j] \in Nat
    BY <1>2
  <2> HIDE DEF UpTo, rank
  <2>3. Cardinality(UpTo(i)) <= Cardinality(UpTo(j))
        /\ (Cardinality(UpTo(j)) = Cardinality(UpTo(i)) => UpTo(j) = UpTo(i))
    BY <2>1, <2>2, FS_Subset
  <2> QED
    BY <2>1, <2>2, <2>3
<1> HIDE DEF rank
<1>4. ASSUME NEW i \in places, NEW j \in places, rank[i] = rank[j]
      PROVE  i = j
  <2>1. i \in Nat /\ j \in Nat
    BY <1>1
  <2>2. rank[i] \in Nat /\ rank[j] \in Nat
    BY <1>2
  <2>3. ~(i < j) /\ ~(j < i)
    BY <1>3, <1>4, <2>1, <2>2
  <2> QED
    BY <2>1, <2>3
<1>5. \A n \in 1 .. size : \E i \in places : rank[i] = n
  <2>1. rank \in [places -> 1 .. size]
    BY <1>2 DEF rank
  <2>2. rank \in Injection(places, 1 .. size)
    BY <1>4, <2>1 DEF Injection, IsInjective
  <2>3. IsFiniteSet(1 .. size) /\ Cardinality(1 .. size) = size
    BY <1>1, FS_Interval
  <2>4. rank \in Surjection(places, 1 .. size)
    BY <2>2, <2>3, FS_Injection DEF size
  <2> QED
    BY <2>4 DEF Surjection
<1>6. \A n \in 1 .. size : at[n] \in places /\ rank[at[n]] = n
  BY <1>5
<1>7. \A i \in places : \E n \in 1 .. size : at[n] = i
  <2> SUFFICES ASSUME NEW i \in places PROVE \E n \in 1 .. size : at[n] = i
    OBVIOUS
  <2>1. rank[i] \in 1 .. size /\ at[rank[i]] \in places /\ rank[at[rank[i]]] = rank[i]
    BY <1>2, <1>6
  <2>2. at[rank[i]] = i
    BY <1>4, <2>1
  <2> QED
    BY <2>1, <2>2
<1>8. at \in [1 .. size -> places]
  BY <1>6
<1> HIDE DEF at
<1>9. ASSUME NEW m \in 1 .. size, NEW n \in 1 .. size, m < n
      PROVE  at[m] < at[n]
  <2>0. at[m] \in places /\ at[n] \in places /\ rank[at[m]] = m /\ rank[at[n]] = n
    BY <1>6
  <2>1. at[m] \in Nat /\ at[n] \in Nat /\ m \in Nat /\ n \in Nat
    <3>1. at[m] \in Nat /\ at[n] \in Nat
      BY <1>1, <2>0
    <3> QED
      BY <1>1, <3>1
  <2>2. at[m] # at[n] /\ ~(at[n] < at[m])
    BY <1>3, <1>9, <2>0, <2>1
  <2> QED
    BY <2>1, <2>2
<1>10. IsOrder(at, size, places)
  BY <1>7, <1>8, <1>9 DEF IsOrder
<1> QED
  BY <1>10 DEF size

\* The rows at these places in that order.
InOrder(rows, at, size) == [n \in 1 .. size |-> rows[at[n]]]

\* There is one such order, and the rows are selected in it.
LEMMA SelectedInOrder ==
    ASSUME NEW places, places \subseteq Nat, NEW size \in Nat, NEW at, IsOrder(at, size, places), NEW rows
    PROVE  /\ Cardinality(places) = size
           /\ Selected(rows, places) = InOrder(rows, at, size)
<1>1. /\ at \in [1 .. size -> places]
      /\ \A m, n \in 1 .. size : m < n => at[m] < at[n]
      /\ \A i \in places : \E n \in 1 .. size : at[n] = i
  BY DEF IsOrder
<1>2. \A n \in 1 .. size : at[n] \in places /\ at[n] \in Nat /\ n \in Nat
  <2>1. \A n \in 1 .. size : at[n] \in places /\ n \in Nat
    BY <1>1
  <2> QED
    BY <2>1
<1>3. ASSUME NEW m \in 1 .. size, NEW n \in 1 .. size
      PROVE  at[m] <= at[n] <=> m <= n
  <2>1. m \in Nat /\ n \in Nat /\ at[m] \in Nat /\ at[n] \in Nat
    BY <1>2
  <2>2. /\ m < n => at[m] < at[n]
        /\ n < m => at[n] < at[m]
        /\ m = n => at[m] = at[n]
    BY <1>1
  <2> QED
    BY <2>1, <2>2
<1>4. ASSUME NEW n \in 1 .. size
      PROVE  Cardinality({j \in places : j <= at[n]}) = n
  <2> DEFINE upTo == {j \in places : j <= at[n]}
             f == [m \in 1 .. n |-> at[m]]
  <2>1. n \in Nat /\ 1 .. n \subseteq 1 .. size
    OBVIOUS
  <2>2. \A m \in 1 .. n : f[m] = at[m] /\ m \in 1 .. size /\ m <= n /\ m \in Nat
    BY <2>1
  <2>3. f \in [1 .. n -> upTo]
    <3>1. \A m \in 1 .. n : at[m] \in upTo
      BY <1>2, <1>3, <2>2
    <3> QED
      BY <3>1
  <2>4. \A j \in upTo : \E m \in 1 .. n : f[m] = j
    <3> SUFFICES ASSUME NEW j \in places, j <= at[n] PROVE \E m \in 1 .. n : f[m] = j
      OBVIOUS
    <3>1. PICK m \in 1 .. size : at[m] = j
      BY <1>1
    <3>2. m <= n /\ m \in Nat /\ 1 <= m
      BY <1>2, <1>3, <3>1
    <3>3. m \in 1 .. n
      BY <2>1, <3>2
    <3> QED
      BY <2>2, <3>1, <3>3
  <2> HIDE DEF f
  <2>5. \A k, m \in 1 .. n : f[k] = f[m] => k = m
    <3> SUFFICES ASSUME NEW k \in 1 .. n, NEW m \in 1 .. n, f[k] = f[m] PROVE k = m
      OBVIOUS
    <3>1. at[k] = at[m] /\ at[k] \in Nat /\ k \in 1 .. size /\ m \in 1 .. size /\ k \in Nat /\ m \in Nat
      BY <1>2, <2>2
    <3>2. at[k] <= at[m] /\ at[m] <= at[k]
      BY <3>1
    <3>3. k <= m /\ m <= k
      BY <1>3, <3>1, <3>2
    <3> QED
      BY <3>1, <3>3
  <2> HIDE DEF upTo
  <2>6. f \in Bijection(1 .. n, upTo)
    BY <2>3, <2>4, <2>5 DEF Bijection, Injection, Surjection, IsInjective
  <2>7. IsFiniteSet(1 .. n) /\ Cardinality(1 .. n) = n
    BY <2>1, FS_Interval
  <2>8. Cardinality(upTo) = Cardinality(1 .. n)
    BY <2>6, <2>7, FS_Bijection DEF ExistsBijection
  <2> QED
    BY <2>7, <2>8 DEF upTo
<1>5. Cardinality(places) = size
  <2>1. at \in Bijection(1 .. size, places)
    <3>1. ASSUME NEW m \in 1 .. size, NEW n \in 1 .. size, at[m] = at[n] PROVE m = n
      <4>1. at[m] <= at[n] /\ at[n] <= at[m] /\ m \in Nat /\ n \in Nat
        BY <1>2, <3>1
      <4>2. m <= n /\ n <= m
        BY <1>3, <4>1
      <4> QED
        BY <4>1, <4>2
    <3> QED
      BY <1>1, <3>1 DEF Bijection, Injection, Surjection, IsInjective
  <2>2. IsFiniteSet(1 .. size) /\ Cardinality(1 .. size) = size
    BY FS_Interval
  <2> QED
    BY <2>1, <2>2, FS_Bijection DEF ExistsBijection
<1>6. ASSUME NEW n \in 1 .. size
      PROVE  NthOf(places, n) = at[n]
  <2>1. ASSUME NEW i \in places, Cardinality({j \in places : j <= i}) = n
        PROVE  i = at[n]
    <3>1. PICK m \in 1 .. size : at[m] = i
      BY <1>1
    <3>2. Cardinality({j \in places : j <= at[m]}) = n
      BY <2>1, <3>1
    <3> QED
      BY <1>4, <3>1, <3>2
  <2>2. at[n] \in places /\ Cardinality({j \in places : j <= at[n]}) = n
    BY <1>2, <1>4
  <2> QED
    BY <2>1, <2>2 DEF NthOf
<1> QED
  BY <1>5, <1>6 DEF Selected, InOrder

LEMMA SelectedRows ==
    ASSUME NEW Row, NEW rows \in Seq(Row), NEW places \in SUBSET DOMAIN rows
    PROVE  /\ Selected(rows, places) \in Seq(Row)
           /\ Len(Selected(rows, places)) = Cardinality(places)
           /\ Cardinality(places) \in Nat /\ Cardinality(places) <= Len(rows)
           /\ Range(Selected(rows, places)) = {rows[i] : i \in places}
<1>1. Len(rows) \in Nat /\ DOMAIN rows = 1 .. Len(rows) /\ places \subseteq Nat
      /\ \A i \in places : rows[i] \in Row
  OBVIOUS
<1>2. PICK size : size = Cardinality(places)
  OBVIOUS
<1>3. size \in Nat /\ size <= Len(rows)
  BY <1>1, <1>2, PlacesAreFinite
<1>4. PICK at : IsOrder(at, size, places)
  BY <1>1, <1>2, OrderExists
<1>5. Selected(rows, places) = InOrder(rows, at, size)
  <2>1. places \subseteq Nat /\ size \in Nat
    BY <1>1, <1>3
  <2> QED
    BY <1>4, <2>1, SelectedInOrder
<1>6. PICK new : new = Selected(rows, places)
  OBVIOUS
<1>7. \A n \in 1 .. size : at[n] \in places
  BY <1>4 DEF IsOrder
<1>8. new \in Seq(Row) /\ Len(new) = size /\ DOMAIN new = 1 .. size
  BY <1>1, <1>3, <1>5, <1>6, <1>7 DEF InOrder
<1>9. Range(new) = {rows[i] : i \in places}
  <2>1. \A n \in 1 .. size : new[n] = rows[at[n]]
    BY <1>5, <1>6 DEF InOrder
  <2>2. \A i \in places : \E n \in 1 .. size : at[n] = i
    BY <1>4 DEF IsOrder
  <2>3. Range(new) = {new[n] : n \in 1 .. size}
    BY <1>8 DEF Range
  <2> QED
    BY <1>7, <2>1, <2>2, <2>3
<1> QED
  BY <1>2, <1>3, <1>6, <1>8, <1>9

\* Rows that agree at these places.
LEMMA SelectedAgree ==
    ASSUME NEW len \in Nat, NEW places \in SUBSET (1 .. len), NEW rows, NEW others,
           \A i \in places : rows[i] = others[i]
    PROVE  Selected(rows, places) = Selected(others, places)
<1>1. PICK size : size = Cardinality(places)
  OBVIOUS
<1>2. size \in Nat /\ places \subseteq Nat
  BY <1>1, PlacesAreFinite
<1>3. PICK at : IsOrder(at, size, places)
  BY <1>1, OrderExists
<1>4. /\ Selected(rows, places) = InOrder(rows, at, size)
      /\ Selected(others, places) = InOrder(others, at, size)
  BY <1>2, <1>3, SelectedInOrder
<1>5. \A n \in 1 .. size : rows[at[n]] = others[at[n]]
  BY <1>3 DEF IsOrder
<1> QED
  BY <1>4, <1>5 DEF InOrder

\* The places in a selection of what is at some places of the table.
Within(at, size, some) == {n \in 1 .. size : at[n] \in some}

\* What is selected from a selection, by its places there or by its own.
LEMMA SelectedTwice ==
    ASSUME NEW places \in SUBSET Nat, NEW size \in Nat, NEW at, IsOrder(at, size, places),
           NEW rows, NEW some \in SUBSET places
    PROVE  Selected(InOrder(rows, at, size), Within(at, size, some))
             = Selected(rows, some)
<1>1. PICK there : there = Within(at, size, some)
  OBVIOUS
<1>2. PICK kept : kept = InOrder(rows, at, size)
  OBVIOUS
<1>3. there \in SUBSET (1 .. size) /\ there \subseteq Nat
  BY <1>1 DEF Within
<1>4. PICK count : count = Cardinality(there)
  OBVIOUS
<1>5. count \in Nat
  BY <1>3, <1>4, PlacesAreFinite
<1>6. PICK back : IsOrder(back, count, there)
  BY <1>3, <1>4, OrderExists
<1>7. PICK both : both = [k \in 1 .. count |-> at[back[k]]]
  OBVIOUS
<1>8. \A k \in 1 .. count : back[k] \in there /\ back[k] \in 1 .. size /\ both[k] = at[back[k]]
  BY <1>3, <1>6, <1>7 DEF IsOrder
<1>9. IsOrder(both, count, some)
  <2>1. both \in [1 .. count -> some]
    BY <1>1, <1>7, <1>8 DEF Within
  <2>2. ASSUME NEW k \in 1 .. count, NEW m \in 1 .. count, k < m
        PROVE  both[k] < both[m]
    <3>1. back[k] < back[m]
      BY <1>6, <2>2 DEF IsOrder
    <3> QED
      BY <1>8, <3>1 DEF IsOrder
  <2>3. ASSUME NEW i \in some
        PROVE  \E k \in 1 .. count : both[k] = i
    <3>1. PICK n \in 1 .. size : at[n] = i
      BY DEF IsOrder
    <3>2. n \in there
      BY <1>1, <3>1 DEF Within
    <3>3. PICK k \in 1 .. count : back[k] = n
      BY <1>6, <3>2 DEF IsOrder
    <3> QED
      BY <1>8, <3>1, <3>3
  <2> QED
    BY <2>1, <2>2, <2>3 DEF IsOrder
<1>10. some \subseteq Nat
  OBVIOUS
<1>11. Selected(rows, some) = InOrder(rows, both, count)
  BY <1>5, <1>9, <1>10, SelectedInOrder
<1>12. Selected(kept, there) = InOrder(kept, back, count)
  BY <1>3, <1>5, <1>6, SelectedInOrder
<1>13. \A k \in 1 .. count : kept[back[k]] = rows[both[k]]
  BY <1>2, <1>8 DEF InOrder
<1> QED
  BY <1>1, <1>2, <1>11, <1>12, <1>13 DEF InOrder

-----------------------------------------------------------------------------
(* The rows of a key, in tables that grow and shrink                       *)

PlacesOf(rows, key) == {i \in DOMAIN rows : Key(rows[i]) = key}
AllOfKey(rows, key) == \A i \in DOMAIN rows : Key(rows[i]) = key

LEMMA RowsLeft ==
    ASSUME NEW Row, NEW rows \in Seq(Row), NEW key
    PROVE  /\ Without(rows, key) \in Seq(Row)
           /\ Len(Without(rows, key)) <= Len(rows)
           /\ Range(Without(rows, key)) = {row \in Range(rows) : Key(row) # key}
<1>1. PICK places : places = {i \in DOMAIN rows : Key(rows[i]) # key}
  OBVIOUS
<1>2. places \in SUBSET DOMAIN rows /\ Without(rows, key) = Selected(rows, places)
  BY <1>1 DEF Without
<1>3. {rows[i] : i \in places} = {row \in Range(rows) : Key(row) # key}
  BY <1>1 DEF Range
<1> QED
  BY <1>2, <1>3, SelectedRows

\* Where the rows that a DELETE leaves have been.
LEMMA LeftInOrder ==
    ASSUME NEW Row, NEW rows \in Seq(Row), NEW key
    PROVE  \E size \in Nat : \E at :
               /\ IsOrder(at, size, {i \in DOMAIN rows : Key(rows[i]) # key})
               /\ Without(rows, key) = InOrder(rows, at, size)
<1>1. PICK places : places = {i \in DOMAIN rows : Key(rows[i]) # key}
  OBVIOUS
<1>2. PICK len \in Nat : DOMAIN rows = 1 .. len
  OBVIOUS
<1>3. places \in SUBSET (1 .. len) /\ places \subseteq Nat /\ Without(rows, key) = Selected(rows, places)
  BY <1>1, <1>2 DEF Without
<1>4. PICK size : size = Cardinality(places)
  OBVIOUS
<1>5. size \in Nat
  BY <1>3, <1>4, PlacesAreFinite
<1>6. PICK at : IsOrder(at, size, places)
  BY <1>3, <1>4, OrderExists
<1>7. Selected(rows, places) = InOrder(rows, at, size)
  BY <1>3, <1>5, <1>6, SelectedInOrder
<1> QED
  BY <1>1, <1>3, <1>5, <1>6, <1>7

\* A DELETE of one key leaves the rows of every other as they are.
LEMMA OtherRowsStay ==
    ASSUME NEW Row, NEW rows \in Seq(Row), NEW key, NEW other, other # key
    PROVE  Selected(Without(rows, key), PlacesOf(Without(rows, key), other))
             = Selected(rows, PlacesOf(rows, other))
<1>1. PICK places : places = {i \in DOMAIN rows : Key(rows[i]) # key}
  OBVIOUS
<1>2. PICK size \in Nat : \E at : IsOrder(at, size, places)
                                  /\ Without(rows, key) = InOrder(rows, at, size)
  BY <1>1, LeftInOrder
<1>3. PICK at : IsOrder(at, size, places) /\ Without(rows, key) = InOrder(rows, at, size)
  BY <1>2
<1>4. PICK some : some = PlacesOf(rows, other)
  OBVIOUS
<1>5. places \subseteq Nat /\ some \in SUBSET places
  BY <1>1, <1>4 DEF PlacesOf
<1>6. PICK left : left = Without(rows, key)
  OBVIOUS
<1>7. DOMAIN left = 1 .. size /\ \A n \in 1 .. size : left[n] = rows[at[n]] /\ at[n] \in places
  BY <1>3, <1>6 DEF IsOrder, InOrder
<1>8. PlacesOf(left, other) = Within(at, size, some)
  BY <1>1, <1>4, <1>7 DEF PlacesOf, Within
<1>9. Selected(InOrder(rows, at, size), Within(at, size, some)) = Selected(rows, some)
  <2>1. IsOrder(at, size, places)
    BY <1>3
  <2>2. places \in SUBSET Nat /\ some \in SUBSET places
    BY <1>5
  <2> QED
    BY <2>1, <2>2, SelectedTwice
<1> QED
  BY <1>3, <1>4, <1>6, <1>8, <1>9

\* Rows at the end of a table are rows of their key only, and all of them if it is new.
LEMMA AppendedRows ==
    ASSUME NEW Row, NEW rows \in Seq(Row), NEW new \in Seq(Row), NEW key,
           AllOfKey(new, key)
    PROVE  /\ \A other : other # key =>
                  Selected(rows \o new, PlacesOf(rows \o new, other)) = Selected(rows, PlacesOf(rows, other))
           /\ PlacesOf(rows, key) = {} => Selected(rows \o new, PlacesOf(rows \o new, key)) = new
<1>0. \A i \in DOMAIN new : Key(new[i]) = key
  BY DEF AllOfKey
<1>1. PICK all : all = rows \o new
  OBVIOUS
<1>2. PICK len \in Nat : DOMAIN rows = 1 .. len /\ len = Len(rows)
  OBVIOUS
<1>3. PICK more \in Nat : DOMAIN new = 1 .. more /\ more = Len(new)
  OBVIOUS
<1>4. /\ DOMAIN all = 1 .. (len + more)
      /\ \A i \in 1 .. len : all[i] = rows[i]
      /\ \A i \in 1 .. more : all[len + i] = new[i]
  BY <1>1, <1>2, <1>3
<1>5. \A i \in DOMAIN all : i \in 1 .. len \/ \E j \in 1 .. more : i = len + j
  <2> SUFFICES ASSUME NEW i \in 1 .. (len + more), i \notin 1 .. len
               PROVE  \E j \in 1 .. more : i = len + j
    BY <1>4
  <2>1. i - len \in 1 .. more /\ i = len + (i - len)
    OBVIOUS
  <2> QED
    BY <2>1
<1>6. ASSUME NEW other, other # key
      PROVE  Selected(all, PlacesOf(all, other)) = Selected(rows, PlacesOf(rows, other))
  <2>1. PICK places : places = PlacesOf(rows, other)
    OBVIOUS
  <2>2. places \in SUBSET (1 .. len)
    BY <1>2, <2>1 DEF PlacesOf
  <2>3. ASSUME NEW i \in DOMAIN all
        PROVE  Key(all[i]) = other <=> i \in places
    <3>1. CASE i \in 1 .. len
      BY <1>2, <1>4, <2>1, <3>1 DEF PlacesOf
    <3>2. CASE i \notin 1 .. len
      <4>1. PICK j \in 1 .. more : i = len + j
        BY <1>5, <3>2
      <4>2. Key(all[i]) = key
        BY <1>0, <1>3, <1>4, <4>1
      <4> QED
        BY <1>6, <2>2, <3>2, <4>2
    <3> QED
      BY <3>1, <3>2
  <2>4. \A i \in places : i \in DOMAIN all
    BY <1>4, <2>2
  <2>5. PlacesOf(all, other) = places
    BY <2>3, <2>4 DEF PlacesOf
  <2>6. \A i \in places : all[i] = rows[i]
    BY <1>4, <2>2
  <2>7. Selected(all, places) = Selected(rows, places)
    BY <2>2, <2>6, SelectedAgree
  <2> QED
    BY <2>1, <2>5, <2>7
<1>7. ASSUME PlacesOf(rows, key) = {}
      PROVE  Selected(all, PlacesOf(all, key)) = new
  <2>1. PICK places : places = PlacesOf(all, key)
    OBVIOUS
  <2>2. PICK at : at = [n \in 1 .. more |-> len + n]
    OBVIOUS
  <2>3. \A i \in 1 .. len : Key(all[i]) # key
    BY <1>2, <1>4, <1>7 DEF PlacesOf
  <2>4. \A n \in 1 .. more : len + n \in DOMAIN all /\ Key(all[len + n]) = key
    BY <1>0, <1>3, <1>4
  <2>5. at \in [1 .. more -> places]
    BY <2>1, <2>2, <2>4 DEF PlacesOf
  <2>6. \A m, n \in 1 .. more : m < n => at[m] < at[n]
    BY <2>2
  <2>7. \A i \in places : \E n \in 1 .. more : at[n] = i
    BY <1>5, <2>1, <2>2, <2>3 DEF PlacesOf
  <2>8. IsOrder(at, more, places)
    BY <2>5, <2>6, <2>7 DEF IsOrder
  <2>9. places \subseteq Nat
    BY <1>4, <2>1 DEF PlacesOf
  <2>10. Selected(all, places) = InOrder(all, at, more)
    BY <2>8, <2>9, SelectedInOrder
  <2>11. \A n \in 1 .. more : all[at[n]] = new[n]
    BY <1>4, <2>2
  <2>12. new = [n \in 1 .. more |-> new[n]]
    BY <1>3
  <2> QED
    BY <2>1, <2>10, <2>11, <2>12 DEF InOrder
<1> QED
  BY <1>1, <1>6, <1>7

-----------------------------------------------------------------------------
(* Pairing off two lists of numbers                                        *)

LEMMA SameNumbers ==
    ASSUME NEW a, NEW b
    PROVE  /\ compareNormalizedPhoneNumbers(a, a)
           /\ compareNormalizedPhoneNumbers(a, b) <=> compareNormalizedPhoneNumbers(b, a)
<1>1. {a, b} = {b, a}
  OBVIOUS
<1> QED
  BY <1>1 DEF compareNormalizedPhoneNumbers

\* The partner of a number depends on those before it only.
LEMMA PartnerOfPrefix ==
    ASSUME NEW first, NEW second, NEW p, NEW q, NEW n, \A m \in 1 .. n - 1 : p[m] = q[m]
    PROVE  PartnerOf(first, second, p, n) = PartnerOf(first, second, q, n)
BY DEF PartnerOf

\* The recursion has a solution, of any length.
LEMMA PairingExists ==
    ASSUME NEW first, NEW second, NEW len \in Nat
    PROVE  \E p : p = [n \in 1 .. len |-> PartnerOf(first, second, p, n)]
<1> DEFINE Solves(p, k) == p = [n \in 1 .. k |-> PartnerOf(first, second, p, n)]
           T == {k \in Nat : ~\E p : Solves(p, k)}
<1>1. ASSUME T # {} PROVE FALSE
  <2>1. T \subseteq Nat
    OBVIOUS
  <2>2. PICK k \in T : \A m \in T : k <= m
    <3> HIDE DEF T
    <3> QED
      BY <1>1, <2>1, LeastNumber
  <2>3. k \in Nat /\ ~\E p : Solves(p, k)
    OBVIOUS
  <2>4. CASE k = 0
    <3>1. PICK p : p = [n \in 1 .. 0 |-> 0]
      OBVIOUS
    <3>2. 1 .. 0 = {}
      OBVIOUS
    <3>3. p = [n \in 1 .. 0 |-> PartnerOf(first, second, p, n)]
      BY <3>1, <3>2
    <3> QED
      BY <2>3, <2>4, <3>3
  <2>5. CASE k # 0
    <3>1. PICK j \in Nat : k = j + 1
      <4>1. k - 1 \in Nat /\ k = (k - 1) + 1
        BY <2>3, <2>5
      <4> QED
        BY <4>1
    <3>2. j \notin T
      <4>1. ~(k <= j)
        BY <3>1
      <4> QED
        BY <2>2, <4>1
    <3>3. PICK p : Solves(p, j)
      BY <3>2
    <3>4. PICK q : q = [n \in 1 .. k |-> PartnerOf(first, second, p, n)]
      OBVIOUS
    <3>5. p = [n \in 1 .. j |-> PartnerOf(first, second, p, n)]
      BY <3>3
    <3> HIDE DEF T, Solves
    <3>6. \A n \in 1 .. j : n \in 1 .. k /\ q[n] = p[n]
      BY <2>3, <3>1, <3>4, <3>5
    <3>7. ASSUME NEW n \in 1 .. k
          PROVE  PartnerOf(first, second, p, n) = PartnerOf(first, second, q, n)
      <4>1. \A m \in 1 .. n - 1 : m \in 1 .. j
        BY <2>3, <3>1
      <4>2. \A m \in 1 .. n - 1 : p[m] = q[m]
        BY <3>6, <4>1
      <4> QED
        BY <4>2, PartnerOfPrefix
    <3>8. q = [n \in 1 .. k |-> PartnerOf(first, second, q, n)]
      BY <3>4, <3>7
    <3> QED
      BY <2>3, <3>8 DEF Solves
  <2> QED
    BY <2>4, <2>5
<1>2. T = {}
  BY <1>1
<1> QED
  BY <1>2

LEMMA PartnersDef ==
    ASSUME NEW first, NEW second, NEW len \in Nat, DOMAIN first = 1 .. len
    PROVE  \A n \in 1 .. len :
               Partners(first, second)[n] = PartnerOf(first, second, Partners(first, second), n)
<1>1. \E p : p = [n \in DOMAIN first |-> PartnerOf(first, second, p, n)]
  <2>1. PICK p : p = [n \in 1 .. len |-> PartnerOf(first, second, p, n)]
    BY PairingExists
  <2>2. p = [n \in DOMAIN first |-> PartnerOf(first, second, p, n)]
    BY <2>1
  <2> QED
    BY <2>2
<1>2. Partners(first, second)
        = [n \in DOMAIN first |-> PartnerOf(first, second, Partners(first, second), n)]
  BY <1>1 DEF Partners
<1> QED
  BY <1>2

\* A number is paired with the first free one that is the same, if there is one.
LEMMA PartnersFit ==
    ASSUME NEW first, NEW second, NEW len \in Nat, DOMAIN first = 1 .. len,
           NEW more \in Nat, DOMAIN second = 1 .. more, NEW p, p = Partners(first, second),
           NEW n \in 1 .. len
    PROVE  /\ p[n] # 0 => /\ p[n] \in 1 .. more
                          /\ compareNormalizedPhoneNumbers(second[p[n]], first[n])
                          /\ \A m \in 1 .. n - 1 : p[m] # p[n]
           /\ \A j \in 1 .. more :
                 (/\ compareNormalizedPhoneNumbers(second[j], first[n])
                  /\ \A m \in 1 .. n - 1 : p[m] # j) => p[n] # 0 /\ p[n] <= j
<1>1. PICK free : free = {j \in 1 .. more : /\ compareNormalizedPhoneNumbers(second[j], first[n])
                                            /\ \A m \in 1 .. n - 1 : p[m] # j}
  OBVIOUS
<1>2. p[n] = IF free = {} THEN 0 ELSE First(free)
  <2>1. p[n] = PartnerOf(first, second, p, n)
    BY PartnersDef
  <2> QED
    BY <1>1, <2>1 DEF PartnerOf
<1>3. free \subseteq Nat /\ 0 \notin free
  BY <1>1
<1>4. /\ free # {} => p[n] \in free /\ p[n] # 0
      /\ \A i \in free : p[n] <= i
  <2>1. free # {} => First(free) \in free /\ \A i \in free : First(free) <= i
    BY <1>3, FirstIsLeast
  <2> QED
    BY <1>2, <1>3, <2>1
<1> QED
  BY <1>1, <1>2, <1>4

\* A number that is the same as one without a partner is taken.
LEMMA PartnerTaken ==
    ASSUME NEW first, NEW second, NEW len \in Nat, DOMAIN first = 1 .. len, DOMAIN second = 1 .. len,
           NEW n \in 1 .. len, Partners(first, second)[n] = 0,
           NEW j \in 1 .. len, compareNormalizedPhoneNumbers(second[j], first[n])
    PROVE  \E m \in 1 .. n - 1 : Partners(first, second)[m] = j
<1>1. (\A m \in 1 .. n - 1 : Partners(first, second)[m] # j) => Partners(first, second)[n] # 0
  BY PartnersFit
<1> QED
  BY <1>1

\* Two lists that compare as the same can be paired off.
LEMMA ComparedLists ==
    ASSUME NEW first, NEW second, NEW len \in Nat, DOMAIN first = 1 .. len, DOMAIN second = 1 .. len,
           \A n \in 1 .. len : Partners(first, second)[n] # 0
    PROVE  \E pairing \in [1 .. len -> 1 .. len] :
               /\ IsInjective(pairing)
               /\ \A n \in 1 .. len : compareNormalizedPhoneNumbers(first[n], second[pairing[n]])
<1>1. PICK p : p = Partners(first, second)
  OBVIOUS
<1>2. ASSUME NEW n \in 1 .. len
      PROVE  /\ p[n] \in 1 .. len /\ compareNormalizedPhoneNumbers(second[p[n]], first[n])
             /\ \A m \in 1 .. n - 1 : p[m] # p[n]
  <2>1. p[n] # 0
    BY <1>1
  <2> QED
    BY <1>1, <2>1, PartnersFit
<1>3. PICK pairing : pairing = [n \in 1 .. len |-> p[n]]
  OBVIOUS
<1>4. pairing \in [1 .. len -> 1 .. len]
  BY <1>2, <1>3
<1>5. ASSUME NEW m \in 1 .. len, NEW n \in 1 .. len, pairing[m] = pairing[n]
      PROVE  m = n
  <2>1. p[m] = p[n] /\ m \in Nat /\ n \in Nat
    BY <1>3, <1>5
  <2>2. m < n => m \in 1 .. n - 1
    OBVIOUS
  <2>3. n < m => n \in 1 .. m - 1
    OBVIOUS
  <2>4. ~(m < n) /\ ~(n < m)
    BY <1>2, <2>1, <2>2, <2>3
  <2> QED
    BY <2>1, <2>4
<1>6. IsInjective(pairing)
  BY <1>4, <1>5 DEF IsInjective
<1>7. \A n \in 1 .. len : compareNormalizedPhoneNumbers(first[n], second[pairing[n]])
  BY <1>2, <1>3, SameNumbers
<1> QED
  BY <1>4, <1>6, <1>7

\* Every number of a list is paired with itself.
LEMMA ListMatchesItself ==
    ASSUME NEW list, NEW len \in Nat, DOMAIN list = 1 .. len
    PROVE  \A n \in 1 .. len : Partners(list, list)[n] = n
<1>1. PICK p : p = Partners(list, list)
  OBVIOUS
<1> DEFINE T == {n \in 1 .. len : p[n] # n}
<1>2. ASSUME T # {} PROVE FALSE
  <2>1. T \subseteq Nat
    OBVIOUS
  <2>2. PICK n \in T : \A m \in T : n <= m
    <3> HIDE DEF T
    <3> QED
      BY <1>2, <2>1, LeastNumber
  <2>3. n \in 1 .. len /\ n \in Nat /\ p[n] # n
    OBVIOUS
  <2>4. ASSUME NEW m \in 1 .. n - 1
        PROVE  p[m] = m /\ m < n /\ m # n
    <3>1. m \in 1 .. len /\ m < n /\ ~(n <= m)
      BY <2>3
    <3> QED
      BY <2>2, <3>1
  <2>5. compareNormalizedPhoneNumbers(list[n], list[n]) /\ \A m \in 1 .. n - 1 : p[m] # n
    BY <2>4, SameNumbers
  <2> HIDE DEF T
  <2>6. p[n] # 0 /\ p[n] <= n
    BY <1>1, <2>3, <2>5, PartnersFit
  <2>7. p[n] \in 1 .. len /\ \A m \in 1 .. n - 1 : p[m] # p[n]
    BY <1>1, <2>3, <2>6, PartnersFit
  <2>8. p[n] \in 1 .. n - 1
    BY <2>3, <2>6, <2>7
  <2> QED
    BY <2>4, <2>7, <2>8
<1> QED
  BY <1>1, <1>2

AreTransitive(numbers) ==
    \A a, b, c \in Range(numbers) :
        compareNormalizedPhoneNumbers(a, b) /\ compareNormalizedPhoneNumbers(b, c)
            => compareNormalizedPhoneNumbers(a, c)

\* The places where a list has the number that is looked for.
SamePlaces(list, number) == {i \in DOMAIN list : compareNormalizedPhoneNumbers(list[i], number)}

LEMMA SamePlacesAreFinite ==
    ASSUME NEW list, NEW len \in Nat, DOMAIN list = 1 .. len, NEW number
    PROVE  /\ SamePlaces(list, number) \subseteq 1 .. len /\ IsFiniteSet(SamePlaces(list, number))
           /\ Cardinality(SamePlaces(list, number)) \in Nat
<1>1. IsFiniteSet(1 .. len)
  <2>1. 1 \in Int /\ len \in Int
    OBVIOUS
  <2> QED
    BY <2>1, FS_Interval, Zenon
<1>2. SamePlaces(list, number) \subseteq 1 .. len
  BY DEF SamePlaces
<1> QED
  BY <1>1, <1>2, FS_Subset, FS_CardinalityType

\* Where to be the same is transitive, a number finds no partner only if there are
\* more who are the same in its own list than in the other.
LEMMA NobodyIsLeft ==
    ASSUME NEW first, NEW second, NEW len \in Nat, DOMAIN first = 1 .. len, DOMAIN second = 1 .. len,
           \A j \in 1 .. len : second[j] \in Range(first),
           AreTransitive(first), NEW n \in 1 .. len, Partners(first, second)[n] = 0
    PROVE  Cardinality(SamePlaces(second, first[n])) < Cardinality(SamePlaces(first, first[n]))
<1>1. PICK p : p = Partners(first, second)
  OBVIOUS
<1>2. PICK C, D, E : /\ C = SamePlaces(first, first[n]) /\ D = SamePlaces(second, first[n])
                     /\ E = C \ {n}
  OBVIOUS
<1>3. ASSUME NEW j \in D
      PROVE  \E m \in E : p[m] = j
  <2>1. j \in 1 .. len /\ compareNormalizedPhoneNumbers(second[j], first[n])
    BY <1>2 DEF SamePlaces
  <2>2. \E m \in 1 .. n - 1 : p[m] = j
    BY <1>1, <2>1, PartnerTaken
  <2>3. PICK m \in 1 .. n - 1 : p[m] = j
    BY <2>2
  <2>4. m \in 1 .. len /\ m # n /\ p[m] # 0
    BY <2>1, <2>3
  <2>5. compareNormalizedPhoneNumbers(second[j], first[m])
    BY <1>1, <2>3, <2>4, PartnersFit
  <2>6. compareNormalizedPhoneNumbers(first[m], second[j])
    BY <2>5, SameNumbers
  <2>7. first[m] \in Range(first) /\ second[j] \in Range(first) /\ first[n] \in Range(first)
    BY <2>1, <2>4 DEF Range
  <2>8. compareNormalizedPhoneNumbers(first[m], first[n])
    BY <2>1, <2>6, <2>7 DEF AreTransitive
  <2>9. m \in E
    BY <1>2, <2>4, <2>8 DEF SamePlaces
  <2> QED
    BY <2>3, <2>9
<1>4. /\ IsFiniteSet(C) /\ IsFiniteSet(E) /\ Cardinality(C) \in Nat /\ Cardinality(D) \in Nat
      /\ Cardinality(E) = Cardinality(C) - 1
  <2>1. IsFiniteSet(C) /\ Cardinality(C) \in Nat /\ Cardinality(D) \in Nat
    BY <1>2, SamePlacesAreFinite
  <2>2. n \in C
    BY <1>2, SameNumbers DEF SamePlaces
  <2>3. IsFiniteSet(E) /\ Cardinality(E) = Cardinality(C) - 1
    BY <1>2, <2>1, <2>2, FS_RemoveElement
  <2> QED
    BY <2>1, <2>3
<1>5. Cardinality(D) <= Cardinality(E)
  <2>1. PICK f : f = [j \in D |-> CHOOSE m \in E : p[m] = j]
    OBVIOUS
  <2>2. \A j \in D : f[j] \in E /\ p[f[j]] = j
    BY <1>3, <2>1
  <2>3. f \in [D -> E] /\ DOMAIN f = D
    BY <2>1, <2>2
  <2>4. f \in Injection(D, E)
    BY <2>2, <2>3 DEF Injection, IsInjective
  <2> QED
    BY <1>4, <2>4, FS_Injection
<1> QED
  BY <1>2, <1>4, <1>5

\* The second list is the first in another order.
AreReordered(first, second, len) ==
    \E pairing \in [1 .. len -> 1 .. len] :
        IsInjective(pairing) /\ \A n \in 1 .. len : first[n] = second[pairing[n]]

\* Such a list is recognised where to be the same is transitive.
LEMMA OrderDoesNotMatter ==
    ASSUME NEW first, NEW second, NEW len \in Nat, DOMAIN first = 1 .. len, DOMAIN second = 1 .. len,
           AreReordered(first, second, len), AreTransitive(first)
    PROVE  \A n \in 1 .. len : Partners(first, second)[n] # 0
<1>0. PICK pairing \in [1 .. len -> 1 .. len] :
               IsInjective(pairing) /\ \A n \in 1 .. len : first[n] = second[pairing[n]]
  BY DEF AreReordered
<1>1. IsFiniteSet(1 .. len) /\ Cardinality(1 .. len) = len
  <2>1. 1 \in Int /\ len \in Int
    OBVIOUS
  <2>2. IsFiniteSet(1 .. len) /\ Cardinality(1 .. len) = IF 1 > len THEN 0 ELSE len - 1 + 1
    BY <2>1, FS_Interval, Zenon
  <2> QED
    BY <2>2
<1>2. \A j \in 1 .. len : \E i \in 1 .. len : pairing[i] = j
  <2>1. pairing \in Injection(1 .. len, 1 .. len)
    BY <1>0 DEF Injection
  <2>2. pairing \in Surjection(1 .. len, 1 .. len)
    BY <1>1, <2>1, FS_Injection
  <2> QED
    BY <2>2 DEF Surjection
<1>3. \A j \in 1 .. len : second[j] \in Range(first)
  <2>1. \A i \in 1 .. len : first[i] \in Range(first)
    BY DEF Range
  <2>2. ASSUME NEW j \in 1 .. len
        PROVE  second[j] \in Range(first)
    <3>1. PICK i \in 1 .. len : pairing[i] = j
      BY <1>2
    <3> QED
      BY <1>0, <2>1, <3>1
  <2> QED
    BY <2>2
<1>4. ASSUME NEW n \in 1 .. len
      PROVE  Cardinality(SamePlaces(first, first[n])) <= Cardinality(SamePlaces(second, first[n]))
  <2>1. PICK C, D : C = SamePlaces(first, first[n]) /\ D = SamePlaces(second, first[n])
    OBVIOUS
  <2>2. \A i \in C : i \in 1 .. len /\ pairing[i] \in D
    BY <1>0, <2>1 DEF SamePlaces
  <2>3. \A i, k \in C : pairing[i] = pairing[k] => i = k
    BY <1>0, <2>2 DEF IsInjective
  <2>4. PICK f : f = [i \in C |-> pairing[i]]
    OBVIOUS
  <2>5. f \in [C -> D] /\ DOMAIN f = C /\ \A i \in C : f[i] = pairing[i]
    BY <2>2, <2>4
  <2>6. f \in Injection(C, D)
    BY <2>3, <2>5 DEF Injection, IsInjective
  <2>7. IsFiniteSet(D)
    BY <2>1, SamePlacesAreFinite
  <2> QED
    BY <2>1, <2>6, <2>7, FS_Injection
<1>5. ASSUME NEW n \in 1 .. len, Partners(first, second)[n] = 0
      PROVE  FALSE
  <2>1. Cardinality(SamePlaces(second, first[n])) < Cardinality(SamePlaces(first, first[n]))
    BY <1>3, <1>5, NobodyIsLeft
  <2>2. /\ Cardinality(SamePlaces(second, first[n])) \in Nat
        /\ Cardinality(SamePlaces(first, first[n])) \in Nat
    BY SamePlacesAreFinite
  <2> QED
    BY <1>4, <2>1, <2>2
<1> QED
  BY <1>5

-----------------------------------------------------------------------------
(* What the tables hold                                                    *)

ConversationOf(key) ==
    [account |-> key.account, type |-> key.type, chat |-> key.id.chat, of |-> key.id.of]

RowsAreTyped(db) ==
    /\ db \in [threads : Seq(ThreadRows), people : Seq(PersonRows)]
    /\ \A row \in Range(db.people) : \E t \in Range(db.threads) : Key(t) = Key(row)

\* A thread is of its id's chat type, and unless it is a room its people are those in its id.
PeopleAreListed(db) ==
    \A t \in Range(db.threads) :
        /\ t.chat = t.id.chat
        /\ t.chat # "Room" => Rows(db, Key(t)) = Participants(ConversationOf(Key(t)), t.id.of)

(* What tells two threads apart, in terms of their ids: KeysAreUnique and  *)
(* ConversationsAreUnique.                                                 *)
Differ(t, u) ==
    /\ Key(t) = Key(u) => t.id.of = <<>>
    /\ ("Room" \notin {t.chat, u.chat} /\ t.account = u.account /\ t.type = u.type /\ t.id.of # <<>>)
       => /\ (MatchesNumbers(t.account) => NumbersAgree(t.id.of)) => ~PairedOff(t.id.of, u.id.of, FALSE)
          /\ (MatchesNumbers(t.account) /\ ChannelMatchesNumbers(t.account))
                => Asked(t.id.of, TRUE) # Asked(u.id.of, TRUE)

ThreadsDiffer(db) ==
    \A i, j \in DOMAIN db.threads : i # j => Differ(db.threads[i], db.threads[j])

WellKept(db) == RowsAreTyped(db) /\ PeopleAreListed(db) /\ ThreadsDiffer(db)

LInv == WellKept(tables) /\ Len(tables.threads) <= MaxThreads

LEMMA KeyOfRow ==
    ASSUME NEW row, row \in ThreadRows \/ row \in PersonRows
    PROVE  /\ Key(row) \in Keys /\ Key(row) # NoThread
           /\ Key(row).account = row.account /\ Key(row).type = row.type /\ Key(row).id = row.id
           /\ row.account \in Accounts /\ row.type \in Types /\ row.id \in ThreadIds
<1>1. Key(row) \in Keys
  BY DEF Key, Keys, ThreadRows, PersonRows
<1>2. Key(row) # NoThread
  BY <1>1, LookupAssumption DEF Keys
<1> QED
  BY <1>1, <1>2 DEF Key, ThreadRows, PersonRows

LEMMA IdOfChat ==
    ASSUME NEW id \in ThreadIds
    PROVE  /\ id.chat \in ChatTypes
           /\ id.chat # "Room" => id.of \in Lists
           /\ id = [chat |-> id.chat, of |-> id.of]
BY DEF ThreadIds, ChatTypes

LEMMA ListType ==
    ASSUME NEW list \in Lists
    PROVE  /\ list \in Seq(Ids) /\ Len(list) \in Nat /\ DOMAIN list = 1 .. Len(list)
           /\ \A i \in 1 .. Len(list) : list[i] \in Ids
           /\ list # <<>> => 1 \in 1 .. Len(list)
<1>1. list \in Seq(Ids)
  BY LookupAssumption
<1> QED
  BY <1>1

LEMMA NewKey ==
    ASSUME NEW c \in Conversations
    PROVE  /\ KeyFor(c) \in Keys /\ NewThreadId(c) \in ThreadIds /\ KeyFor(c) # NoThread
           /\ c.account \in Accounts /\ c.type \in Types /\ c.chat \in ChatTypes
           /\ NewThreadId(c).chat = c.chat /\ NewThreadId(c).of = c.of
           /\ c.chat # "Room" => c.of \in Lists
<1>1. /\ NewThreadId(c) \in ThreadIds
      /\ c.account \in Accounts /\ c.type \in Types /\ c.chat \in ChatTypes
      /\ c.chat # "Room" => c.of \in Lists
  BY DEF NewThreadId, ThreadIds, Conversations, Types, ChatTypes
<1>2. KeyFor(c) \in Keys
  BY <1>1 DEF KeyFor, Keys
<1>3. KeyFor(c) # NoThread
  BY <1>2, LookupAssumption DEF Keys
<1> QED
  BY <1>1, <1>2, <1>3 DEF NewThreadId

LEMMA NewRows ==
    ASSUME NEW c, NEW list \in Lists
    PROVE  /\ DOMAIN Participants(c, list) = 1 .. Len(list)
           /\ \A i \in 1 .. Len(list) : /\ Key(Participants(c, list)[i]) = KeyFor(c)
                                        /\ Participants(c, list)[i].who = list[i]
                                        /\ Participants(c, list)[i].normal = normalizeId(c.account, list[i])
           /\ (c \in Conversations) => Participants(c, list) \in Seq(PersonRows)
<1>1. PICK new : new = Participants(c, list)
  OBVIOUS
<1>2. list \in Seq(Ids) /\ DOMAIN Normal = Ids /\ Len(list) \in Nat /\ DOMAIN list = 1 .. Len(list)
      /\ \A i \in 1 .. Len(list) : list[i] \in Ids
  BY ListType, LookupAssumption
<1>3. \A i \in 1 .. Len(list) :
         new[i] = [account |-> c.account, type |-> c.type, id |-> NewThreadId(c),
                   who |-> list[i], normal |-> normalizeId(c.account, list[i])]
  BY <1>1, <1>2 DEF Participants
<1>4. DOMAIN new = 1 .. Len(list)
  BY <1>1, <1>2 DEF Participants
<1>5. ASSUME NEW id \in Ids
      PROVE  normalizeId(c.account, id) \in Range(Normal) \cup Ids
  BY <1>2 DEF normalizeId, Range
<1>6. ASSUME c \in Conversations
      PROVE  new \in Seq(PersonRows)
  <2>1. ASSUME NEW i \in 1 .. Len(list)
        PROVE  new[i] \in PersonRows
    <3>1. /\ c.account \in Accounts /\ c.type \in Types /\ NewThreadId(c) \in ThreadIds
          /\ list[i] \in Ids
      BY <1>2, <1>6, NewKey
    <3>2. normalizeId(c.account, list[i]) \in Range(Normal) \cup Ids
      BY <1>5, <3>1
    <3>3. new[i] = [account |-> c.account, type |-> c.type, id |-> NewThreadId(c),
                    who |-> list[i], normal |-> normalizeId(c.account, list[i])]
      BY <1>3
    <3> QED
      BY <3>1, <3>2, <3>3 DEF PersonRows
  <2>2. new = [i \in 1 .. Len(list) |-> new[i]]
    BY <1>1, <1>2 DEF Participants
  <2> QED
    BY <1>2, <2>1, <2>2
<1>7. ASSUME NEW i \in 1 .. Len(list)
      PROVE  Key(new[i]) = KeyFor(c) /\ new[i].who = list[i]
             /\ new[i].normal = normalizeId(c.account, list[i])
  <2>1. new[i] = [account |-> c.account, type |-> c.type, id |-> NewThreadId(c),
                  who |-> list[i], normal |-> normalizeId(c.account, list[i])]
    BY <1>3
  <2> QED
    BY <2>1 DEF Key, KeyFor
<1> QED
  BY <1>1, <1>4, <1>6, <1>7

\* A key stands for the conversation it was made for.
LEMMA KeysAndConversations ==
    /\ \A c \in Conversations : ConversationOf(KeyFor(c)) = c
    /\ \A row \in ThreadRows : KeyFor(ConversationOf(Key(row))) = Key(row)
<1>1. ASSUME NEW c \in Conversations
      PROVE  ConversationOf(KeyFor(c)) = c
  <2>1. c = [account |-> c.account, type |-> c.type, chat |-> c.chat, of |-> c.of]
    BY DEF Conversations
  <2> QED
    BY <2>1 DEF ConversationOf, KeyFor, NewThreadId
<1>2. ASSUME NEW row \in ThreadRows
      PROVE  KeyFor(ConversationOf(Key(row))) = Key(row)
  <2>1. row.id = [chat |-> row.id.chat, of |-> row.id.of]
    BY KeyOfRow, IdOfChat
  <2> QED
    BY <2>1 DEF ConversationOf, KeyFor, NewThreadId, Key
<1> QED
  BY <1>1, <1>2

\* The people of a thread as they are looked up.
LEMMA PeopleOfThread ==
    ASSUME NEW db, RowsAreTyped(db), PeopleAreListed(db),
           NEW t \in Range(db.threads), t.chat # "Room"
    PROVE  /\ t \in ThreadRows /\ t.id.of \in Lists
           /\ DOMAIN Rows(db, Key(t)) = 1 .. Len(t.id.of)
           /\ \A i \in 1 .. Len(t.id.of) :
                 Rows(db, Key(t))[i].who = t.id.of[i]
           /\ \A numbers \in BOOLEAN :
                 (numbers => MatchesNumbers(t.account)) =>
                     Listed(db, Key(t), numbers) = Asked(t.id.of, numbers)
           /\ \A i \in 1 .. Len(t.id.of) : \E n \in DOMAIN db.people :
                 /\ Key(db.people[n]) = Key(t) /\ db.people[n].who = t.id.of[i]
                 /\ MatchesNumbers(t.account) => db.people[n].normal = Normal[t.id.of[i]]
<1>1. db.threads \in Seq(ThreadRows) /\ db.people \in Seq(PersonRows)
  BY DEF RowsAreTyped
<1>2. t \in ThreadRows
  BY <1>1, RangeOfSeq
<1>3. t.chat = t.id.chat /\ t.id \in ThreadIds
  BY <1>2, KeyOfRow DEF PeopleAreListed
<1>4. t.id.of \in Lists
  BY <1>3, IdOfChat
<1>5. PICK list : list = t.id.of
  OBVIOUS
<1>6. list \in Lists /\ DOMAIN list = 1 .. Len(list) /\ Len(list) \in Nat
  BY <1>4, <1>5, ListType
<1>7. PICK rows : rows = Rows(db, Key(t))
  OBVIOUS
<1>8. rows = Participants(ConversationOf(Key(t)), list)
  BY <1>5, <1>7 DEF PeopleAreListed
<1>9. ConversationOf(Key(t)).account = t.account
  BY <1>2, KeyOfRow DEF ConversationOf
<1>10. /\ DOMAIN rows = 1 .. Len(list)
       /\ \A i \in 1 .. Len(list) : rows[i].who = list[i] /\ rows[i].normal = normalizeId(t.account, list[i])
  BY <1>6, <1>8, <1>9, NewRows
<1>11. ASSUME NEW numbers \in BOOLEAN, numbers => MatchesNumbers(t.account)
       PROVE  Listed(db, Key(t), numbers) = Asked(list, numbers)
  <2>1. \A i \in 1 .. Len(list) : (IF numbers THEN rows[i].normal ELSE rows[i].who)
                                     = (IF numbers THEN Normal[list[i]] ELSE list[i])
    BY <1>10, <1>11 DEF normalizeId
  <2>2. Listed(db, Key(t), numbers)
           = [i \in 1 .. Len(list) |-> IF numbers THEN rows[i].normal ELSE rows[i].who]
    BY <1>7, <1>10 DEF Listed
  <2>3. Asked(list, numbers) = [i \in 1 .. Len(list) |-> IF numbers THEN Normal[list[i]] ELSE list[i]]
    BY <1>6 DEF Asked
  <2> QED
    BY <2>1, <2>2, <2>3
<1>12. ASSUME NEW i \in 1 .. Len(list)
       PROVE  \E n \in DOMAIN db.people : Key(db.people[n]) = Key(t) /\ db.people[n] = rows[i]
  <2>1. PICK places : places = {n \in DOMAIN db.people : Key(db.people[n]) = Key(t)}
    OBVIOUS
  <2>2. places \in SUBSET DOMAIN db.people /\ rows = Selected(db.people, places)
    BY <1>7, <2>1 DEF Rows
  <2>3. Range(rows) = {db.people[n] : n \in places}
    BY <1>1, <2>2, SelectedRows
  <2>4. rows[i] \in Range(rows)
    BY <1>10 DEF Range
  <2> QED
    BY <2>1, <2>3, <2>4
<1>13. ASSUME NEW i \in 1 .. Len(list)
       PROVE  MatchesNumbers(t.account) => rows[i].normal = Normal[list[i]]
  BY <1>10 DEF normalizeId
<1>14. ASSUME NEW i \in 1 .. Len(list)
       PROVE  \E n \in DOMAIN db.people :
                 /\ Key(db.people[n]) = Key(t) /\ db.people[n].who = list[i]
                 /\ MatchesNumbers(t.account) => db.people[n].normal = Normal[list[i]]
  BY <1>10, <1>12, <1>13
<1> QED
  BY <1>2, <1>5, <1>6, <1>7, <1>10, <1>11, <1>14

\* The chat type that is found for a participant's row is that of its id.
LEMMA ChatOfRow ==
    ASSUME NEW db, RowsAreTyped(db), PeopleAreListed(db), NEW row \in Range(db.people)
    PROVE  ChatTypeOf(db, row) = row.id.chat /\ row.id.chat \in ChatTypes
<1>1. db.threads \in Seq(ThreadRows) /\ db.people \in Seq(PersonRows)
  BY DEF RowsAreTyped
<1>2. row \in PersonRows /\ row.id \in ThreadIds
  BY <1>1, RangeOfSeq, KeyOfRow
<1>3. PICK found : found = {i \in DOMAIN db.threads : db.threads[i].id = row.id /\ db.threads[i].type = row.type}
  OBVIOUS
<1>4. PICK t \in Range(db.threads) : Key(t) = Key(row)
  BY DEF RowsAreTyped
<1>5. t.id = row.id /\ t.type = row.type
  BY <1>4 DEF Key
<1>6. found # {} /\ found \subseteq Nat
  BY <1>1, <1>3, <1>5 DEF Range
<1>7. First(found) \in found
  BY <1>6, FirstIsLeast
<1>8. ChatTypeOf(db, row) = db.threads[First(found)].chat
  BY <1>3, <1>6 DEF ChatTypeOf
<1>9. db.threads[First(found)] \in Range(db.threads) /\ db.threads[First(found)].id = row.id
  BY <1>3, <1>7 DEF Range
<1> QED
  BY <1>2, <1>8, <1>9, IdOfChat DEF PeopleAreListed

-----------------------------------------------------------------------------
(* Lists that a lookup takes for the same                                  *)

LEMMA AskedList ==
    ASSUME NEW list \in Lists, NEW numbers \in BOOLEAN
    PROVE  /\ DOMAIN Asked(list, numbers) = 1 .. Len(list) /\ Len(Asked(list, numbers)) = Len(list)
           /\ \A i \in 1 .. Len(list) :
                 Asked(list, numbers)[i] = IF numbers THEN Normal[list[i]] ELSE list[i]
<1>1. DOMAIN list = 1 .. Len(list) /\ Len(list) \in Nat
  BY ListType
<1>2. PICK asked : asked = Asked(list, numbers)
  OBVIOUS
<1>3. asked = [i \in 1 .. Len(list) |-> IF numbers THEN Normal[list[i]] ELSE list[i]]
  BY <1>1, <1>2 DEF Asked
<1>4. Len(asked) = Len(list)
  BY <1>1, <1>3
<1> QED
  BY <1>2, <1>3, <1>4

LEMMA EqualListsMatch ==
    ASSUME NEW list \in Lists, NEW other \in Lists, NEW numbers \in BOOLEAN,
           Asked(list, numbers) = Asked(other, numbers)
    PROVE  compareNormalizedParticipants(Asked(list, numbers), Asked(other, numbers), numbers)
<1>1. PICK asked : asked = Asked(list, numbers)
  OBVIOUS
<1>2. PICK len \in Nat : len = Len(list) /\ DOMAIN asked = 1 .. len
  BY <1>1, AskedList, ListType
<1>3. \A n \in 1 .. len : Partners(asked, asked)[n] # 0
  <2>1. \A n \in 1 .. len : Partners(asked, asked)[n] = n
    BY <1>2, ListMatchesItself
  <2> QED
    BY <2>1
<1>4. Range(asked) \subseteq Range(asked)
  OBVIOUS
<1> QED
  BY <1>1, <1>2, <1>3, <1>4 DEF compareNormalizedParticipants

LEMMA PairedOffBothWays ==
    ASSUME NEW list \in Lists, NEW other \in Lists, PairedOff(list, other, FALSE)
    PROVE  /\ Len(list) = Len(other) /\ Range(list) = Range(other)
           /\ PairedOff(other, list, FALSE)
           /\ NumbersAgree(list) => NumbersAgree(other)
<1>1. PICK len \in Nat : /\ len = Len(list) /\ len = Len(other)
                         /\ DOMAIN list = 1 .. len /\ DOMAIN other = 1 .. len
  BY ListType DEF PairedOff
<1>2. PICK pairing \in [1 .. len -> 1 .. len] :
               IsInjective(pairing) /\ \A i \in 1 .. len : list[i] = other[pairing[i]]
  BY <1>1 DEF PairedOff, SameId
<1>3. \A j \in 1 .. len : \E i \in 1 .. len : pairing[i] = j
  <2>1. pairing \in Injection(1 .. len, 1 .. len)
    BY <1>2 DEF Injection
  <2>2. IsFiniteSet(1 .. len)
    BY FS_Interval
  <2>3. pairing \in Surjection(1 .. len, 1 .. len)
    BY <2>1, <2>2, FS_Injection
  <2> QED
    BY <2>3 DEF Surjection
<1>4. Range(list) = Range(other)
  <2>1. \A i \in 1 .. len : list[i] \in Range(other)
    BY <1>1, <1>2 DEF Range
  <2>2. ASSUME NEW j \in 1 .. len
        PROVE  other[j] \in Range(list)
    <3>1. PICK i \in 1 .. len : pairing[i] = j
      BY <1>3
    <3>2. other[j] = list[i]
      BY <1>2, <3>1
    <3> QED
      BY <1>1, <3>2 DEF Range
  <2> QED
    BY <1>1, <2>1, <2>2 DEF Range
<1>5. PICK back : back = [j \in 1 .. len |-> CHOOSE i \in 1 .. len : pairing[i] = j]
  OBVIOUS
<1>6. \A j \in 1 .. len : back[j] \in 1 .. len /\ pairing[back[j]] = j
  BY <1>3, <1>5
<1>7. back \in [1 .. len -> 1 .. len] /\ IsInjective(back)
  <2>1. back \in [1 .. len -> 1 .. len] /\ DOMAIN back = 1 .. len
    BY <1>5, <1>6
  <2>2. \A i, j \in 1 .. len : back[i] = back[j] => i = j
    BY <1>6
  <2> QED
    BY <2>1, <2>2 DEF IsInjective
<1>8. \A j \in 1 .. len : other[j] = list[back[j]]
  BY <1>2, <1>6
<1>9. PairedOff(other, list, FALSE)
  BY <1>1, <1>7, <1>8 DEF PairedOff, SameId
<1>10. NumbersAgree(list) => NumbersAgree(other)
  BY <1>4 DEF NumbersAgree
<1> QED
  BY <1>1, <1>4, <1>9, <1>10

LEMMA PermutedListsMatch ==
    ASSUME NEW list \in Lists, NEW other \in Lists, NEW numbers \in BOOLEAN,
           PairedOff(list, other, FALSE), numbers => NumbersAgree(list)
    PROVE  /\ compareNormalizedParticipants(Asked(list, numbers), Asked(other, numbers), numbers)
           /\ other # <<>> => \E k \in 1 .. Len(list) : list[k] = other[1]
<1>1. PICK len \in Nat : /\ len = Len(list) /\ len = Len(other)
                         /\ DOMAIN list = 1 .. len /\ DOMAIN other = 1 .. len
  BY ListType DEF PairedOff
<1>2. PICK pairing \in [1 .. len -> 1 .. len] :
               IsInjective(pairing) /\ \A i \in 1 .. len : list[i] = other[pairing[i]]
  BY <1>1 DEF PairedOff, SameId
<1>3. PICK first, second : first = Asked(list, numbers) /\ second = Asked(other, numbers)
  OBVIOUS
<1>4. /\ DOMAIN first = 1 .. len /\ DOMAIN second = 1 .. len /\ Len(first) = Len(second)
      /\ \A i \in 1 .. len : first[i] = IF numbers THEN Normal[list[i]] ELSE list[i]
      /\ \A i \in 1 .. len : second[i] = IF numbers THEN Normal[other[i]] ELSE other[i]
  BY <1>1, <1>3, AskedList
<1>5. \A i \in 1 .. len : first[i] = second[pairing[i]]
  BY <1>2, <1>4
<1>6. Range(list) = Range(other)
  BY PairedOffBothWays
<1>7. CASE numbers
  <2>1. \A a \in Range(first) : \E x \in Range(list) : a = Normal[x]
    BY <1>1, <1>4, <1>7 DEF Range
  <2>2. \A x, y, z \in Range(list) :
           compareNormalizedPhoneNumbers(Normal[x], Normal[y]) /\ compareNormalizedPhoneNumbers(Normal[y], Normal[z])
              => compareNormalizedPhoneNumbers(Normal[x], Normal[z])
    BY <1>7 DEF NumbersAgree, SameId
  <2>3. AreTransitive(first)
    BY <2>1, <2>2 DEF AreTransitive
  <2>4. \A n \in 1 .. len : Partners(first, second)[n] # 0
    <3>1. DOMAIN first = 1 .. len /\ DOMAIN second = 1 .. len
      BY <1>4
    <3>2. AreReordered(first, second, len)
      BY <1>2, <1>5 DEF AreReordered
    <3> QED
      BY <1>1, <2>3, <3>1, <3>2, OrderDoesNotMatter
  <2>5. compareNormalizedParticipants(first, second, numbers)
    BY <1>4, <1>7, <2>4 DEF compareNormalizedParticipants
  <2> QED
    BY <1>1, <1>3, <1>6, <2>5, ListType DEF Range
<1>8. CASE ~numbers
  <2>1. Range(first) \subseteq Range(second)
    BY <1>2, <1>4, <1>5 DEF Range
  <2>2. compareNormalizedParticipants(first, second, numbers)
    BY <1>4, <1>8, <2>1 DEF compareNormalizedParticipants
  <2> QED
    BY <1>1, <1>3, <1>6, <2>2, ListType DEF Range
<1> QED
  BY <1>7, <1>8

-----------------------------------------------------------------------------
(* What a lookup finds                                                     *)

Matching(db, c, numbers) ==
    {i \in Candidates(db, c.account, c.type, c.of[1], numbers) :
        compareNormalizedParticipants(Listed(db, Key(db.people[i]), numbers), Asked(c.of, numbers), numbers)}

\* A row by which c can be found.
Fits(db, c, numbers, row) ==
    /\ ListsFirst(row, c.account, c.type, c.of[1], numbers)
    /\ row.id.chat # "Room"
    /\ compareNormalizedParticipants(Listed(db, Key(row), numbers), Asked(c.of, numbers), numbers)

LEMMA LookupMeans ==
    ASSUME NEW db, RowsAreTyped(db), PeopleAreListed(db), NEW c, c.chat # "Room", NEW numbers
    PROVE  /\ Matching(db, c, numbers) = {i \in DOMAIN db.people : Fits(db, c, numbers, db.people[i])}
           /\ Matching(db, c, numbers) \subseteq Nat
           /\ (c.of = <<>> \/ Matching(db, c, numbers) = {}) => threadForProperties(db, c, numbers) = NoThread
           /\ (c.of # <<>> /\ Matching(db, c, numbers) # {}) =>
                 /\ threadForProperties(db, c, numbers) = Key(db.people[First(Matching(db, c, numbers))])
                 /\ First(Matching(db, c, numbers)) \in Matching(db, c, numbers)
                 /\ threadForProperties(db, c, numbers) # NoThread
<1>1. db.people \in Seq(PersonRows) /\ \A i \in DOMAIN db.people : db.people[i] \in Range(db.people)
  BY DEF RowsAreTyped, Range
<1>2. \A i \in DOMAIN db.people : ChatTypeOf(db, db.people[i]) \notin {"NULL", "Room"}
                                     <=> db.people[i].id.chat # "Room"
  BY <1>1, ChatOfRow DEF ChatTypes
<1>3. PICK matches : matches = Matching(db, c, numbers)
  OBVIOUS
<1>4. matches = {i \in DOMAIN db.people : Fits(db, c, numbers, db.people[i])}
  BY <1>2, <1>3 DEF Matching, Candidates, Fits
<1>5. matches \subseteq Nat
  BY <1>1, <1>4
<1>6. threadForProperties(db, c, numbers) =
         IF c.of = <<>> \/ matches = {} THEN NoThread ELSE getSingleThread(db, Key(db.people[First(matches)]))
  BY <1>3 DEF threadForProperties, threadForParticipants, Matching, FirstMatch
<1>7. ASSUME matches # {}
      PROVE  /\ First(matches) \in matches
             /\ getSingleThread(db, Key(db.people[First(matches)])) = Key(db.people[First(matches)])
             /\ Key(db.people[First(matches)]) # NoThread
  <2>1. First(matches) \in matches
    BY <1>5, <1>7, FirstIsLeast
  <2>2. PICK row : row = db.people[First(matches)]
    OBVIOUS
  <2>3. row \in Range(db.people) /\ row \in PersonRows
    <3>1. First(matches) \in DOMAIN db.people
      BY <1>4, <2>1
    <3> QED
      BY <1>1, <2>2, <3>1
  <2>4. \E t \in Range(db.threads) : Key(t) = Key(row)
    BY <2>3 DEF RowsAreTyped
  <2> QED
    BY <2>1, <2>2, <2>3, <2>4, KeyOfRow DEF getSingleThread
<1> QED
  BY <1>3, <1>4, <1>5, <1>6, <1>7

\* What is not found is not there: no thread of the account has a list that is the same.
LEMMA NotFound ==
    ASSUME NEW db, RowsAreTyped(db), PeopleAreListed(db), NEW c \in Chats, c.of # <<>>,
           NEW numbers \in FlagsFor(c), threadForProperties(db, c, numbers) = NoThread,
           NEW t \in Range(db.threads), t.chat # "Room", t.account = c.account, t.type = c.type,
           \E k \in 1 .. Len(t.id.of) : SameId(t.id.of[k], c.of[1], numbers)
    PROVE  ~compareNormalizedParticipants(Asked(t.id.of, numbers), Asked(c.of, numbers), numbers)
<1> SUFFICES ASSUME compareNormalizedParticipants(Asked(t.id.of, numbers), Asked(c.of, numbers), numbers)
             PROVE  FALSE
  OBVIOUS
<1>1. c.chat # "Room" /\ numbers \in BOOLEAN /\ (numbers => MatchesNumbers(t.account))
  BY DEF Chats, FlagsFor
<1>2. PICK k \in 1 .. Len(t.id.of) : SameId(t.id.of[k], c.of[1], numbers)
  OBVIOUS
<1>3. PICK n \in DOMAIN db.people :
                 /\ Key(db.people[n]) = Key(t) /\ db.people[n].who = t.id.of[k]
                 /\ MatchesNumbers(t.account) => db.people[n].normal = Normal[t.id.of[k]]
  BY PeopleOfThread
<1>4. PICK row : row = db.people[n]
  OBVIOUS
<1>5. row.account = t.account /\ row.type = t.type /\ row.id = t.id
  BY <1>3, <1>4 DEF Key
<1>6. ListsFirst(row, c.account, c.type, c.of[1], numbers)
  BY <1>1, <1>2, <1>3, <1>4, <1>5 DEF ListsFirst, SameId
<1>7. row.id.chat # "Room"
  BY <1>5 DEF PeopleAreListed
<1>8. Listed(db, Key(row), numbers) = Asked(t.id.of, numbers)
  BY <1>1, <1>3, <1>4, PeopleOfThread
<1>9. n \in Matching(db, c, numbers)
  BY <1>1, <1>4, <1>6, <1>7, <1>8, LookupMeans DEF Fits
<1> QED
  BY <1>1, <1>9, LookupMeans

-----------------------------------------------------------------------------
(* A new thread                                                            *)

\* the flags with which threads are created
CallersFlags(c) == {MatchesNumbers(c.account), ChannelMatchesNumbers(c.account)}

LEMMA FlagsOfCallers ==
    ASSUME NEW c, NEW numbers \in CallersFlags(c)
    PROVE  /\ numbers \in BOOLEAN /\ numbers \in FlagsFor(c)
           /\ (MatchesNumbers(c.account) /\ ChannelMatchesNumbers(c.account)) => numbers = TRUE
<1>1. MatchesNumbers(c.account) \in BOOLEAN /\ ChannelMatchesNumbers(c.account) \in BOOLEAN
  BY DEF MatchesNumbers, ChannelMatchesNumbers
<1>2. ChannelMatchesNumbers(c.account) => MatchesNumbers(c.account)
  BY DEF MatchesNumbers, ChannelMatchesNumbers
<1> QED
  BY <1>1, <1>2 DEF CallersFlags, FlagsFor

\* What a lookup does not find differs from every thread there is.
LEMMA NewThreadDiffers ==
    ASSUME NEW db, RowsAreTyped(db), PeopleAreListed(db), NEW c \in Conversations,
           NEW numbers \in CallersFlags(c), threadForProperties(db, c, numbers) = NoThread,
           NEW t \in Range(db.threads), NEW u, u.account = c.account, u.type = c.type,
           u.id = NewThreadId(c), u.chat = c.chat
    PROVE  Differ(t, u) /\ Differ(u, t)
<1>1. db.threads \in Seq(ThreadRows)
  BY DEF RowsAreTyped
<1>2. t \in ThreadRows
  BY <1>1, RangeOfSeq
<1>3. t.chat = t.id.chat /\ t.id \in ThreadIds /\ t.account \in Accounts
  BY <1>2, KeyOfRow DEF PeopleAreListed
<1>4. /\ numbers \in BOOLEAN /\ numbers \in FlagsFor(c) /\ (numbers => MatchesNumbers(c.account))
      /\ (MatchesNumbers(c.account) /\ ChannelMatchesNumbers(c.account)) => numbers = TRUE
  BY FlagsOfCallers DEF FlagsFor
<1>5. u.id.chat = c.chat /\ u.id.of = c.of /\ Key(u) = KeyFor(c)
  BY NewKey DEF Key, KeyFor
<1>6. Key(t) = Key(u) => t.id = u.id /\ t.account = u.account /\ t.type = u.type
  BY DEF Key
<1>7. CASE c.chat = "Room"
  <2>1. Key(t) # Key(u)
    <3> SUFFICES ASSUME Key(t) = Key(u) PROVE FALSE
      OBVIOUS
    <3>1. threadForProperties(db, c, numbers) = KeyFor(c)
      BY <1>5, <1>7 DEF threadForProperties, getSingleThread
    <3> QED
      BY <3>1, NewKey
  <2> QED
    BY <1>7, <2>1 DEF Differ
<1>8. CASE c.chat # "Room" /\ t.chat = "Room"
  <2>1. Key(t) # Key(u)
    BY <1>3, <1>5, <1>6, <1>8
  <2> QED
    BY <1>8, <2>1 DEF Differ
<1>9. CASE c.chat # "Room" /\ t.chat # "Room"
  <2>1. PICK mine, other : mine = c.of /\ other = t.id.of
    OBVIOUS
  <2>2. mine \in Lists /\ other \in Lists
    BY <1>3, <1>9, <2>1, NewKey, IdOfChat
  <2>3. c \in Chats
    BY <1>9 DEF Chats
  <2>4. ASSUME t.account = c.account, t.type = c.type, mine # <<>>,
               \E k \in 1 .. Len(other) : SameId(other[k], mine[1], numbers)
        PROVE  ~compareNormalizedParticipants(Asked(other, numbers), Asked(mine, numbers), numbers)
    BY <1>4, <1>9, <2>1, <2>3, <2>4, NotFound
  <2>5. ASSUME t.account = c.account, t.type = c.type, mine # <<>>
        PROVE  Asked(other, numbers) # Asked(mine, numbers)
    <3> SUFFICES ASSUME Asked(other, numbers) = Asked(mine, numbers) PROVE FALSE
      OBVIOUS
    <3>1. 1 \in 1 .. Len(mine) /\ Len(mine) = Len(other)
      BY <1>4, <2>2, <2>5, ListType, AskedList
    <3>2. Asked(other, numbers)[1] = Asked(mine, numbers)[1]
      OBVIOUS
    <3>3. SameId(other[1], mine[1], numbers)
      BY <1>4, <2>2, <3>1, <3>2, AskedList, SameNumbers DEF SameId
    <3> QED
      BY <1>4, <2>2, <2>4, <2>5, <3>1, <3>3, EqualListsMatch
  <2>6. ASSUME t.account = c.account, t.type = c.type, mine # <<>>,
               PairedOff(other, mine, FALSE), numbers => NumbersAgree(other)
        PROVE  FALSE
    <3>1. compareNormalizedParticipants(Asked(other, numbers), Asked(mine, numbers), numbers)
      BY <1>4, <2>2, <2>6, PermutedListsMatch
    <3>2. PICK k \in 1 .. Len(other) : other[k] = mine[1]
      BY <1>4, <2>2, <2>6, PermutedListsMatch
    <3>3. SameId(other[k], mine[1], numbers)
      BY <3>2, SameNumbers DEF SameId
    <3> QED
      BY <2>4, <2>6, <3>1, <3>3
  <2>7. ASSUME mine = <<>>, other # <<>>
        PROVE  ~PairedOff(other, mine, FALSE) /\ Asked(other, TRUE) # Asked(mine, TRUE)
    <3>1. Len(mine) = 0 /\ Len(other) # 0
      BY <2>2, <2>7, ListType
    <3>2. Len(Asked(other, TRUE)) = Len(other) /\ Len(Asked(mine, TRUE)) = Len(mine)
      BY <2>2, AskedList
    <3> QED
      BY <3>1, <3>2 DEF PairedOff
  <2>8. Key(t) = Key(u) => mine = <<>> /\ other = <<>>
    <3> SUFFICES ASSUME Key(t) = Key(u), mine # <<>> PROVE FALSE
      BY <1>5, <1>6, <2>1
    <3>1. mine = other /\ t.account = c.account /\ t.type = c.type
      BY <1>5, <1>6, <2>1
    <3> QED
      BY <2>5, <3>1
  <2>9. Differ(t, u)
    <3>1. Key(t) = Key(u) => t.id.of = <<>>
      BY <2>1, <2>8
    <3> SUFFICES ASSUME t.account = c.account, t.type = c.type, other # <<>>
                 PROVE  /\ (MatchesNumbers(t.account) => NumbersAgree(other)) => ~PairedOff(other, mine, FALSE)
                        /\ (MatchesNumbers(t.account) /\ ChannelMatchesNumbers(t.account))
                              => Asked(other, TRUE) # Asked(mine, TRUE)
      BY <1>5, <2>1, <3>1 DEF Differ
    <3> QED
      BY <1>4, <2>5, <2>6, <2>7
  <2>10. Differ(u, t)
    <3>1. Key(u) = Key(t) => u.id.of = <<>>
      BY <1>5, <2>1, <2>8
    <3> SUFFICES ASSUME t.account = c.account, t.type = c.type, mine # <<>>
                 PROVE  /\ (MatchesNumbers(c.account) => NumbersAgree(mine)) => ~PairedOff(mine, other, FALSE)
                        /\ (MatchesNumbers(c.account) /\ ChannelMatchesNumbers(c.account))
                              => Asked(mine, TRUE) # Asked(other, TRUE)
      BY <1>5, <2>1, <3>1 DEF Differ
    <3>2. PairedOff(mine, other, FALSE) => PairedOff(other, mine, FALSE) /\ (NumbersAgree(mine) => NumbersAgree(other))
      BY <2>2, PairedOffBothWays
    <3> QED
      BY <1>4, <2>5, <2>6, <3>2
  <2> QED
    BY <2>9, <2>10
<1> QED
  BY <1>7, <1>8, <1>9

\* The row and the people that are added at the ends of the tables.
LEMMA RangeAppended ==
    ASSUME NEW S, NEW s \in Seq(S), NEW e \in S
    PROVE  /\ Append(s, e) \in Seq(S) /\ Range(Append(s, e)) = Range(s) \cup {e}
           /\ Len(Append(s, e)) = Len(s) + 1 /\ Len(s) \in Nat /\ DOMAIN s = 1 .. Len(s)
           /\ \A i \in 1 .. Len(s) : Append(s, e)[i] = s[i]
           /\ Append(s, e)[Len(s) + 1] = e
           /\ DOMAIN Append(s, e) = 1 .. (Len(s) + 1)
<1>1. /\ <<e>> \in Seq(S) /\ Append(s, e) = s \o <<e>>
      /\ DOMAIN <<e>> = {1} /\ <<e>>[1] = e
  OBVIOUS
<1>2. PICK one \in Seq(S) : one = <<e>>
  BY <1>1
<1>3. Range(one) = {e}
  BY <1>1, <1>2 DEF Range
<1>4. Range(s \o one) = Range(s) \cup Range(one)
  BY RangeConcatenation
<1>5. /\ Append(s, e) \in Seq(S)
      /\ Len(Append(s, e)) = Len(s) + 1 /\ Len(s) \in Nat /\ DOMAIN s = 1 .. Len(s)
      /\ \A i \in 1 .. Len(s) : Append(s, e)[i] = s[i]
      /\ Append(s, e)[Len(s) + 1] = e
      /\ DOMAIN Append(s, e) = 1 .. (Len(s) + 1)
  OBVIOUS
<1> QED
  BY <1>1, <1>2, <1>3, <1>4, <1>5

RowOf(c) == [account |-> c.account, type |-> c.type, id |-> NewThreadId(c), chat |-> c.chat]

\* The tables with the thread.
Extended(db, c, list) ==
    [threads |-> Append(db.threads, RowOf(c)), people |-> db.people \o Participants(c, list)]

\* What the other threads notice of a creation.
RowsAreAdded(db, after) ==
    /\ \A t \in Range(db.threads) : Rows(after, Key(t)) = Rows(db, Key(t))
    /\ Len(db.people) \in Nat /\ DOMAIN db.people = 1 .. Len(db.people)
    /\ DOMAIN db.people \subseteq DOMAIN after.people
    /\ \A i \in DOMAIN db.people : after.people[i] = db.people[i]
    /\ \A i \in DOMAIN after.people : i \in DOMAIN db.people \/ i > Len(db.people)
    /\ DOMAIN after.people \subseteq Nat

LEMMA ThreadIsCreated ==
    ASSUME NEW db, WellKept(db), NEW after, NEW c \in Conversations, NEW list \in Lists,
           c.chat # "Room" => list = c.of,
           NEW numbers \in CallersFlags(c), threadForProperties(db, c, numbers) = NoThread,
           NEW u, u = RowOf(c), after = Extended(db, c, list)
    PROVE  /\ WellKept(after) /\ Len(after.threads) = Len(db.threads) + 1
           /\ \A t : t \in Range(after.threads) <=> t \in Range(db.threads) \/ t = u
           /\ Key(u) = KeyFor(c)
           /\ RowsAreAdded(db, after)
<1> DEFINE new == Participants(c, list)
<1>0. RowsAreTyped(db) /\ PeopleAreListed(db) /\ ThreadsDiffer(db)
  BY DEF WellKept
<1>1. db.threads \in Seq(ThreadRows) /\ db.people \in Seq(PersonRows)
  BY <1>0 DEF RowsAreTyped
<1>2. u \in ThreadRows /\ Key(u) = KeyFor(c)
  BY NewKey DEF RowOf, ThreadRows, Key, KeyFor
<1>3. new \in Seq(PersonRows) /\ DOMAIN new = 1 .. Len(list) /\ Len(list) \in Nat
      /\ \A i \in DOMAIN new : Key(new[i]) = KeyFor(c)
  BY NewRows, ListType
<1>4. PICK added \in Seq(PersonRows) : added = new
  BY <1>3
<1>4a. PICK people \in Seq(PersonRows) : people = db.people
  BY <1>1
<1>4b. PICK threads \in Seq(ThreadRows) : threads = db.threads
  BY <1>1
<1> HIDE DEF new
<1>5. after.threads = Append(db.threads, u) /\ after.people = db.people \o added
      /\ after = [threads |-> after.threads, people |-> after.people]
  BY <1>4 DEF new, Extended
<1>6. /\ after.threads \in Seq(ThreadRows) /\ Len(after.threads) = Len(db.threads) + 1
      /\ Range(after.threads) = Range(db.threads) \cup {u}
  BY <1>1, <1>2, <1>5, RangeAppended
<1>7. /\ after.people \in Seq(PersonRows) /\ Range(after.people) = Range(db.people) \cup Range(added)
      /\ Len(db.people) \in Nat /\ DOMAIN db.people = 1 .. Len(db.people)
      /\ DOMAIN after.people = 1 .. (Len(db.people) + Len(added)) /\ Len(added) \in Nat
      /\ \A i \in DOMAIN db.people : after.people[i] = db.people[i]
  <2>1. Range(people \o added) = Range(people) \cup Range(added)
    BY RangeConcatenation
  <2>2. /\ people \o added \in Seq(PersonRows)
        /\ Len(people) \in Nat /\ DOMAIN people = 1 .. Len(people)
        /\ DOMAIN (people \o added) = 1 .. (Len(people) + Len(added)) /\ Len(added) \in Nat
        /\ \A i \in DOMAIN people : (people \o added)[i] = people[i]
    OBVIOUS
  <2> QED
    BY <1>4a, <1>5, <2>1, <2>2
<1>8. \A row \in Range(added) : Key(row) = KeyFor(c)
  BY <1>3, <1>4 DEF Range
<1>9. RowsAreTyped(after)
  <2>1. after \in [threads : Seq(ThreadRows), people : Seq(PersonRows)]
    BY <1>5, <1>6, <1>7
  <2>2. \A row \in Range(after.people) : \E t \in Range(after.threads) : Key(t) = Key(row)
    BY <1>0, <1>2, <1>6, <1>7, <1>8 DEF RowsAreTyped
  <2> QED
    BY <2>1, <2>2 DEF RowsAreTyped
<1>10. \A t \in Range(db.threads) : Differ(t, u) /\ Differ(u, t)
  <2>1. /\ u.account = c.account /\ u.type = c.type
        /\ u.id = NewThreadId(c) /\ u.chat = c.chat
    BY DEF RowOf
  <2> QED
    BY <1>0, <2>1, NewThreadDiffers
<1>11. ThreadsDiffer(after)
  <2> SUFFICES ASSUME NEW i \in DOMAIN after.threads, NEW j \in DOMAIN after.threads, i # j
               PROVE  Differ(after.threads[i], after.threads[j])
    BY DEF ThreadsDiffer
  <2>1. PICK len \in Nat : len = Len(threads) /\ DOMAIN threads = 1 .. len
    OBVIOUS
  <2>2. /\ DOMAIN after.threads = 1 .. (len + 1) /\ after.threads[len + 1] = u
        /\ \A k \in 1 .. len : after.threads[k] = threads[k] /\ threads[k] \in Range(threads)
    <3>1. /\ DOMAIN Append(threads, u) = 1 .. (len + 1) /\ Append(threads, u)[len + 1] = u
          /\ \A k \in 1 .. len : Append(threads, u)[k] = threads[k]
      BY <1>2, <2>1, RangeAppended
    <3>2. \A k \in 1 .. len : threads[k] \in Range(threads)
      BY <2>1 DEF Range
    <3> QED
      BY <1>4b, <1>5, <3>1, <3>2
  <2>3. \A k \in 1 .. (len + 1) : k \in 1 .. len \/ k = len + 1
    OBVIOUS
  <2>4. CASE i \in 1 .. len /\ j \in 1 .. len
    BY <1>0, <1>4b, <2>1, <2>2, <2>4 DEF ThreadsDiffer
  <2>5. CASE i \in 1 .. len /\ j = len + 1
    BY <1>4b, <1>10, <2>2, <2>5
  <2>6. CASE i = len + 1 /\ j \in 1 .. len
    BY <1>4b, <1>10, <2>2, <2>6
  <2> QED
    BY <2>2, <2>3, <2>4, <2>5, <2>6
\* a key that is there already has no people
<1>12. ASSUME NEW t \in Range(db.threads), Key(t) = KeyFor(c)
       PROVE  list = <<>> /\ c.chat # "Room" /\ t.chat # "Room" /\ t.id = u.id
  <2>1. t.id.of = <<>> /\ t.id = u.id /\ u.id = NewThreadId(c)
    <3>1. Key(t) = Key(u)
      BY <1>2, <1>12
    <3>2. Key(t) = Key(u) => t.id.of = <<>>
      BY <1>10 DEF Differ
    <3>3. Key(t).id = t.id /\ Key(u).id = u.id /\ u.id = NewThreadId(c)
      BY DEF Key, RowOf
    <3> QED
      BY <3>1, <3>2, <3>3
  <2>2. c.of = <<>> /\ t.id.chat = c.chat
    BY <2>1, NewKey
  <2>3. c.chat # "Room"
    <3>1. c.chat = "Room" => threadForProperties(db, c, numbers) = KeyFor(c)
      BY <1>12 DEF threadForProperties, getSingleThread
    <3> QED
      BY <3>1, NewKey
  <2> QED
    BY <1>0, <2>1, <2>2, <2>3 DEF PeopleAreListed
<1>13. ASSUME NEW t \in Range(db.threads)
       PROVE  Rows(after, Key(t)) = Rows(db, Key(t))
  <2>1. CASE Key(t) # KeyFor(c)
    <3>1. AllOfKey(added, KeyFor(c))
      BY <1>3, <1>4 DEF AllOfKey
    <3>2. Selected(people \o added, PlacesOf(people \o added, Key(t)))
             = Selected(people, PlacesOf(people, Key(t)))
      BY <2>1, <3>1, AppendedRows
    <3> QED
      BY <1>4a, <1>5, <3>2 DEF Rows, PlacesOf
  <2>2. CASE Key(t) = KeyFor(c)
    <3>1. Len(added) = 0 /\ added \in Seq(PersonRows)
      BY <1>3, <1>4, <1>12, <2>2
    <3>2. db.people \o added = db.people
      BY <1>1, <3>1
    <3> QED
      BY <1>5, <3>2 DEF Rows
  <2> QED
    BY <2>1, <2>2
<1>14. c.chat # "Room" => Rows(after, Key(u)) = Participants(ConversationOf(Key(u)), u.id.of)
  <2> SUFFICES ASSUME c.chat # "Room"
               PROVE  Rows(after, KeyFor(c)) = Participants(c, c.of)
    BY <1>2, KeysAndConversations, NewKey DEF RowOf
  <2>1. added = Participants(c, c.of)
    BY <1>4 DEF new
  <2>2. CASE \E t \in Range(db.threads) : Key(t) = KeyFor(c)
    <3>1. PICK t \in Range(db.threads) : Key(t) = KeyFor(c)
      BY <2>2
    <3>2. t.chat # "Room" /\ t.id.of = c.of
      BY <1>12, <3>1, NewKey DEF RowOf
    <3>3. Rows(db, Key(t)) = Participants(ConversationOf(Key(t)), t.id.of)
      BY <1>0, <3>2 DEF PeopleAreListed
    <3>4. Rows(after, Key(t)) = Rows(db, Key(t))
      BY <1>13
    <3> QED
      BY <3>1, <3>2, <3>3, <3>4, KeysAndConversations
  <2>3. CASE ~\E t \in Range(db.threads) : Key(t) = KeyFor(c)
    <3>1. PlacesOf(db.people, KeyFor(c)) = {}
      BY <1>0, <2>3 DEF PlacesOf, RowsAreTyped, Range
    <3>2. AllOfKey(added, KeyFor(c))
      BY <1>3, <1>4 DEF AllOfKey
    <3>3. Selected(people \o added, PlacesOf(people \o added, KeyFor(c))) = added
      BY <1>4a, <3>1, <3>2, AppendedRows
    <3> QED
      BY <1>4a, <1>5, <2>1, <3>3 DEF Rows, PlacesOf
  <2> QED
    BY <2>2, <2>3
<1>15. PeopleAreListed(after)
  <2>1. ASSUME NEW t \in Range(db.threads)
        PROVE  /\ t.chat = t.id.chat
               /\ t.chat # "Room" => Rows(after, Key(t)) = Participants(ConversationOf(Key(t)), t.id.of)
    BY <1>0, <1>13 DEF PeopleAreListed
  <2>2. u.chat = c.chat /\ u.chat = u.id.chat
    BY NewKey DEF RowOf
  <2> QED
    BY <1>6, <1>14, <2>1, <2>2 DEF PeopleAreListed
<1>16. /\ DOMAIN db.people \subseteq DOMAIN after.people /\ DOMAIN after.people \subseteq Nat
       /\ \A i \in DOMAIN after.people : i \in DOMAIN db.people \/ i > Len(db.people)
  BY <1>7
<1>17. RowsAreAdded(db, after)
  BY <1>7, <1>13, <1>16 DEF RowsAreAdded
<1> QED
  BY <1>2, <1>6, <1>7, <1>9, <1>11, <1>15, <1>17 DEF WellKept

-----------------------------------------------------------------------------
(* The removal of a thread                                                 *)

\* The tables without the thread, and what that does to the others.
Reduced(db, key) == [threads |-> Without(db.threads, key), people |-> Without(db.people, key)]

OthersStay(db, after, key) ==
    /\ \A t \in Range(after.threads) : t \in Range(db.threads) /\ Key(t) # key
    /\ \A other : other # key => Rows(after, other) = Rows(db, other)

LEMMA ThreadIsRemoved ==
    ASSUME NEW db, WellKept(db), NEW after, NEW key, after = Reduced(db, key)
    PROVE  /\ WellKept(after) /\ Len(after.threads) <= Len(db.threads)
           /\ OthersStay(db, after, key)
<1>0. RowsAreTyped(db) /\ PeopleAreListed(db) /\ ThreadsDiffer(db)
  BY DEF WellKept
<1>1. db.threads \in Seq(ThreadRows) /\ db.people \in Seq(PersonRows)
  BY <1>0 DEF RowsAreTyped
<1>2. PICK threads, people : threads = Without(db.threads, key) /\ people = Without(db.people, key)
  OBVIOUS
<1>3. after.threads = threads /\ after.people = people
      /\ after = [threads |-> threads, people |-> people]
  BY <1>2 DEF Reduced
<1>4. /\ threads \in Seq(ThreadRows) /\ Len(threads) <= Len(db.threads)
      /\ Range(threads) = {t \in Range(db.threads) : Key(t) # key}
  BY <1>1, <1>2, RowsLeft
<1>5. /\ people \in Seq(PersonRows)
      /\ Range(people) = {row \in Range(db.people) : Key(row) # key}
  BY <1>1, <1>2, RowsLeft
<1>6. RowsAreTyped(after)
  BY <1>0, <1>3, <1>4, <1>5 DEF RowsAreTyped
<1>7. ASSUME NEW other, other # key
      PROVE  Rows(after, other) = Rows(db, other)
  <2>1. Selected(people, PlacesOf(people, other)) = Selected(db.people, PlacesOf(db.people, other))
    BY <1>1, <1>2, <1>7, OtherRowsStay
  <2> QED
    BY <1>3, <2>1 DEF Rows, PlacesOf
<1>8. PeopleAreListed(after)
  BY <1>0, <1>3, <1>4, <1>7 DEF PeopleAreListed
<1>9. ThreadsDiffer(after)
  <2>1. PICK places : places = {i \in DOMAIN db.threads : Key(db.threads[i]) # key}
    OBVIOUS
  <2>2. PICK size \in Nat : \E at : IsOrder(at, size, places) /\ threads = InOrder(db.threads, at, size)
    BY <1>1, <1>2, <2>1, LeftInOrder
  <2>3. PICK at : IsOrder(at, size, places) /\ threads = InOrder(db.threads, at, size)
    BY <2>2
  <2>4. /\ DOMAIN threads = 1 .. size
        /\ \A n \in 1 .. size : threads[n] = db.threads[at[n]] /\ at[n] \in DOMAIN db.threads
    BY <2>1, <2>3 DEF IsOrder, InOrder
  <2>5. ASSUME NEW i \in 1 .. size, NEW j \in 1 .. size, i # j
        PROVE  at[i] # at[j]
    <3>1. i < j \/ j < i
      BY <2>5
    <3>2. at[i] < at[j] \/ at[j] < at[i]
      BY <2>3, <3>1 DEF IsOrder
    <3>3. at[i] \in Nat /\ at[j] \in Nat
      BY <1>1, <2>4
    <3> QED
      BY <3>2, <3>3
  <2> QED
    BY <1>0, <1>3, <2>4, <2>5 DEF ThreadsDiffer
<1>10. OthersStay(db, after, key)
  BY <1>3, <1>4, <1>7 DEF OthersStay
<1> QED
  BY <1>3, <1>4, <1>6, <1>8, <1>9, <1>10 DEF WellKept

-----------------------------------------------------------------------------
(* The steps of the lookup                                                 *)

\* A thread is created that a caller has not found.
Creates(c, list, numbers) ==
    /\ c.chat # "Room" => list = c.of
    /\ threadForProperties(tables, c, numbers) = NoThread
    /\ createThreadForProperties(c, list)

LEMMA LookupStart ==
    ASSUME LookupInit
    PROVE  LInv
<1>1. tables.threads = <<>> /\ tables.people = <<>> /\ tables = [threads |-> <<>>, people |-> <<>>]
  BY DEF LookupInit
<1>2. Range(tables.people) = {} /\ Range(tables.threads) = {} /\ DOMAIN tables.threads = {}
  BY <1>1 DEF Range
<1>3. RowsAreTyped(tables) /\ PeopleAreListed(tables) /\ ThreadsDiffer(tables)
  BY <1>1, <1>2 DEF RowsAreTyped, PeopleAreListed, ThreadsDiffer
<1> QED
  BY <1>1, <1>3, LookupAssumption DEF LInv, WellKept

LEMMA LookupChanges ==
    ASSUME [LookupNext]_tables
    PROVE  \/ UNCHANGED tables
           \/ RemoveThread
           \/ \E c \in Conversations : \E list \in Lists, numbers \in CallersFlags(c) : Creates(c, list, numbers)
<1>1. ASSUME NEW c \in Conversations, NEW list \in Lists, NEW numbers \in CallersFlags(c),
             FindOrCreate(c, list, numbers), c.chat # "Room" => list = c.of
      PROVE  UNCHANGED tables \/ Creates(c, list, numbers)
  BY <1>1 DEF FindOrCreate, Stay, Creates
<1>2. \A c : MatchesNumbers(c.account) \in CallersFlags(c) /\ ChannelMatchesNumbers(c.account) \in CallersFlags(c)
  BY DEF CallersFlags
<1>3. CASE ClientAsks(Chats)
  <2>1. PICK c \in Chats : FindOrCreate(c, c.of, MatchesNumbers(c.account))
    BY <1>3 DEF ClientAsks
  <2>2. c \in Conversations /\ c.of \in Lists
    BY NewKey DEF Chats
  <2> QED
    BY <1>1, <1>2, <2>1, <2>2
<1>4. CASE ThreadForParticipants
  <2>0. PICK account \in Accounts, type \in Types :
             /\ <<>> \in Lists
             /\ FindOrCreate([account |-> account, type |-> type, chat |-> "None", of |-> <<>>],
                             <<>>, MatchesNumbers(account))
    BY <1>4 DEF ThreadForParticipants
  <2>1. PICK c : /\ c = [account |-> account, type |-> type, chat |-> "None", of |-> <<>>]
                 /\ <<>> \in Lists /\ FindOrCreate(c, <<>>, MatchesNumbers(c.account))
    BY <2>0
  <2>2. c \in Conversations /\ c.of = <<>>
    BY <2>1 DEF Conversations
  <2> QED
    BY <1>1, <1>2, <2>1, <2>2
<1>5. CASE ChannelAsks
  <2>0. PICK c \in {d \in Conversations : d.type = "Text"} :
             \E list \in IF c.chat = "Room" THEN Lists ELSE {c.of} :
                FindOrCreate(c, list, ChannelMatchesNumbers(c.account))
    BY <1>5 DEF ChannelAsks
  <2>1. PICK list \in IF c.chat = "Room" THEN Lists ELSE {c.of} :
                FindOrCreate(c, list, ChannelMatchesNumbers(c.account))
    BY <2>0
  <2>2. list \in Lists /\ (c.chat # "Room" => list = c.of)
    BY NewKey
  <2> QED
    BY <1>1, <1>2, <2>1, <2>2
<1>6. CASE MessageReceived
  <2>1. PICK c \in {d \in Conversations : d.type = "Text"} :
             IF threadIdForProperties(tables, c, ChannelMatchesNumbers(c.account)) # NoThread
             THEN Stay ELSE createThreadForProperties(c, c.of)
    BY <1>6 DEF MessageReceived
  <2>2. CASE c.chat = "Room"
    BY <2>1, <2>2, NewKey DEF threadIdForProperties, Stay
  <2>3. CASE c.chat # "Room"
    <3>1. c.of \in Lists
      BY <2>3, NewKey
    <3>2. UNCHANGED tables \/ Creates(c, c.of, ChannelMatchesNumbers(c.account))
      BY <2>1, <2>3 DEF threadIdForProperties, threadForProperties, Stay, Creates
    <3> QED
      BY <1>2, <3>1, <3>2
  <2> QED
    BY <2>2, <2>3
<1> QED
  BY <1>3, <1>4, <1>5, <1>6 DEF LookupNext

LEMMA CreationStep ==
    ASSUME LInv, NEW c \in Conversations, NEW list \in Lists, NEW numbers \in CallersFlags(c),
           Creates(c, list, numbers)
    PROVE  LInv' /\ \E t \in Range(tables'.threads) : Key(t) = KeyFor(c)
<1>1. PICK u : u = RowOf(c)
  OBVIOUS
<1>2. PICK after : after = tables'
  OBVIOUS
<1>3. after = Extended(tables, c, list) /\ Len(tables.threads) < MaxThreads
  BY <1>2 DEF Creates, createThreadForProperties, Extended, RowOf
<1>4. /\ WellKept(after) /\ Len(after.threads) = Len(tables.threads) + 1
      /\ u \in Range(after.threads) /\ Key(u) = KeyFor(c)
  <2>1. /\ WellKept(tables) /\ threadForProperties(tables, c, numbers) = NoThread
        /\ c.chat # "Room" => list = c.of
    BY DEF LInv, Creates
  <2>2. WellKept(after) /\ Len(after.threads) = Len(tables.threads) + 1
    BY <1>1, <1>3, <2>1, ThreadIsCreated
  <2>3. u \in Range(after.threads)
    BY <1>1, <1>3, <2>1, ThreadIsCreated
  <2>4. Key(u) = KeyFor(c)
    BY <1>1, <1>3, <2>1, ThreadIsCreated
  <2> QED
    BY <2>2, <2>3, <2>4
<1>5. Len(after.threads) <= MaxThreads
  <2>1. Len(tables.threads) \in Nat /\ MaxThreads \in Nat
    BY LookupAssumption DEF LInv, WellKept, RowsAreTyped
  <2> QED
    BY <1>3, <1>4, <2>1
<1> QED
  BY <1>2, <1>4, <1>5 DEF LInv

LEMMA RemovalStep ==
    ASSUME LInv, RemoveThread
    PROVE  LInv'
<1>1. PICK key : tables' = Reduced(tables, key)
  BY DEF RemoveThread, Reduced
<1>2. PICK after : after = tables'
  OBVIOUS
<1>3. WellKept(after) /\ Len(after.threads) <= Len(tables.threads)
  BY <1>1, <1>2, ThreadIsRemoved DEF LInv
<1>4. Len(after.threads) <= MaxThreads
  <2>1. Len(tables.threads) \in Nat /\ Len(after.threads) \in Nat /\ MaxThreads \in Nat
    BY <1>3, LookupAssumption DEF LInv, WellKept, RowsAreTyped
  <2> QED
    BY <1>3, <2>1 DEF LInv
<1> QED
  BY <1>2, <1>3, <1>4 DEF LInv

LEMMA LookupStep ==
    ASSUME LInv, [LookupNext]_tables
    PROVE  LInv'
<1>1. CASE UNCHANGED tables
  BY <1>1 DEF LInv, WellKept, RowsAreTyped, PeopleAreListed, ThreadsDiffer
<1>2. CASE RemoveThread
  BY <1>2, RemovalStep
<1>3. ASSUME NEW c \in Conversations, NEW list \in Lists, NEW numbers \in CallersFlags(c),
             Creates(c, list, numbers)
      PROVE  LInv'
  BY <1>3, CreationStep
<1> QED
  BY <1>1, <1>2, <1>3, LookupChanges

\* The lookups, creations and removals keep the invariant from which the
\* properties of the tables follow: every thread has the people in its id, and
\* differs from every other.
THEOREM LookupInvariant == LookupSpec => []LInv
<1>1. LookupInit => LInv
  BY LookupStart
<1>2. LInv /\ [LookupNext]_tables => LInv'
  BY LookupStep
<1> QED
  BY <1>1, <1>2, PTL DEF LookupSpec

-----------------------------------------------------------------------------
(* What the tables and the lookup promise                                  *)

LEMMA TablesAreTyped ==
    ASSUME LInv
    PROVE  LookupTypeOK
<1>1. tables.threads \in Seq(ThreadRows) /\ tables.people \in Seq(PersonRows)
  BY DEF LInv, WellKept, RowsAreTyped
<1>2. Range(tables.threads) \subseteq ThreadRows /\ Range(tables.people) \subseteq PersonRows
  BY <1>1, RangeOfSeq
<1> QED
  BY <1>2 DEF LInv, WellKept, RowsAreTyped, LookupTypeOK

LEMMA WhoOfThread ==
    ASSUME NEW db, RowsAreTyped(db), PeopleAreListed(db),
           NEW t \in Range(db.threads), t.chat # "Room"
    PROVE  Who(db, Key(t)) = t.id.of /\ t.id.of \in Lists
<1>1. PICK list : list = t.id.of
  OBVIOUS
<1>2. list \in Lists /\ DOMAIN Rows(db, Key(t)) = 1 .. Len(list)
      /\ \A i \in 1 .. Len(list) : Rows(db, Key(t))[i].who = list[i]
  BY <1>1, PeopleOfThread
<1>3. Who(db, Key(t)) = [i \in 1 .. Len(list) |-> list[i]]
  BY <1>2 DEF Who
<1>4. list = [i \in 1 .. Len(list) |-> list[i]]
  BY <1>2, ListType
<1> QED
  BY <1>1, <1>2, <1>3, <1>4

LEMMA TablesHoldNothingTwice ==
    ASSUME LInv
    PROVE  KeysAreUnique /\ ConversationsAreUnique
<1>0. RowsAreTyped(tables) /\ PeopleAreListed(tables) /\ ThreadsDiffer(tables)
  BY DEF LInv, WellKept
<1>1. KeysAreUnique
  BY <1>0 DEF KeysAreUnique, ThreadsDiffer, Differ
<1>2. ASSUME NEW i \in DOMAIN tables.threads, NEW j \in DOMAIN tables.threads, i # j,
             NEW first, NEW second, first = tables.threads[i], second = tables.threads[j],
             "Room" \notin {first.chat, second.chat},
             first.account = second.account, first.type = second.type, first.id.of # <<>>
      PROVE  /\ (MatchesNumbers(first.account) => NumbersAgree(first.id.of)) =>
                     ~PairedOff(Who(tables, Key(first)), Who(tables, Key(second)), FALSE)
             /\ (MatchesNumbers(first.account) /\ ChannelMatchesNumbers(first.account)) =>
                     Listed(tables, Key(first), TRUE) # Listed(tables, Key(second), TRUE)
  <2>1. first \in Range(tables.threads) /\ second \in Range(tables.threads)
    BY <1>2 DEF Range
  <2>2. Differ(first, second)
    BY <1>0, <1>2 DEF ThreadsDiffer
  <2>3. /\ Who(tables, Key(first)) = first.id.of /\ Who(tables, Key(second)) = second.id.of
    BY <1>0, <1>2, <2>1, WhoOfThread
  <2>4. MatchesNumbers(first.account) =>
           /\ Listed(tables, Key(first), TRUE) = Asked(first.id.of, TRUE)
           /\ Listed(tables, Key(second), TRUE) = Asked(second.id.of, TRUE)
    <3>1. TRUE \in BOOLEAN /\ first.chat # "Room" /\ second.chat # "Room" /\ first.account = second.account
      BY <1>2
    <3>2. \A t \in Range(tables.threads) : (t.chat # "Room" /\ MatchesNumbers(t.account)) =>
              Listed(tables, Key(t), TRUE) = Asked(t.id.of, TRUE)
      BY <1>0, <3>1, PeopleOfThread
    <3> QED
      BY <2>1, <3>1, <3>2
  <2> QED
    BY <1>2, <2>2, <2>3, <2>4 DEF Differ
<1>3. ConversationsAreUnique
  BY <1>2 DEF ConversationsAreUnique
<1> QED
  BY <1>1, <1>3

LEMMA FoundIsRight ==
    ASSUME NEW db, WellKept(db), NEW c \in Chats, NEW numbers \in FlagsFor(c),
           NEW found, found = threadForProperties(db, c, numbers), found # NoThread
    PROVE  /\ found.account = c.account /\ found.type = c.type
           /\ \A t \in Range(db.threads) : Key(t) = found => t.chat # "Room"
           /\ IsThreadOf(db, found, c.of, numbers)
           /\ \E t \in Range(db.threads) : Key(t) = found
<1>0. RowsAreTyped(db) /\ PeopleAreListed(db) /\ db.people \in Seq(PersonRows)
  BY DEF WellKept, RowsAreTyped
<1>1. c.chat # "Room" /\ c \in Conversations /\ c.of \in Lists
      /\ numbers \in BOOLEAN /\ (numbers => MatchesNumbers(c.account))
  BY NewKey DEF Chats, FlagsFor
<1>2. PICK n \in Matching(db, c, numbers) : found = Key(db.people[n])
  BY <1>0, <1>1, LookupMeans
<1>3. PICK row : row = db.people[n]
  OBVIOUS
<1>4. n \in DOMAIN db.people /\ Fits(db, c, numbers, row)
  BY <1>0, <1>1, <1>2, <1>3, LookupMeans
<1>5. row \in Range(db.people)
  BY <1>3, <1>4 DEF Range
<1>6. found.account = row.account /\ found.type = row.type /\ found.id = row.id
  BY <1>2, <1>3 DEF Key
<1>7. row.account = c.account /\ row.type = c.type /\ row.id.chat # "Room"
  BY <1>4 DEF Fits, ListsFirst
<1>8. ASSUME NEW t \in Range(db.threads), Key(t) = found
      PROVE  t.chat # "Room" /\ t.account = c.account
  <2>1. t.id = row.id /\ t.account = row.account
    BY <1>6, <1>8 DEF Key
  <2> QED
    BY <1>0, <1>7, <2>1 DEF PeopleAreListed
<1>9. PICK t \in Range(db.threads) : Key(t) = found
  BY <1>0, <1>2, <1>3, <1>5 DEF RowsAreTyped
<1>10. PICK list \in Lists : list = t.id.of /\ Who(db, found) = list
                             /\ Listed(db, found, numbers) = Asked(list, numbers)
  BY <1>0, <1>1, <1>8, <1>9, WhoOfThread, PeopleOfThread
<1>11. compareNormalizedParticipants(Asked(list, numbers), Asked(c.of, numbers), numbers)
  BY <1>2, <1>3, <1>4, <1>10 DEF Fits
<1>12. PICK first, second : first = Asked(list, numbers) /\ second = Asked(c.of, numbers)
  OBVIOUS
<1>13. PICK len \in Nat : /\ len = Len(list) /\ len = Len(c.of)
                          /\ DOMAIN first = 1 .. len /\ DOMAIN second = 1 .. len
                          /\ DOMAIN list = 1 .. len /\ DOMAIN c.of = 1 .. len
  <2>1. Len(first) = Len(second)
    BY <1>11, <1>12 DEF compareNormalizedParticipants
  <2> QED
    BY <1>1, <1>12, <2>1, AskedList, ListType
<1>14. \A i \in 1 .. len : /\ first[i] = IF numbers THEN Normal[list[i]] ELSE list[i]
                           /\ second[i] = IF numbers THEN Normal[c.of[i]] ELSE c.of[i]
  BY <1>1, <1>12, <1>13, AskedList
<1>15. IsThreadOf(db, found, c.of, numbers)
  <2>1. CASE numbers
    <3>1. \A n1 \in 1 .. len : Partners(first, second)[n1] # 0
      BY <1>11, <1>12, <1>13, <2>1 DEF compareNormalizedParticipants
    <3>2. PICK pairing \in [1 .. len -> 1 .. len] :
               /\ IsInjective(pairing)
               /\ \A i \in 1 .. len : compareNormalizedPhoneNumbers(first[i], second[pairing[i]])
      BY <1>13, <3>1, ComparedLists
    <3>3. \A i \in 1 .. len : SameId(list[i], c.of[pairing[i]], numbers)
      BY <1>14, <2>1, <3>2 DEF SameId
    <3>4. PairedOff(list, c.of, numbers)
      BY <1>13, <3>2, <3>3 DEF PairedOff
    <3> QED
      BY <1>10, <3>4 DEF IsThreadOf
  <2>2. CASE ~numbers /\ IsInjective(list)
    <3>1. \A i \in 1 .. len : \E j \in 1 .. len : list[i] = c.of[j]
      <4>1. Range(first) \subseteq Range(second)
        BY <1>11, <1>12, <2>2 DEF compareNormalizedParticipants
      <4>2. ASSUME NEW i \in 1 .. len
            PROVE  \E j \in 1 .. len : list[i] = c.of[j]
        <5>1. first[i] \in Range(second)
          BY <1>13, <4>1 DEF Range
        <5>2. PICK j \in 1 .. len : first[i] = second[j]
          BY <1>13, <5>1 DEF Range
        <5> QED
          BY <1>14, <2>2, <5>2
      <4> QED
        BY <4>2
    <3>2. PICK pairing : pairing = [i \in 1 .. len |-> CHOOSE j \in 1 .. len : list[i] = c.of[j]]
      OBVIOUS
    <3>3. \A i \in 1 .. len : pairing[i] \in 1 .. len /\ list[i] = c.of[pairing[i]]
      BY <3>1, <3>2
    <3>4. pairing \in [1 .. len -> 1 .. len] /\ IsInjective(pairing)
      <4>1. pairing \in [1 .. len -> 1 .. len] /\ DOMAIN pairing = 1 .. len
        BY <3>2, <3>3
      <4>2. ASSUME NEW i \in 1 .. len, NEW j \in 1 .. len, pairing[i] = pairing[j]
            PROVE  i = j
        <5>1. list[i] = list[j]
          BY <3>3, <4>2
        <5> QED
          BY <1>13, <2>2, <5>1 DEF IsInjective
      <4> QED
        BY <4>1, <4>2 DEF IsInjective
    <3>5. PairedOff(list, c.of, numbers)
      BY <1>13, <2>2, <3>3, <3>4 DEF PairedOff, SameId
    <3> QED
      BY <1>10, <3>5 DEF IsThreadOf
  <2>3. CASE ~numbers /\ ~IsInjective(list)
    BY <1>10, <2>3 DEF IsThreadOf
  <2> QED
    BY <2>1, <2>2, <2>3
<1> QED
  BY <1>6, <1>7, <1>8, <1>9, <1>15

\* createThreadForProperties and removeThread: whatever is looked up, created
\* and removed, the rows are well-formed, no participant is stored for a thread
\* that is gone, and no two threads have the same key or the same people.
THEOREM NoThreadEverTwice == LookupSpec => []NoThreadTwice
<1>1. LInv => NoThreadTwice
  BY TablesAreTyped, TablesHoldNothingTwice DEF NoThreadTwice
<1> QED
  BY <1>1, LookupInvariant, PTL

\* threadForParticipants: for any lists, numbers and flags of a caller, what is
\* found is a conversation with the participants asked for.
THEOREM AnswersAlwaysMatch == LookupSpec => []AnswersMatch
<1>1. ASSUME LInv
      PROVE  AnswersMatch
  <2> SUFFICES ASSUME NEW c \in Chats, NEW numbers \in FlagsFor(c),
                      NEW found, found = threadForProperties(tables, c, numbers), found # NoThread
               PROVE  /\ found.account = c.account /\ found.type = c.type
                      /\ \A t \in Range(tables.threads) : Key(t) = found => t.chat # "Room"
                      /\ IsThreadOf(tables, found, c.of, numbers)
    BY DEF AnswersMatch
  <2>1. WellKept(tables)
    BY <1>1 DEF LInv
  <2> QED
    BY <2>1, FoundIsRight
<1>2. LInv => AnswersMatch
  BY <1>1
<1> QED
  BY <1>2, LookupInvariant, PTL

-----------------------------------------------------------------------------
(* Conversations stay                                                      *)

\* What makes a row fit does not depend on the other threads.
LEMMA FitsAfter ==
    ASSUME NEW db, WellKept(db), NEW after, NEW c, NEW numbers, NEW row \in Range(db.people),
           Rows(after, Key(row)) = Rows(db, Key(row))
    PROVE  Fits(after, c, numbers, row) <=> Fits(db, c, numbers, row)
<1>1. Listed(after, Key(row), numbers) = Listed(db, Key(row), numbers)
  BY DEF Listed
<1> QED
  BY <1>1 DEF Fits

LEMMA FirstRowDecides ==
    ASSUME NEW db, WellKept(db), NEW c \in Chats, NEW numbers,
           NEW n \in Matching(db, c, numbers), \A m \in Matching(db, c, numbers) : n <= m, c.of # <<>>
    PROVE  threadForProperties(db, c, numbers) = Key(db.people[n])
<1>1. RowsAreTyped(db) /\ PeopleAreListed(db) /\ c.chat # "Room"
  BY DEF WellKept, Chats
<1>2. Matching(db, c, numbers) \subseteq Nat
  BY <1>1, LookupMeans
<1>3. First(Matching(db, c, numbers)) = n
  BY <1>2, FirstIsLeast
<1> QED
  BY <1>1, <1>3, LookupMeans

\* What is found, by its first row.
LEMMA FoundByFirstRow ==
    ASSUME NEW db, WellKept(db), NEW c \in Chats, NEW numbers,
           threadForProperties(db, c, numbers) # NoThread
    PROVE  /\ c.of # <<>>
           /\ \E n \in DOMAIN db.people :
                 /\ Fits(db, c, numbers, db.people[n])
                 /\ threadForProperties(db, c, numbers) = Key(db.people[n])
                 /\ \A m \in DOMAIN db.people : Fits(db, c, numbers, db.people[m]) => n <= m
<1>1. RowsAreTyped(db) /\ PeopleAreListed(db) /\ c.chat # "Room"
  BY DEF WellKept, Chats
<1>2. PICK matches : matches = Matching(db, c, numbers)
  OBVIOUS
<1>3. /\ matches = {i \in DOMAIN db.people : Fits(db, c, numbers, db.people[i])}
      /\ matches \subseteq Nat
      /\ c.of # <<>> /\ matches # {}
      /\ threadForProperties(db, c, numbers) = Key(db.people[First(matches)])
  BY <1>1, <1>2, LookupMeans
<1>4. First(matches) \in matches /\ \A m \in matches : First(matches) <= m
  BY <1>3, FirstIsLeast
<1> QED
  BY <1>3, <1>4

LEMMA StaysWhenCreated ==
    ASSUME LInv, NEW d \in Conversations, NEW list \in Lists, NEW flag \in CallersFlags(d),
           Creates(d, list, flag), NEW c \in Chats, NEW numbers,
           threadForProperties(tables, c, numbers) # NoThread
    PROVE  threadForProperties(tables', c, numbers) = threadForProperties(tables, c, numbers)
<1>1. PICK db, after, u : db = tables /\ after = tables' /\ u = RowOf(d)
  OBVIOUS
<1>2. /\ WellKept(db) /\ threadForProperties(db, d, flag) = NoThread
      /\ d.chat # "Room" => list = d.of
  BY <1>1 DEF LInv, Creates
<1>3. after = Extended(db, d, list)
  BY <1>1 DEF Creates, createThreadForProperties, Extended, RowOf
<1>4. WellKept(after) /\ RowsAreAdded(db, after)
  BY <1>1, <1>2, <1>3, ThreadIsCreated
<1>5. \A t \in Range(db.threads) : Rows(after, Key(t)) = Rows(db, Key(t))
  BY <1>4 DEF RowsAreAdded
<1>6. /\ Len(db.people) \in Nat /\ DOMAIN db.people = 1 .. Len(db.people)
      /\ DOMAIN db.people \subseteq DOMAIN after.people
      /\ \A i \in DOMAIN db.people : after.people[i] = db.people[i]
  BY <1>4 DEF RowsAreAdded
<1>7. /\ \A i \in DOMAIN after.people : i \in DOMAIN db.people \/ i > Len(db.people)
      /\ DOMAIN after.people \subseteq Nat
  BY <1>4 DEF RowsAreAdded
<1>8. ASSUME NEW i \in DOMAIN db.people
      PROVE  Fits(after, c, numbers, after.people[i]) <=> Fits(db, c, numbers, db.people[i])
  <2>1. db.people[i] \in Range(db.people)
    BY DEF Range
  <2>2. Rows(after, Key(db.people[i])) = Rows(db, Key(db.people[i]))
    BY <1>2, <1>5, <2>1 DEF WellKept, RowsAreTyped
  <2>3. Fits(after, c, numbers, db.people[i]) <=> Fits(db, c, numbers, db.people[i])
    BY <1>2, <2>1, <2>2, FitsAfter
  <2> QED
    BY <1>6, <2>3
<1>9. threadForProperties(db, c, numbers) # NoThread
  BY <1>1
<1>10. c.of # <<>>
  BY <1>2, <1>9, FoundByFirstRow
<1>11. PICK n \in DOMAIN db.people :
                 /\ Fits(db, c, numbers, db.people[n])
                 /\ threadForProperties(db, c, numbers) = Key(db.people[n])
                 /\ \A m \in DOMAIN db.people : Fits(db, c, numbers, db.people[m]) => n <= m
  BY <1>2, <1>9, FoundByFirstRow
<1>12. Matching(after, c, numbers) = {i \in DOMAIN after.people : Fits(after, c, numbers, after.people[i])}
  BY <1>4, LookupMeans DEF WellKept, Chats
<1>13. n \in Matching(after, c, numbers)
  BY <1>6, <1>8, <1>11, <1>12
<1>14. ASSUME NEW m \in Matching(after, c, numbers)
       PROVE  n <= m
  <2>1. m \in DOMAIN after.people /\ Fits(after, c, numbers, after.people[m]) /\ m \in Nat
    BY <1>7, <1>12
  <2>2. CASE m \in DOMAIN db.people
    BY <1>8, <1>11, <2>1, <2>2
  <2>3. CASE m > Len(db.people)
    BY <1>6, <1>11, <2>1, <2>3
  <2> QED
    BY <1>7, <2>1, <2>2, <2>3
<1>15. threadForProperties(after, c, numbers) = Key(after.people[n])
  BY <1>4, <1>10, <1>13, <1>14, FirstRowDecides
<1> QED
  BY <1>1, <1>6, <1>11, <1>15

LEMMA StaysWhenOthersGo ==
    ASSUME LInv, RemoveThread, NEW c \in Chats, NEW numbers,
           NEW found, found = threadForProperties(tables, c, numbers), found # NoThread,
           NEW after, after = tables', getSingleThread(after, found) # NoThread
    PROVE  threadForProperties(after, c, numbers) = found
<1>1. PICK key : after = Reduced(tables, key)
  BY DEF RemoveThread, Reduced
<1>2. PICK db : db = tables
  OBVIOUS
<1>3. WellKept(db) /\ after = Reduced(db, key)
  BY <1>1, <1>2 DEF LInv
<1>4. WellKept(after) /\ OthersStay(db, after, key)
  BY <1>3, ThreadIsRemoved
<1>5. found # key
  <2>1. PICK t \in Range(after.threads) : Key(t) = found
    BY DEF getSingleThread
  <2> QED
    BY <1>4, <2>1 DEF OthersStay
<1>6. PICK people \in Seq(PersonRows) : people = db.people
  BY <1>3 DEF WellKept, RowsAreTyped
<1>7. PICK places : places = {i \in DOMAIN people : Key(people[i]) # key}
  OBVIOUS
<1>8. PICK size \in Nat : \E at : IsOrder(at, size, places) /\ Without(people, key) = InOrder(people, at, size)
  BY <1>7, LeftInOrder
<1>9. PICK at : IsOrder(at, size, places) /\ Without(people, key) = InOrder(people, at, size)
  BY <1>8
<1>10. after.people = InOrder(people, at, size)
  BY <1>3, <1>6, <1>9 DEF Reduced
<1>11. /\ DOMAIN after.people = 1 .. size
       /\ \A n \in 1 .. size : after.people[n] = people[at[n]] /\ at[n] \in places
  BY <1>9, <1>10 DEF IsOrder, InOrder
<1>12. ASSUME NEW n \in 1 .. size
       PROVE  Fits(after, c, numbers, after.people[n]) <=> Fits(db, c, numbers, db.people[at[n]])
  <2>1. PICK row : row = people[at[n]]
    OBVIOUS
  <2>2. row \in Range(db.people) /\ Key(row) # key /\ row = db.people[at[n]] /\ row = after.people[n]
    BY <1>6, <1>7, <1>11, <2>1 DEF Range
  <2>3. Rows(after, Key(row)) = Rows(db, Key(row))
    BY <1>4, <2>2 DEF OthersStay
  <2>4. Fits(after, c, numbers, row) <=> Fits(db, c, numbers, row)
    BY <1>3, <2>2, <2>3, FitsAfter
  <2> QED
    BY <2>2, <2>4
<1>13. threadForProperties(db, c, numbers) = found
  BY <1>2
<1>14. c.of # <<>>
  BY <1>3, <1>13, FoundByFirstRow
<1>15. PICK i \in DOMAIN db.people :
                 /\ Fits(db, c, numbers, db.people[i]) /\ found = Key(db.people[i])
                 /\ \A m \in DOMAIN db.people : Fits(db, c, numbers, db.people[m]) => i <= m
  BY <1>3, <1>13, FoundByFirstRow
<1>16. i \in places
  BY <1>5, <1>6, <1>7, <1>15
<1>17. PICK n \in 1 .. size : at[n] = i
  BY <1>9, <1>16 DEF IsOrder
<1>18. Matching(after, c, numbers) = {m \in DOMAIN after.people : Fits(after, c, numbers, after.people[m])}
  BY <1>4, LookupMeans DEF WellKept, Chats
<1>19. n \in Matching(after, c, numbers)
  BY <1>11, <1>12, <1>15, <1>17, <1>18
<1>20. ASSUME NEW m \in Matching(after, c, numbers)
       PROVE  n <= m
  <2>1. m \in 1 .. size /\ Fits(after, c, numbers, after.people[m])
    BY <1>11, <1>18
  <2>2. Fits(db, c, numbers, db.people[at[m]]) /\ at[m] \in DOMAIN db.people
    BY <1>6, <1>7, <1>11, <1>12, <2>1
  <2>3. at[n] <= at[m]
    BY <1>15, <1>17, <2>2
  <2>4. m < n => at[m] < at[n]
    BY <1>9, <2>1 DEF IsOrder
  <2>5. at[n] \in Nat /\ at[m] \in Nat /\ n \in Nat /\ m \in Nat
    BY <1>7, <1>11, <2>1
  <2> QED
    BY <2>3, <2>4, <2>5
<1>21. threadForProperties(after, c, numbers) = Key(after.people[n])
  BY <1>4, <1>14, <1>19, <1>20, FirstRowDecides
<1>22. after.people[n] = db.people[i]
  BY <1>6, <1>11, <1>17
<1> QED
  BY <1>15, <1>21, <1>22

\* threadForParticipants takes the first match in the order of the rows: a
\* conversation that has been found is found until it is removed, whatever is
\* created or removed beside it.
THEOREM ConversationsAlwaysStay == LookupSpec => ConversationsStay
<1>1. ASSUME LInv, [LookupNext]_tables, NEW c \in Chats, NEW numbers \in BOOLEAN,
             NEW found, found = threadForProperties(tables, c, numbers), found # NoThread,
             getSingleThread(tables', found) # NoThread
      PROVE  threadForProperties(tables', c, numbers) = found
  <2>1. CASE UNCHANGED tables
    BY <1>1, <2>1
  <2>2. CASE RemoveThread
    <3>1. PICK after : after = tables'
      OBVIOUS
    <3> QED
      BY <1>1, <2>2, <3>1, StaysWhenOthersGo
  <2>3. ASSUME NEW d \in Conversations, NEW list \in Lists, NEW flag \in CallersFlags(d),
               Creates(d, list, flag)
        PROVE  threadForProperties(tables', c, numbers) = found
    BY <1>1, <2>3, StaysWhenCreated
  <2> QED
    BY <1>1, <2>1, <2>2, <2>3, LookupChanges
<1>2. LInv /\ [LookupNext]_tables =>
         [LET after == tables'
          IN \A c \in Chats, numbers \in BOOLEAN :
                 LET found == threadForProperties(tables, c, numbers)
                 IN (found # NoThread /\ getSingleThread(after, found) # NoThread)
                        => threadForProperties(after, c, numbers) = found]_tables
  BY <1>1
<1> QED
  BY <1>2, LookupInvariant, PTL DEF LookupSpec, ConversationsStay

-----------------------------------------------------------------------------
(* The tables, as calls and clients change them                            *)

LEMMA TablesStay ==
    ASSUME LInv, UNCHANGED tables
    PROVE  LInv'
BY DEF LInv, WellKept, RowsAreTyped, PeopleAreListed, ThreadsDiffer

\* A thread that has just been created has the people it was created for.
LEMMA CreatedIsRight ==
    ASSUME NEW db, WellKept(db), NEW c \in Chats, NEW numbers \in BOOLEAN,
           NEW t \in Range(db.threads), Key(t) = KeyFor(c)
    PROVE  IsThreadOf(db, KeyFor(c), c.of, numbers)
<1>1. t.id = NewThreadId(c)
  BY DEF Key, KeyFor
<1>2. RowsAreTyped(db) /\ PeopleAreListed(db)
  BY DEF WellKept
<1>3. t.chat # "Room" /\ t.id.of = c.of
  BY <1>1, <1>2, NewKey DEF Chats, PeopleAreListed
<1>4. PICK list \in Lists : list = c.of /\ Who(db, KeyFor(c)) = list
  BY <1>2, <1>3, WhoOfThread
<1>5. PICK pairing : pairing = [i \in DOMAIN list |-> i]
  OBVIOUS
<1>6. /\ pairing \in [DOMAIN list -> DOMAIN list] /\ IsInjective(pairing)
      /\ \A i \in DOMAIN list : SameId(list[i], list[pairing[i]], numbers)
  BY <1>5, SameNumbers DEF IsInjective, SameId
<1>7. PairedOff(list, list, numbers)
  BY <1>6 DEF PairedOff
<1> QED
  BY <1>4, <1>7 DEF IsThreadOf

\* A lookup that creates what it does not find.
LEMMA AnswerStep ==
    ASSUME LInv, NEW c \in Chats, NEW numbers \in CallersFlags(c), FindOrCreate(c, c.of, numbers),
           NEW thread, thread = FoundOrCreated(c, numbers)
    PROVE  /\ LInv' /\ thread.account = c.account /\ thread.type = c.type
           /\ \E t \in Range(tables'.threads) : Key(t) = thread
           /\ IsThreadOf(tables', thread, c.of, numbers)
<1>1. PICK after : after = tables'
  OBVIOUS
<1>2. c \in Conversations /\ c.of \in Lists /\ numbers \in BOOLEAN /\ numbers \in FlagsFor(c)
  BY NewKey, FlagsOfCallers DEF Chats
<1>3. CASE threadForProperties(tables, c, numbers) # NoThread
  <2>1. after = tables /\ UNCHANGED tables /\ thread = threadForProperties(tables, c, numbers)
    BY <1>1, <1>3 DEF FindOrCreate, Stay, FoundOrCreated
  <2>2. LInv' /\ WellKept(tables)
    BY <2>1, TablesStay DEF LInv
  <2> QED
    BY <1>1, <1>2, <1>3, <2>1, <2>2, FoundIsRight
<1>4. CASE threadForProperties(tables, c, numbers) = NoThread
  <2>1. Creates(c, c.of, numbers) /\ thread = KeyFor(c)
    BY <1>4 DEF FindOrCreate, FoundOrCreated, Creates
  <2>2. LInv' /\ \E t \in Range(tables'.threads) : Key(t) = KeyFor(c)
    BY <1>2, <2>1, CreationStep
  <2>3. PICK t \in Range(after.threads) : Key(t) = KeyFor(c)
    BY <1>1, <2>2
  <2>4. WellKept(after)
    BY <1>1, <2>2 DEF LInv
  <2>5. IsThreadOf(after, KeyFor(c), c.of, numbers)
    BY <1>2, <2>3, <2>4, CreatedIsRight
  <2> QED
    BY <1>1, <2>1, <2>2, <2>3, <2>5 DEF KeyFor
<1> QED
  BY <1>3, <1>4

LEMMA AskingStep ==
    ASSUME LInv, NEW conversations \in SUBSET Chats, ClientAsks(conversations)
    PROVE  LInv'
<1>1. PICK c \in conversations : FindOrCreate(c, c.of, MatchesNumbers(c.account))
  BY DEF ClientAsks
<1>2. MatchesNumbers(c.account) \in CallersFlags(c)
  BY DEF CallersFlags
<1> QED
  BY <1>1, <1>2, AnswerStep

-----------------------------------------------------------------------------
(* What the daemon knows of calls                                          *)

Reasons == {"None", "NoAnswer", "Dropped"}

CallTypes ==
    /\ LInv
    /\ clock \in Times /\ up \in BOOLEAN /\ kills \in 0 .. MaxKills
    /\ state \in [Calls -> CallStates \cup {NoState}]
    /\ reason \in [Calls -> Reasons]
    /\ answeredAt \in [Calls -> Times \cup {NoTime}]
    /\ mCallStates \in [Calls -> CallStates \cup {NoState}]
    /\ timestamp \in [Calls -> Times \cup {NoTime}]
    /\ activeTimestamp \in [Calls -> Times \cup {NoTime}]
    /\ calls \subseteq VoiceEvents

ContextTypes ==
    /\ mContexts \in [Channels -> Contexts \cup {NoContext}]
    /\ mReadyMap = {ch \in Channels : mContexts[ch] # NoContext}
    /\ finished \subseteq Contexts

\* What is recorded of a call's times is later than what it is recorded of.
Timed(c) ==
    /\ mCallStates[c] # NoState => timestamp[c] # NoTime
    /\ state[c] = "Active" => answeredAt[c] # NoTime
    /\ answeredAt[c] # NoTime => answeredAt[c] <= clock /\ state[c] \in {"Active", "Ended"}
    /\ activeTimestamp[c] # NoTime =>
          answeredAt[c] # NoTime /\ answeredAt[c] <= activeTimestamp[c] /\ activeTimestamp[c] <= clock
    /\ reason[c] = "Dropped" => state[c] = "Ended"

CallTimes == \A c \in Calls : Timed(c)

NothingKnownWhenDown ==
    ~up => mReadyMap = {} /\ \A c \in Calls : mCallStates[c] = NoState

CInv ==
    /\ CallTypes /\ CallTimes /\ FollowedCallsAreCurrent
    /\ ContextTypes /\ FinishedMeansReady /\ NothingKnownWhenDown

LEMMA CallStart ==
    ASSUME CallInit
    PROVE  CInv
<1>1. LInv
  BY LookupStart DEF CallInit
<1>2. CallTypes
  BY <1>1, CallAssumption DEF CallInit, CallTypes, Times, Reasons
<1>3. CallTimes
  BY CallAssumption DEF CallInit, CallTimes, Timed, CallStates
<1>4. FollowedCallsAreCurrent /\ NothingKnownWhenDown
  BY DEF CallInit, FollowedCallsAreCurrent, NothingKnownWhenDown, Following
<1>5. ContextTypes /\ FinishedMeansReady
  BY CallAssumption DEF CallInit, ContextTypes, FinishedMeansReady
<1> QED
  BY <1>2, <1>3, <1>4, <1>5 DEF CInv

LEMMA ObserveStep ==
    ASSUME CInv, NEW context \in Contexts, ObserveChannels(context)
    PROVE  CInv'
<1> USE DEF CInv
<1>1. Observed(context) \subseteq Channels
  BY CallAssumption DEF Observed
<1>2. CallTypes'
  BY TablesStay DEF ObserveChannels, CallTypes, CallStates, follower
<1>3. CallTimes' /\ FollowedCallsAreCurrent'
  <2> SUFFICES ASSUME NEW c \in Calls
               PROVE  Timed(c)' /\ (Following(c)' /\ reason'[c] # "Dropped" => mCallStates'[c] = state'[c])
    BY DEF CallTimes, FollowedCallsAreCurrent
  <2>1. Timed(c) /\ (Following(c) /\ reason[c] # "Dropped" => mCallStates[c] = state[c])
    BY DEF CallTimes, FollowedCallsAreCurrent
  <2>2. state'[c] = state[c] \/ (state[c] = NoState /\ state'[c] = "Initialising")
    BY DEF ObserveChannels
  <2> QED
    BY <2>1, <2>2, CallAssumption DEF ObserveChannels, Timed, Following, CallStates, follower
<1>4. ContextTypes'
  BY <1>1, CallAssumption DEF ObserveChannels, ContextTypes
<1>5. FinishedMeansReady'
  BY <1>1 DEF ObserveChannels, ContextTypes, FinishedMeansReady
<1>6. NothingKnownWhenDown'
  BY DEF ObserveChannels, NothingKnownWhenDown
<1> QED
  BY <1>2, <1>3, <1>4, <1>5, <1>6

\* checkContextFinished, with the channel taken out of those being prepared.
LEMMA FinishStep ==
    ASSUME ContextTypes, FinishedMeansReady, NEW ch \in mReadyMap, checkContextFinished(ch),
           mReadyMap' = mReadyMap \ {ch}
    PROVE  ContextTypes' /\ FinishedMeansReady'
<1>1. ch \in Channels /\ mContexts[ch] \in Contexts /\ NoContext \notin Contexts
  BY CallAssumption DEF ContextTypes
<1>2. mContexts' = [mContexts EXCEPT ![ch] = NoContext]
  BY DEF checkContextFinished
<1>3. mContexts' \in [Channels -> Contexts \cup {NoContext}]
  BY <1>1, <1>2 DEF ContextTypes
<1>4. mReadyMap' = {other \in Channels : mContexts'[other] # NoContext}
  BY <1>1, <1>2 DEF ContextTypes
<1>5. /\ finished' \subseteq Contexts
      /\ finished' = finished
            \/ (/\ finished' = finished \cup {mContexts[ch]}
                /\ \A other \in Channels \ {ch} : mContexts[other] # mContexts[ch])
  BY <1>1 DEF checkContextFinished, ContextTypes
<1>6. FinishedMeansReady'
  BY <1>1, <1>2, <1>5 DEF FinishedMeansReady, ContextTypes
<1> QED
  BY <1>3, <1>4, <1>5, <1>6 DEF ContextTypes

LEMMA CallReadyStep ==
    ASSUME CInv, NEW c \in Calls, onCallChannelReady(c)
    PROVE  CInv'
<1> USE DEF CInv
<1>1. ContextTypes' /\ FinishedMeansReady'
  BY FinishStep DEF onCallChannelReady
<1>2. clock \in Times /\ state[c] \in CallStates \cup {NoState}
  BY DEF CallTypes
<1>3. CallTypes'
  BY <1>2, TablesStay DEF onCallChannelReady, Follow, CallTypes, telepathy
<1>4. up
  BY DEF onCallChannelReady, NothingKnownWhenDown
<1>5. CallTimes' /\ FollowedCallsAreCurrent'
  <2> SUFFICES ASSUME NEW d \in Calls
               PROVE  Timed(d)' /\ (Following(d)' /\ reason'[d] # "Dropped" => mCallStates'[d] = state'[d])
    BY DEF CallTimes, FollowedCallsAreCurrent
  <2>1. Timed(d) /\ (Following(d) /\ reason[d] # "Dropped" => mCallStates[d] = state[d])
    BY DEF CallTimes, FollowedCallsAreCurrent
  <2>2. /\ clock' = clock /\ state' = state /\ reason' = reason /\ answeredAt' = answeredAt /\ up' = up
        /\ NoTime \notin Times /\ clock \in Times /\ Times \subseteq Int
    BY <1>2, CallAssumption DEF onCallChannelReady, telepathy, Times
  <2>3. CASE d = c
    <3>1. /\ mCallStates'[d] = state[d] /\ timestamp'[d] = clock
          /\ activeTimestamp'[d] = IF state[d] = "Active" THEN clock ELSE activeTimestamp[d]
      BY <2>3 DEF onCallChannelReady, Follow, CallTypes
    <3>2. clock <= clock
      BY <2>2
    <3> QED
      BY <2>1, <2>2, <3>1, <3>2 DEF Timed, Following
  <2>4. CASE d # c
    <3>1. /\ mCallStates'[d] = mCallStates[d] /\ timestamp'[d] = timestamp[d]
          /\ activeTimestamp'[d] = activeTimestamp[d]
      BY <2>4 DEF onCallChannelReady, Follow, CallTypes
    <3> QED
      BY <2>1, <2>2, <3>1 DEF Timed, Following
  <2> QED
    BY <2>3, <2>4
<1>6. NothingKnownWhenDown'
  BY <1>4 DEF onCallChannelReady, NothingKnownWhenDown
<1> QED
  BY <1>1, <1>3, <1>5, <1>6

LEMMA TextReadyStep ==
    ASSUME CInv, NEW ch \in Channels, onTextChannelReady(ch)
    PROVE  CInv'
<1> USE DEF CInv
<1>1. ContextTypes' /\ FinishedMeansReady'
  BY FinishStep DEF onTextChannelReady
<1>2. CallTypes'
  BY TablesStay DEF onTextChannelReady, CallTypes, telepathy, follower
<1>3. CallTimes' /\ FollowedCallsAreCurrent'
  BY DEF onTextChannelReady, CallTimes, Timed, FollowedCallsAreCurrent, Following, telepathy, follower
<1>4. NothingKnownWhenDown'
  BY DEF onTextChannelReady, NothingKnownWhenDown, follower
<1> QED
  BY <1>1, <1>2, <1>3, <1>4

-----------------------------------------------------------------------------
(* A call changes its state                                                *)

\* onCallEnded: the thread is found or created, and the event fits the table.
LEMMA EndedTypes ==
    ASSUME CallTypes, CallTimes, NEW c \in Calls, Following(c), onCallEnded(c), clock' = clock
    PROVE  /\ LInv' /\ calls' \subseteq VoiceEvents
           /\ calls' = calls \/ \E thread : calls' \subseteq calls \cup {Event(c, thread)}
<1>1. CASE RemoteMembers[c] = <<>>
  BY <1>1, TablesStay DEF onCallEnded, CallTypes
<1>2. CASE RemoteMembers[c] # <<>>
  <2>1. PICK numbers \in CallersFlags(CallWith[c]) :
                       /\ FindOrCreate(CallWith[c], CallWith[c].of, numbers)
                       /\ Write(Event(c, FoundOrCreated(CallWith[c], numbers)))
    BY <1>2 DEF onCallEnded, CallersFlags
  <2>2. PICK thread : thread = FoundOrCreated(CallWith[c], numbers)
    OBVIOUS
  <2>3. CallWith[c] \in Chats
    BY CallAssumption
  <2>4. LInv' /\ \E t \in Range(tables'.threads) : Key(t) = thread
    BY <2>1, <2>2, <2>3, AnswerStep DEF CallTypes
  <2>5. thread \in Keys
    <3>1. PICK t \in Range(tables'.threads) : Key(t) = thread
      BY <2>4
    <3>2. tables'.threads \in Seq(ThreadRows)
      BY <2>4 DEF LInv, WellKept, RowsAreTyped
    <3>3. t \in ThreadRows
      BY <3>2, RangeOfSeq
    <3> QED
      BY <3>1, <3>3, KeyOfRow
  <2>6. RemoteMembers[c][1] \in Ids
    <3>1. RemoteMembers[c] \in Seq(Ids)
      BY CallAssumption, LookupAssumption
    <3> QED
      BY <1>2, <3>1
  <2>7. Missed(c) \in BOOLEAN /\ (c \in Incoming) \in BOOLEAN
    BY DEF Missed
  <2>8. timestamp[c] \in Times
    BY DEF Following, CallTypes, CallTimes, Timed
  <2>9. Duration(c, Missed(c)) \in 0 .. MaxTime
    <3>1. MaxTime \in Nat /\ NoTime \notin Times
      BY CallAssumption
    <3>2. CASE activeTimestamp[c] = NoTime \/ Missed(c)
      BY <3>1, <3>2 DEF Duration
    <3>3. CASE activeTimestamp[c] # NoTime /\ ~Missed(c)
      <4>1. /\ activeTimestamp[c] \in 0 .. MaxTime /\ clock \in 0 .. MaxTime
            /\ activeTimestamp[c] <= clock
        BY <3>3 DEF CallTypes, CallTimes, Timed, Times
      <4>2. clock - activeTimestamp[c] \in 0 .. MaxTime
        BY <3>1, <4>1
      <4> QED
        BY <3>3, <4>2 DEF Duration
    <3> QED
      BY <3>2, <3>3
  <2>10. PICK event : event = Event(c, thread)
    OBVIOUS
  <2>11. event \in VoiceEvents
    BY <2>5, <2>6, <2>7, <2>8, <2>9, <2>10 DEF Event, VoiceEvents
  <2>12. calls' = {e \in calls : e.thread # event.thread \/ e.at # event.at} \cup {event}
    BY <2>1, <2>2, <2>10 DEF Write
  <2> QED
    BY <2>4, <2>10, <2>11, <2>12 DEF CallTypes
<1> QED
  BY <1>1, <1>2

LEMMA ChangeStep ==
    ASSUME CInv, NEW c \in Calls, NEW new \in CallStates, NEW why \in {"None", "NoAnswer"},
           ChangeState(c, new, why)
    PROVE  CInv'
<1> USE DEF CInv
<1>1. /\ Succeeds(new, state[c])
      /\ state' = [state EXCEPT ![c] = new] /\ reason' = [reason EXCEPT ![c] = why]
      /\ answeredAt' = [answeredAt EXCEPT ![c] = IF new = "Active" THEN clock ELSE @]
      /\ clock' = clock /\ up' = up /\ kills' = kills /\ timestamp' = timestamp
      /\ UNCHANGED <<mContexts, mReadyMap, finished>>
  BY DEF ChangeState, observer
<1>2. /\ NoTime \notin Times /\ clock \in Times /\ NoState \notin CallStates
      /\ state[c] \in CallStates \ {"Ended"}
      /\ state[c] = "Active" => new = "Ended"
  BY <1>1, CallAssumption DEF CallTypes, Succeeds, CallStates, Unanswered
<1>3. \/ /\ Following(c) /\ new = "Ended" /\ ForgetState(c)
         /\ UNCHANGED activeTimestamp /\ onCallEnded(c)
      \/ /\ Following(c) /\ new # "Ended" /\ FollowState(c, new) /\ UNCHANGED <<calls, tables>>
         /\ activeTimestamp' = [activeTimestamp EXCEPT ![c] = IF new = "Active" THEN clock ELSE @]
      \/ ~Following(c) /\ UNCHANGED <<mCallStates, activeTimestamp, calls, tables>>
  BY DEF ChangeState, StateChanged
<1>4. LInv' /\ calls' \subseteq VoiceEvents
  BY <1>1, <1>3, EndedTypes, TablesStay DEF CallTypes
<1>5. CallTypes'
  BY <1>1, <1>2, <1>3, <1>4 DEF CallTypes, ForgetState, FollowState, Reasons
<1>6. CallTimes' /\ FollowedCallsAreCurrent'
  <2> SUFFICES ASSUME NEW d \in Calls
               PROVE  Timed(d)' /\ (Following(d)' /\ reason'[d] # "Dropped" => mCallStates'[d] = state'[d])
    BY DEF CallTimes, FollowedCallsAreCurrent
  <2>1. Timed(d) /\ (Following(d) /\ reason[d] # "Dropped" => mCallStates[d] = state[d])
    BY DEF CallTimes, FollowedCallsAreCurrent
  <2>2. CASE d # c
    <3>1. /\ state'[d] = state[d] /\ reason'[d] = reason[d] /\ answeredAt'[d] = answeredAt[d]
          /\ mCallStates'[d] = mCallStates[d] /\ activeTimestamp'[d] = activeTimestamp[d]
      BY <1>1, <1>3, <2>2 DEF CallTypes, ForgetState, FollowState
    <3> QED
      BY <1>1, <2>1, <3>1 DEF Timed, Following
  <2>3. CASE d = c
    <3>1. /\ state'[c] = new /\ reason'[c] = why
          /\ answeredAt'[c] = IF new = "Active" THEN clock ELSE answeredAt[c]
      BY <1>1 DEF CallTypes
    <3>2. clock <= clock /\ why # "Dropped"
      BY <1>2, CallAssumption DEF Times
    <3>3. CASE Following(c) /\ new = "Ended"
      <4>1. mCallStates'[c] = NoState /\ activeTimestamp'[c] = activeTimestamp[c]
        BY <1>3, <3>3 DEF CallTypes, ForgetState
      <4> QED
        BY <1>1, <1>2, <2>1, <2>3, <3>1, <3>2, <3>3, <4>1 DEF Timed, Following
    <3>4. CASE Following(c) /\ new # "Ended"
      <4>1. /\ mCallStates'[c] = new
            /\ activeTimestamp'[c] = IF new = "Active" THEN clock ELSE activeTimestamp[c]
        BY <1>3, <3>4 DEF CallTypes, FollowState
      <4>2. (Following(c)' /\ reason'[c] # "Dropped") => mCallStates'[c] = state'[c]
        BY <3>1, <4>1
      <4>3. Timed(c)'
        BY <1>1, <1>2, <2>1, <2>3, <3>1, <3>2, <3>4, <4>1 DEF Timed, Following
      <4> QED
        BY <2>3, <4>2, <4>3
    <3>5. CASE ~Following(c)
      <4>1. mCallStates'[c] = mCallStates[c] /\ activeTimestamp'[c] = activeTimestamp[c]
        BY <1>3, <3>5
      <4> QED
        BY <1>1, <1>2, <2>1, <2>3, <3>1, <3>2, <3>5, <4>1 DEF Timed, Following
    <3> QED
      BY <3>3, <3>4, <3>5
  <2> QED
    BY <2>2, <2>3
<1>7. ContextTypes' /\ FinishedMeansReady'
  BY <1>1 DEF ContextTypes, FinishedMeansReady
<1>8. NothingKnownWhenDown'
  <2>1. CASE up
    BY <1>1, <2>1 DEF NothingKnownWhenDown
  <2>2. CASE ~up
    BY <1>1, <1>3, <2>2 DEF NothingKnownWhenDown, Following
  <2> QED
    BY <2>1, <2>2
<1> QED
  BY <1>5, <1>6, <1>7, <1>8

LEMMA InvalidatedStep ==
    ASSUME CInv, NEW c \in Calls, onChannelInvalidated(c)
    PROVE  CInv'
<1> USE DEF CInv
<1>1. /\ state[c] \in CallStates \ {"Ended"}
      /\ state' = [state EXCEPT ![c] = "Ended"] /\ reason' = [reason EXCEPT ![c] = "Dropped"]
      /\ UNCHANGED <<clock, answeredAt, up, kills, mContexts, mReadyMap, finished,
                     mCallStates, timestamp, activeTimestamp, calls, tables>>
  BY DEF onChannelInvalidated, observer, follower
<1>2. CallTypes'
  BY <1>1, TablesStay DEF CallTypes, CallStates, Reasons
<1>3. CallTimes' /\ FollowedCallsAreCurrent'
  <2> SUFFICES ASSUME NEW d \in Calls
               PROVE  Timed(d)' /\ (Following(d)' /\ reason'[d] # "Dropped" => mCallStates'[d] = state'[d])
    BY DEF CallTimes, FollowedCallsAreCurrent
  <2>1. Timed(d) /\ (Following(d) /\ reason[d] # "Dropped" => mCallStates[d] = state[d])
    BY DEF CallTimes, FollowedCallsAreCurrent
  <2>2. IF d = c THEN state'[d] = "Ended" /\ reason'[d] = "Dropped"
                 ELSE state'[d] = state[d] /\ reason'[d] = reason[d]
    BY <1>1 DEF CallTypes
  <2> QED
    BY <1>1, <2>1, <2>2 DEF Timed, Following
<1>4. ContextTypes' /\ FinishedMeansReady' /\ NothingKnownWhenDown'
  BY <1>1 DEF ContextTypes, FinishedMeansReady, NothingKnownWhenDown
<1> QED
  BY <1>2, <1>3, <1>4

\* Threads, time and the process change nothing that is known of a call.
LEMMA OtherSteps ==
    ASSUME CInv, RemoveCalls \/ AskForThread \/ Tick \/ Restart \/ UNCHANGED callVars
    PROVE  CInv'
<1> USE DEF CInv
<1>1. /\ UNCHANGED <<state, reason, answeredAt, kills, mContexts, mReadyMap, finished,
                     mCallStates, timestamp, activeTimestamp>>
      /\ UNCHANGED clock \/ (clock' = clock + 1 /\ clock < MaxTime)
      /\ up' = up \/ (up' = TRUE /\ ~up)
  BY DEF RemoveCalls, AskForThread, Tick, Restart, callVars, telepathy, observer, follower
<1>2. clock \in Times /\ Times \subseteq Int /\ NoTime \notin Times /\ MaxTime \in Nat
  BY CallAssumption DEF CallTypes, Times
<1>3. LInv' /\ calls' \subseteq calls
  <2>1. CASE RemoveCalls
    BY <2>1, RemovalStep DEF RemoveCalls, CallTypes
  <2>2. CASE AskForThread
    <3>1. {c \in Chats : c.type = "Voice"} \in SUBSET Chats
      OBVIOUS
    <3> QED
      BY <2>2, <3>1, AskingStep DEF AskForThread, CallTypes
  <2>3. CASE Tick \/ Restart \/ UNCHANGED callVars
    BY <2>3, TablesStay DEF Tick, Restart, callVars, CallTypes
  <2> QED
    BY <2>1, <2>2, <2>3
<1>4. clock' \in Times /\ clock <= clock'
  BY <1>1, <1>2 DEF Times
<1>5. CallTypes'
  BY <1>1, <1>3, <1>4 DEF CallTypes
<1>6. CallTimes'
  <2> SUFFICES ASSUME NEW c \in Calls
               PROVE  Timed(c)'
    BY DEF CallTimes
  <2>1. Timed(c) /\ answeredAt[c] \in Times \cup {NoTime} /\ activeTimestamp[c] \in Times \cup {NoTime}
    BY DEF CallTimes, CallTypes
  <2>2. answeredAt[c] \in Int /\ answeredAt[c] <= clock => answeredAt[c] <= clock'
    BY <1>2, <1>4
  <2>3. activeTimestamp[c] \in Int /\ activeTimestamp[c] <= clock => activeTimestamp[c] <= clock'
    BY <1>2, <1>4
  <2> QED
    BY <1>1, <1>2, <2>1, <2>2, <2>3 DEF Timed
<1>7. FollowedCallsAreCurrent'
  BY <1>1 DEF FollowedCallsAreCurrent, Following, NothingKnownWhenDown
<1>8. ContextTypes' /\ FinishedMeansReady'
  BY <1>1 DEF ContextTypes, FinishedMeansReady
<1>9. NothingKnownWhenDown'
  BY <1>1 DEF NothingKnownWhenDown
<1> QED
  BY <1>5, <1>6, <1>7, <1>8, <1>9

LEMMA KillStep ==
    ASSUME CInv, Kill
    PROVE  CInv'
<1> USE DEF CInv
<1>1. CallTypes'
  <2>1. kills' \in 0 .. MaxKills
    BY CallAssumption DEF Kill, CallTypes
  <2>2. LInv' /\ calls' \subseteq VoiceEvents
    BY TablesStay DEF Kill, CallTypes
  <2> QED
    BY <2>1, <2>2 DEF Kill, CallTypes, telepathy
<1>2. CallTimes' /\ FollowedCallsAreCurrent'
  BY DEF Kill, CallTimes, Timed, FollowedCallsAreCurrent, Following, telepathy
<1>3. ContextTypes' /\ FinishedMeansReady' /\ NothingKnownWhenDown'
  BY CallAssumption DEF Kill, ContextTypes, FinishedMeansReady, NothingKnownWhenDown
<1> QED
  BY <1>1, <1>2, <1>3

LEMMA CallStep ==
    ASSUME CInv, [CallNext]_callVars
    PROVE  CInv'
<1>1. ASSUME NEW context \in Contexts, ObserveChannels(context)
      PROVE  CInv'
  BY <1>1, ObserveStep
<1>2. ASSUME NEW ch \in Channels, Ready(ch)
      PROVE  CInv'
  BY <1>2, CallReadyStep, TextReadyStep DEF Ready
<1>3. ASSUME NEW c \in Calls, NEW new \in CallStates, NEW why \in {"None", "NoAnswer"},
             ChangeState(c, new, why)
      PROVE  CInv'
  BY <1>3, ChangeStep
<1>4. ASSUME NEW c \in Calls, onChannelInvalidated(c)
      PROVE  CInv'
  BY <1>4, InvalidatedStep
<1> QED
  BY <1>1, <1>2, <1>3, <1>4, OtherSteps, KillStep DEF CallNext

\* The observers, the handlers of the daemon, the process and Telepathy keep
\* the inductive invariant, in every order they can act.
THEOREM CallInvariant == CallSpec => []CInv
<1>1. CallInit => CInv
  BY CallStart
<1>2. CInv /\ [CallNext]_callVars => CInv'
  BY CallStep
<1> QED
  BY <1>1, <1>2, PTL DEF CallSpec

\* CallChannelObserver::onCallStateChanged: a call that is followed is known in
\* its present state, however long its preparation took and whatever happened
\* to it meanwhile.
THEOREM CallsAreAlwaysFollowed == CallSpec => []CallsAreFollowed
<1>1. CInv => CallsAreFollowed
  BY TablesAreTyped
     DEF CInv, CallTypes, ContextTypes, CallTimes, Timed, CallsAreFollowed, CallTypeOK
<1> QED
  BY <1>1, CallInvariant, PTL

\* ChannelObserver::checkContextFinished: no context is finished while a
\* channel of it is prepared, for any batches.
THEOREM ContextsWaitForChannels == CallSpec => []FinishedMeansReady
<1>1. CInv => FinishedMeansReady
  BY DEF CInv
<1> QED
  BY <1>1, CallInvariant, PTL

-----------------------------------------------------------------------------
(* Durations                                                               *)

\* Only the end of a call that is followed adds an event.
LEMMA EventsComeFromEndedCalls ==
    ASSUME CInv, [CallNext]_callVars, NEW e \in calls' \ calls
    PROVE  \E c \in Calls : \E thread :
               /\ state[c] # "Ended" /\ state'[c] = "Ended" /\ clock' = clock
               /\ e = Event(c, thread)
<1>1. ASSUME NEW c \in Calls, NEW new \in CallStates, NEW why \in {"None", "NoAnswer"},
             ChangeState(c, new, why)
      PROVE  \E thread : /\ state[c] # "Ended" /\ state'[c] = "Ended" /\ clock' = clock
                         /\ e = Event(c, thread)
  <2>1. new = "Ended" /\ Following(c) /\ onCallEnded(c)
    BY <1>1 DEF ChangeState, StateChanged
  <2>2. Succeeds(new, state[c]) /\ state' = [state EXCEPT ![c] = new] /\ clock' = clock
    BY <1>1 DEF ChangeState
  <2>3. state[c] # "Ended" /\ state'[c] = "Ended"
    BY <2>1, <2>2 DEF Succeeds, CInv, CallTypes
  <2>4. PICK thread : calls' \subseteq calls \cup {Event(c, thread)}
    BY <2>1, <2>2, EndedTypes DEF CInv
  <2> QED
    BY <2>2, <2>3, <2>4
<1>2. \E c \in Calls, new \in CallStates, why \in {"None", "NoAnswer"} : ChangeState(c, new, why)
  <2>1. ~\E context \in Contexts : ObserveChannels(context)
    BY DEF ObserveChannels
  <2>2. ~\E ch \in Channels : Ready(ch)
    BY DEF Ready, onCallChannelReady, onTextChannelReady
  <2>3. ~\E c \in Calls : onChannelInvalidated(c)
    BY DEF onChannelInvalidated
  <2>4. ~RemoveCalls
    BY DEF RemoveCalls
  <2>5. ~AskForThread /\ ~Tick /\ ~Kill /\ ~Restart /\ ~UNCHANGED callVars
    BY DEF AskForThread, Tick, Kill, Restart, callVars
  <2> QED
    BY <2>1, <2>2, <2>3, <2>4, <2>5 DEF CallNext
<1> QED
  BY <1>1, <1>2

\* HistoryDaemon::onCallEnded, with the times that onCallChannelAvailable and
\* onCallStateChanged have noted: no call is stored as longer than it was, and
\* one nobody has answered has no duration.
THEOREM DurationsAreAlwaysTrue == CallSpec => DurationsAreTrue
<1>1. ASSUME CInv, [CallNext]_callVars, NEW e \in calls' \ calls
      PROVE  \E c \in Calls :
                 /\ state[c] # "Ended" /\ state'[c] = "Ended" /\ timestamp[c] = e.at
                 /\ IF answeredAt[c] = NoTime THEN e.duration = 0
                    ELSE e.duration <= clock - answeredAt[c]
  <2>1. PICK c \in Calls : \E thread : /\ state[c] # "Ended" /\ state'[c] = "Ended"
                                      /\ e = Event(c, thread)
    BY <1>1, EventsComeFromEndedCalls
  <2>2. PICK thread : e = Event(c, thread)
    BY <2>1
  <2>3. e.at = timestamp[c] /\ e.duration = Duration(c, Missed(c))
    BY <2>2 DEF Event
  <2>4. /\ Timed(c) /\ clock \in Int /\ NoTime \notin Times
        /\ answeredAt[c] \in Times \cup {NoTime} /\ activeTimestamp[c] \in Times \cup {NoTime}
    BY <1>1, CallAssumption DEF CInv, CallTypes, CallTimes, Times
  <2>5. CASE activeTimestamp[c] = NoTime \/ Missed(c)
    <3>1. e.duration = 0
      BY <2>3, <2>5 DEF Duration
    <3>2. answeredAt[c] # NoTime => 0 <= clock - answeredAt[c]
      BY <2>4 DEF Timed, Times
    <3> QED
      BY <2>1, <2>3, <3>1, <3>2
  <2>6. CASE activeTimestamp[c] # NoTime /\ ~Missed(c)
    <3>1. e.duration = clock - activeTimestamp[c]
      BY <2>3, <2>6 DEF Duration
    <3>2. answeredAt[c] # NoTime /\ clock - activeTimestamp[c] <= clock - answeredAt[c]
      BY <2>4, <2>6 DEF Timed, Times
    <3> QED
      BY <2>1, <2>3, <3>1, <3>2
  <2> QED
    BY <2>5, <2>6
<1>2. CInv /\ [CallNext]_callVars =>
          [\A e \in calls' \ calls :
              \E c \in Calls :
                  /\ state[c] # "Ended" /\ state'[c] = "Ended" /\ timestamp[c] = e.at
                  /\ IF answeredAt[c] = NoTime THEN e.duration = 0
                     ELSE e.duration <= clock - answeredAt[c]]_callVars
  BY <1>1
<1> QED
  BY <1>2, CallInvariant, PTL DEF CallSpec, DurationsAreTrue

-----------------------------------------------------------------------------
(* The end of a call                                                       *)

\* A call that the observer forgets while the daemon runs has ended.
LEMMA ForgottenCallsHaveEnded ==
    ASSUME CInv, [CallNext]_callVars, NEW c \in Calls, Ends(c)
    PROVE  \E why \in {"None", "NoAnswer"} : ChangeState(c, "Ended", why) /\ Following(c)
<1>1. ASSUME NEW context \in Contexts, ObserveChannels(context)
      PROVE  FALSE
  BY <1>1 DEF ObserveChannels, Ends, follower
<1>2. ASSUME NEW ch \in Channels, Ready(ch)
      PROVE  FALSE
  <2>1. CASE ch \in Calls
    <3>1. mCallStates' = [mCallStates EXCEPT ![ch] = state[ch]] /\ UNCHANGED <<state, reason, up>>
      BY <1>2, <2>1 DEF Ready, onCallChannelReady, Follow, telepathy
    <3>2. ch = c /\ state[c] = NoState /\ mCallStates[c] # NoState /\ up
      BY <2>1, <3>1 DEF Ends, CInv, CallTypes
    <3>3. reason[c] # "Dropped"
      BY <3>2, CallAssumption DEF CInv, CallTimes, Timed, CallStates
    <3> QED
      BY <3>2, <3>3 DEF CInv, FollowedCallsAreCurrent, Following
  <2>2. CASE ch \notin Calls
    BY <1>2, <2>2 DEF Ready, onTextChannelReady, Ends, follower
  <2> QED
    BY <2>1, <2>2
<1>3. ASSUME NEW d \in Calls, NEW new \in CallStates, NEW why \in {"None", "NoAnswer"},
             ChangeState(d, new, why)
      PROVE  d = c /\ new = "Ended" /\ Following(c)
  <2>1. mCallStates'[c] # mCallStates[c] /\ mCallStates'[c] = NoState /\ NoState \notin CallStates
    BY CallAssumption DEF Ends
  <2>2. Following(d) /\ StateChanged(d, new)
    BY <1>3, <2>1 DEF ChangeState
  <2>3. CASE new = "Ended"
    BY <2>1, <2>2, <2>3 DEF StateChanged, ForgetState, CInv, CallTypes
  <2>4. CASE new # "Ended"
    BY <2>1, <2>2, <2>4 DEF StateChanged, FollowState, CInv, CallTypes
  <2> QED
    BY <2>2, <2>3, <2>4
<1>4. ASSUME NEW d \in Calls, onChannelInvalidated(d)
      PROVE  FALSE
  BY <1>4 DEF onChannelInvalidated, Ends, follower
<1>5. ~(RemoveCalls \/ AskForThread \/ Tick \/ Kill \/ Restart \/ UNCHANGED callVars)
  BY DEF RemoveCalls, AskForThread, Tick, Kill, Restart, callVars, Ends, follower
<1>6. \E d \in Calls, new \in CallStates, why \in {"None", "NoAnswer"} : ChangeState(d, new, why)
  BY <1>1, <1>2, <1>4, <1>5 DEF CallNext
<1> QED
  BY <1>3, <1>6

LEMMA EndIsRecorded ==
    ASSUME CInv, [CallNext]_callVars, NEW c \in Calls, Ends(c), RemoteMembers[c] # <<>>
    PROVE  \E e \in calls' : RecordedAs(c, e) /\ ThreadOf(c, e.thread)
<1>1. PICK why \in {"None", "NoAnswer"} : ChangeState(c, "Ended", why) /\ Following(c)
  BY ForgottenCallsHaveEnded
<1>2. /\ onCallEnded(c) /\ reason' = [reason EXCEPT ![c] = why]
      /\ why = "NoAnswer" => state[c] \in Unanswered
      /\ Succeeds("Ended", state[c])
  BY <1>1 DEF ChangeState, StateChanged
<1>3. PICK numbers : /\ numbers = ChannelMatchesNumbers(CallWith[c].account)
                     /\ FindOrCreate(CallWith[c], CallWith[c].of, numbers)
                     /\ Write(Event(c, FoundOrCreated(CallWith[c], numbers)))
  BY <1>2 DEF onCallEnded
<1>4. PICK thread, e : thread = FoundOrCreated(CallWith[c], numbers) /\ e = Event(c, thread)
  OBVIOUS
<1>5. CallWith[c] \in Chats /\ CallWith[c].type = "Voice" /\ numbers \in CallersFlags(CallWith[c])
  BY <1>3, CallAssumption DEF CallersFlags
<1>6. getSingleThread(tables', thread) = thread /\ ThreadOf(c, thread)
  <2>1. /\ thread.account = CallWith[c].account /\ thread.type = CallWith[c].type
        /\ \E t \in Range(tables'.threads) : Key(t) = thread
        /\ IsThreadOf(tables', thread, CallWith[c].of, numbers)
    BY <1>3, <1>4, <1>5, AnswerStep DEF CInv, CallTypes
  <2> QED
    BY <1>3, <1>5, <2>1 DEF ThreadOf, getSingleThread
<1>7. e \in calls'
  BY <1>3, <1>4 DEF Write
<1>8. e.thread = thread /\ e.at = timestamp[c] /\ e.missed = Missed(c) /\ e.new = Missed(c)
  BY <1>4 DEF Event
<1>9. mCallStates[c] = state[c] /\ reason'[c] = why
  <2>1. reason[c] # "Dropped"
    BY <1>2 DEF CInv, CallTimes, Timed, Succeeds
  <2> QED
    BY <1>1, <1>2, <2>1 DEF CInv, CallTypes, FollowedCallsAreCurrent
<1>10. answeredAt[c] # NoTime => ~Missed(c)
  BY <1>2, <1>9 DEF Missed, CInv, CallTimes, Timed, Unanswered
<1>11. (c \in Incoming /\ (state[c] = "Initialised" \/ reason'[c] = "NoAnswer")) => Missed(c)
  BY <1>9 DEF Missed
<1> QED
  BY <1>6, <1>7, <1>8, <1>10, <1>11 DEF RecordedAs

\* HistoryDaemon::onCallEnded: every call that is followed to its end has an
\* event, in a thread of its account that exists and has the people of the call;
\* it is missed only if nobody has answered, and always if an incoming call rang
\* and was not even accepted, or Telepathy says that nobody answered.  Its duration is no longer than the call's.
THEOREM CallsAreAlwaysRecorded == CallSpec => CallsAreRecorded
<1>1. CInv /\ [CallNext]_callVars =>
          [\A c \in Calls :
              (Ends(c) /\ RemoteMembers[c] # <<>>) =>
                  \E e \in calls' : RecordedAs(c, e) /\ ThreadOf(c, e.thread)]_callVars
  BY EndIsRecorded
<1>2. CallSpec => EndedCallsAreStored
  BY <1>1, CallInvariant, PTL DEF CallSpec, EndedCallsAreStored
<1> QED
  BY <1>2, DurationsAreAlwaysTrue, PTL DEF CallsAreRecorded

=============================================================================
