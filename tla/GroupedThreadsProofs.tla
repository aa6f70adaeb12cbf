------------------------- MODULE GroupedThreadsProofs -------------------------
(***************************************************************************)
(* Proofs about ConversationCache, the plugin's cache, and GroupedThreads, *)
(* the list of conversations beside it: for any threads, rooms, members,   *)
(* timestamps, sizes of pages and numbers of operations. The properties of *)
(* the list that tell conversations apart assume that having the same      *)
(* number is an equivalence (NumbersMatch).                                *)
(***************************************************************************)
EXTENDS GroupedThreads, FiniteSetTheorems, FunctionTheorems, SequenceTheorems,
        WellFoundedInduction, NaturalsInduction, TLAPS

-----------------------------------------------------------------------------
(* Lists of copies                                                         *)

LEMMA LeastElement ==
    ASSUME NEW T, T \subseteq Nat, T # {}
    PROVE  \E n \in T : \A m \in T : n <= m
<1> DEFINE R == {p \in Nat \X Nat : p[1] < p[2]}
<1>1. IsWellFoundedOn(R, Nat)
  BY NatLessThanWellFounded, Zenon DEF OpToRel
<1> HIDE DEF R
<1>2. PICK n \in T : \A m \in T : ~ (<<m, n>> \in R)
  BY <1>1, WFMin, Zenon
<1>3. ASSUME NEW m \in T PROVE n <= m
  <2>1. m \in Nat /\ n \in Nat
    OBVIOUS
  <2>2. ~(<<m, n>> \in R)
    BY <1>2
  <2>3. m < n => <<m, n>> \in R
    BY <2>1 DEF R
  <2> QED
    BY <2>1, <2>2, <2>3
<1> QED
  BY <1>3

LEMMA CopiesHaveTimes ==
    ASSUME NEW copies \in Seq(Copy)
    PROVE  /\ Len(copies) \in Nat /\ DOMAIN copies = 1 .. Len(copies)
           /\ \A i \in DOMAIN copies : /\ copies[i] \in Copy
                                       /\ copies[i].time \in Nat /\ copies[i].thread \in Threads
<1>1. \A i \in DOMAIN copies : copies[i] \in Copy
  OBVIOUS
<1>2. Stamps \cup {0} \subseteq Nat
  BY CacheAssumption
<1>3. \A copy \in Copy : copy.time \in Nat /\ copy.thread \in Threads
  BY <1>2 DEF Copy
<1>4. Len(copies) \in Nat /\ DOMAIN copies = 1 .. Len(copies)
  OBVIOUS
<1> QED
  BY <1>1, <1>3, <1>4

IsNewest(copies, i) ==
    /\ i \in DOMAIN copies
    /\ \A j \in DOMAIN copies : /\ copies[j].time <= copies[i].time
                                /\ j < i => copies[j].time < copies[i].time

LEMMA FirstGreatest ==
    ASSUME NEW len \in Nat, len >= 1, NEW f \in [1 .. len -> Nat]
    PROVE  \E i \in 1 .. len : \A j \in 1 .. len : f[j] <= f[i] /\ (j < i => f[j] < f[i])
<1> DEFINE Greatest(n, i) == \A j \in 1 .. n : f[j] <= f[i]
           T == {n \in 1 .. len : \A i \in 1 .. n : ~Greatest(n, i)}
<1>1. ASSUME T # {} PROVE FALSE
  <2>1. T \subseteq Nat
    OBVIOUS
  <2>2. PICK n \in T : \A m \in T : n <= m
    BY <1>1, <2>1, LeastElement, Zenon
  <2>3. n \in 1 .. len /\ \A i \in 1 .. n : ~Greatest(n, i)
    BY <2>2
  <2>4. n # 1
    BY <2>3
  <2>5. n - 1 \in 1 .. len /\ ~(n <= n - 1)
    BY <2>3, <2>4
  <2>6. n - 1 \notin T
    <3> HIDE DEF T
    <3> QED
      BY <2>2, <2>5
  <2>7. PICK i \in 1 .. n - 1 : Greatest(n - 1, i)
    BY <2>5, <2>6
  <2>8. /\ i \in 1 .. n /\ i \in 1 .. len /\ n \in 1 .. n
        /\ \A j \in 1 .. n : j = n \/ j \in 1 .. n - 1
    BY <2>3, <2>5
  <2>9. f[i] \in Nat /\ f[n] \in Nat
    BY <2>3, <2>8
  <2>10. CASE f[n] <= f[i]
    <3>1. Greatest(n, i)
      BY <2>7, <2>8, <2>10
    <3> QED
      BY <2>3, <2>8, <3>1
  <2>11. CASE f[i] < f[n]
    <3>1. ASSUME NEW j \in 1 .. n PROVE f[j] <= f[n]
      <4>1. f[j] \in Nat
        BY <2>3
      <4>2. j = n \/ f[j] <= f[i]
        BY <2>7, <2>8
      <4> QED
        BY <2>9, <2>11, <4>1, <4>2
    <3>2. Greatest(n, n)
      BY <3>1
    <3> QED
      BY <2>3, <2>8, <3>2
  <2> QED
    BY <2>9, <2>10, <2>11
<1>2. len \in 1 .. len /\ \E i \in 1 .. len : Greatest(len, i)
  <2>1. len \in 1 .. len
    OBVIOUS
  <2>2. len \notin T
    <3> HIDE DEF T
    <3> QED
      BY <1>1
  <2> QED
    BY <2>1, <2>2
<1> DEFINE G == {i \in 1 .. len : Greatest(len, i)}
<1>3. G \subseteq Nat /\ G # {}
  BY <1>2
<1>4. PICK i \in G : \A k \in G : i <= k
  BY <1>3, LeastElement, Zenon
<1>5. ASSUME NEW j \in 1 .. len, j < i PROVE f[j] < f[i]
  <2>1. i \in 1 .. len /\ \A k \in 1 .. len : f[k] <= f[i]
    BY <1>4
  <2>2. ~(i <= j)
    BY <1>5, <2>1
  <2>3. j \notin G
    <3> HIDE DEF G
    <3> QED
      BY <1>4, <2>2
  <2>4. PICK k \in 1 .. len : ~(f[k] <= f[j])
    BY <2>3
  <2>5. f[k] \in Nat /\ f[j] \in Nat /\ f[i] \in Nat /\ f[k] <= f[i]
    BY <2>1
  <2> QED
    BY <2>4, <2>5
<1>6. i \in 1 .. len /\ \A k \in 1 .. len : f[k] <= f[i]
  BY <1>4
<1> QED
  BY <1>5, <1>6

LEMMA NewestOf ==
    ASSUME NEW S, NEW copies \in Seq(S), copies # <<>>, \A i \in DOMAIN copies : copies[i].time \in Nat
    PROVE  IsNewest(copies, Newest(copies))
<1> DEFINE len == Len(copies)
           f == [i \in 1 .. len |-> copies[i].time]
<1>1. len \in Nat /\ len >= 1 /\ DOMAIN copies = 1 .. len
  OBVIOUS
<1>2. f \in [1 .. len -> Nat]
  BY <1>1
<1>3. PICK i \in 1 .. len : \A j \in 1 .. len : f[j] <= f[i] /\ (j < i => f[j] < f[i])
  <2> HIDE DEF f, len
  <2> QED
    BY <1>1, <1>2, FirstGreatest
<1>4. IsNewest(copies, i)
  BY <1>1, <1>3 DEF IsNewest
<1> QED
  BY <1>4 DEF IsNewest, Newest

LEMMA NewestExists ==
    ASSUME NEW copies \in Seq(Copy), copies # <<>>
    PROVE  IsNewest(copies, Newest(copies))
BY NewestOf, CopiesHaveTimes

LEMMA NewestIsUnique ==
    ASSUME NEW copies \in Seq(Copy), NEW i, IsNewest(copies, i)
    PROVE  Newest(copies) = i
<1>1. copies # <<>>
  BY DEF IsNewest
<1> DEFINE k == Newest(copies)
<1>2. IsNewest(copies, k)
  BY <1>1, NewestExists
<1> HIDE DEF k
<1>3. /\ i \in 1 .. Len(copies) /\ k \in 1 .. Len(copies)
      /\ copies[i].time \in Nat /\ copies[k].time \in Nat
  BY <1>2, CopiesHaveTimes DEF IsNewest
<1>4. /\ copies[k].time <= copies[i].time /\ copies[i].time <= copies[k].time
      /\ k < i => copies[k].time < copies[i].time
      /\ i < k => copies[i].time < copies[k].time
  BY <1>2, <1>3, CopiesHaveTimes DEF IsNewest
<1> QED
  BY <1>3, <1>4 DEF k

\* InOrder keeps the elements at some positions in their order: the n-th
\* element of what is left was at position at[n].
Keeps(list, kept, rest, at) ==
    /\ at \in [1 .. Len(rest) -> 1 .. Len(list)]
    /\ \A n \in 1 .. Len(rest) : rest[n] = list[at[n]] /\ at[n] \in kept
    /\ \A m, n \in 1 .. Len(rest) : m < n => at[m] < at[n]
    /\ \A i \in kept : \E n \in 1 .. Len(rest) : at[n] = i

LEMMA KeptInOrder ==
    ASSUME NEW S, NEW list \in Seq(S), NEW kept, kept \subseteq DOMAIN list
    PROVE  /\ InOrder(list, kept) \in Seq(S)
           /\ \E at : Keeps(list, kept, InOrder(list, kept), at)
<1> DEFINE len == Len(list)
           size == Cardinality(kept)
           UpTo(i) == {j \in kept : j <= i}
           rank == [i \in kept |-> Cardinality(UpTo(i))]
           at == [n \in 1 .. size |-> CHOOSE i \in kept : Cardinality(UpTo(i)) = n]
           rest == InOrder(list, kept)
<1>1. len \in Nat /\ DOMAIN list = 1 .. len /\ kept \subseteq 1 .. len
  OBVIOUS
<1>2. IsFiniteSet(kept) /\ size \in Nat
  <2>1. IsFiniteSet(1 .. len)
    BY <1>1, FS_Interval
  <2>2. IsFiniteSet(kept)
    BY <1>1, <2>1, FS_Subset
  <2> QED
    BY <2>2, FS_CardinalityType
<1>3. rest = [n \in 1 .. size |-> list[at[n]]]
  BY <1>1 DEF InOrder
<1> HIDE DEF rest
<1>4. ASSUME NEW i \in kept
      PROVE  IsFiniteSet(UpTo(i)) /\ rank[i] = Cardinality(UpTo(i)) /\ rank[i] \in 1 .. size
  <2>1. UpTo(i) \subseteq kept /\ i \in UpTo(i)
    BY <1>1
  <2>2. IsFiniteSet(UpTo(i)) /\ Cardinality(UpTo(i)) <= size
    <3> HIDE DEF UpTo
    <3> QED
      BY <1>2, <2>1, FS_Subset
  <2>3. Cardinality(UpTo(i)) \in Nat /\ Cardinality(UpTo(i)) # 0
    <3> HIDE DEF UpTo
    <3> QED
      BY <2>1, <2>2, FS_CardinalityType, FS_EmptySet
  <2>4. rank[i] = Cardinality(UpTo(i))
    OBVIOUS
  <2> HIDE DEF rank, UpTo, size
  <2> QED
    BY <1>2, <2>2, <2>3, <2>4
<1>5. ASSUME NEW i \in kept, NEW j \in kept, i < j
      PROVE  rank[i] < rank[j]
  <2>1. UpTo(i) \subseteq UpTo(j) /\ j \in UpTo(j) /\ j \notin UpTo(i)
    BY <1>1, <1>5
  <2>2. /\ IsFiniteSet(UpTo(j)) /\ rank[i] = Cardinality(UpTo(i))
        /\ rank[j] = Cardinality(UpTo(j)) /\ rank[i] \in Nat /\ rank[j] \in Nat
    <3>1. /\ IsFiniteSet(UpTo(j)) /\ rank[i] = Cardinality(UpTo(i))
          /\ rank[j] = Cardinality(UpTo(j))
      BY <1>4
    <3>2. rank[i] \in 1 .. size /\ rank[j] \in 1 .. size
      BY <1>4
    <3> HIDE DEF rank, UpTo, size
    <3> QED
      BY <3>1, <3>2
  <2> HIDE DEF UpTo, rank
  <2>3. Cardinality(UpTo(i)) <= Cardinality(UpTo(j))
        /\ (Cardinality(UpTo(j)) = Cardinality(UpTo(i)) => UpTo(j) = UpTo(i))
    BY <2>1, <2>2, FS_Subset
  <2> QED
    BY <2>1, <2>2, <2>3
<1>6. ASSUME NEW i \in kept, NEW j \in kept, rank[i] = rank[j] PROVE i = j
  <2>1. i \in Nat /\ j \in Nat
    BY <1>1
  <2>3. rank[i] \in Nat /\ rank[j] \in Nat
    <3>1. rank[i] \in 1 .. size /\ rank[j] \in 1 .. size
      BY <1>4
    <3> HIDE DEF rank, size
    <3> QED
      BY <3>1
  <2> HIDE DEF rank
  <2>2. ~(i < j) /\ ~(j < i)
    BY <1>5, <1>6, <2>1, <2>3
  <2> QED
    BY <2>1, <2>2
<1> HIDE DEF rank
<1>7. \A n \in 1 .. size : \E i \in kept : rank[i] = n
  <2>1. rank \in [kept -> 1 .. size]
    BY <1>4 DEF rank
  <2>2. rank \in Injection(kept, 1 .. size)
    BY <1>6, <2>1 DEF Injection, IsInjective
  <2>3. IsFiniteSet(1 .. size) /\ Cardinality(1 .. size) = size
    BY <1>2, FS_Interval
  <2>4. rank \in Surjection(kept, 1 .. size)
    <3> QED
      BY <2>2, <2>3, FS_Injection
  <2> QED
    BY <2>4 DEF Surjection
<1>8. \A n \in 1 .. size : at[n] \in kept /\ rank[at[n]] = n
  <2> SUFFICES ASSUME NEW n \in 1 .. size PROVE at[n] \in kept /\ rank[at[n]] = n
    OBVIOUS
  <2>1. PICK i \in kept : rank[i] = n
    BY <1>7
  <2>2. Cardinality(UpTo(i)) = n
    BY <1>4, <2>1
  <2>3. at[n] = CHOOSE k \in kept : Cardinality(UpTo(k)) = n
    OBVIOUS
  <2> HIDE DEF at, UpTo
  <2>4. at[n] \in kept /\ Cardinality(UpTo(at[n])) = n
    BY <2>2, <2>3
  <2> QED
    BY <1>4, <2>4
<1>9. /\ rest \in Seq(S) /\ Len(rest) = size
      /\ \A n \in 1 .. size : rest[n] = list[at[n]]
  <2>1. \A n \in 1 .. size : list[at[n]] \in S
    <3> HIDE DEF at
    <3> QED
      BY <1>1, <1>8
  <2> HIDE DEF at, size
  <2> QED
    BY <1>2, <1>3, <2>1
<1>10. at \in [1 .. size -> 1 .. len]
  <2>1. \A n \in 1 .. size : at[n] \in 1 .. len
    BY <1>1, <1>8
  <2> QED
    BY <2>1
<1> HIDE DEF at
<1>11. ASSUME NEW m \in 1 .. size, NEW n \in 1 .. size, m < n PROVE at[m] < at[n]
  <2>1. at[m] \in kept /\ at[n] \in kept /\ rank[at[m]] = m /\ rank[at[n]] = n
    BY <1>8
  <2>2. at[n] < at[m] => n < m
    <3> QED
      BY <1>5, <2>1
  <2>3. at[m] # at[n]
    BY <1>11, <2>1
  <2>4. at[m] \in Nat /\ at[n] \in Nat /\ m \in Nat /\ n \in Nat
    BY <1>1, <2>1
  <2> QED
    BY <1>11, <2>2, <2>3, <2>4
<1>12. ASSUME NEW i \in kept PROVE \E n \in 1 .. size : at[n] = i
  <2>1. i \in kept
    OBVIOUS
  <2>2. rank[i] \in 1 .. size /\ at[rank[i]] \in kept /\ rank[at[rank[i]]] = rank[i]
    BY <1>4, <1>8, <2>1
  <2>3. at[rank[i]] = i
    <3> QED
      BY <1>6, <2>1, <2>2
  <2> QED
    BY <2>2, <2>3
<1>13. \A n \in 1 .. size : at[n] \in kept
  BY <1>8
<1> HIDE DEF size, len
<1>14. Keeps(list, kept, rest, at)
  BY <1>9, <1>10, <1>11, <1>12, <1>13 DEF Keeps, len
<1> QED
  BY <1>9, <1>14 DEF rest

\* RemoveAll keeps the copies of the other threads.
OthersKept(copies, t, rest, at) ==
    /\ at \in [DOMAIN rest -> DOMAIN copies]
    /\ \A n \in DOMAIN rest : rest[n] = copies[at[n]] /\ copies[at[n]].thread # t
    /\ \A m, n \in DOMAIN rest : m < n => at[m] < at[n]
    /\ \A i \in DOMAIN copies : copies[i].thread # t => \E n \in DOMAIN rest : at[n] = i

LEMMA OthersStay ==
    ASSUME NEW S, NEW copies \in Seq(S), NEW t
    PROVE  /\ RemoveAll(copies, t) \in Seq(S)
           /\ \E at : OthersKept(copies, t, RemoveAll(copies, t), at)
<1> DEFINE kept == {i \in DOMAIN copies : copies[i].thread # t}
<1> PICK rest : rest = RemoveAll(copies, t)
  OBVIOUS
<1>1. rest = InOrder(copies, kept) /\ kept \subseteq DOMAIN copies
  BY DEF RemoveAll
<1> HIDE DEF kept
<1>2. rest \in Seq(S) /\ \E at : Keeps(copies, kept, rest, at)
  BY <1>1, KeptInOrder
<1>3. PICK at : Keeps(copies, kept, rest, at)
  BY <1>2
<1>4. DOMAIN rest = 1 .. Len(rest) /\ DOMAIN copies = 1 .. Len(copies)
  BY <1>2
<1>5. OthersKept(copies, t, rest, at)
  BY <1>3, <1>4 DEF Keeps, OthersKept, kept
<1> QED
  BY <1>2, <1>5

CopiesAmong(copies) == {copies[i] : i \in DOMAIN copies}

Distinct(copies) ==
    \A i, j \in DOMAIN copies : i # j => copies[i].thread # copies[j].thread

LEMMA ListsOfThreads ==
    ASSUME NEW copies \in Seq(Copy)
    PROVE  /\ ThreadsIn(copies) = {copy.thread : copy \in CopiesAmong(copies)}
           /\ CopiesAmong(copies) \subseteq Copy /\ ThreadsIn(copies) \subseteq Threads
           /\ copies = <<>> <=> ThreadsIn(copies) = {}
<1>1. ThreadsIn(copies) = {copy.thread : copy \in CopiesAmong(copies)}
  BY DEF ThreadsIn, CopiesAmong
<1>2. CopiesAmong(copies) \subseteq Copy /\ ThreadsIn(copies) \subseteq Threads
  BY CopiesHaveTimes DEF CopiesAmong, ThreadsIn
<1>3. copies = <<>> <=> ThreadsIn(copies) = {}
  <2>1. copies = <<>> => DOMAIN copies = {}
    OBVIOUS
  <2>2. copies # <<>> => 1 \in DOMAIN copies
    OBVIOUS
  <2> QED
    BY <2>1, <2>2 DEF ThreadsIn
<1> QED
  BY <1>1, <1>2, <1>3

LEMMA DisplayedIsThere ==
    ASSUME NEW copies \in Seq(Copy), copies # <<>>
    PROVE  DisplayedThread(copies) \in ThreadsIn(copies) /\ DisplayedThread(copies) \in Threads
<1>1. Newest(copies) \in DOMAIN copies
  BY NewestExists DEF IsNewest
<1> QED
  BY <1>1, ListsOfThreads DEF DisplayedThread, ThreadsIn

LEMMA RemovedCopies ==
    ASSUME NEW copies \in Seq(Copy), NEW t, NEW rest, rest = RemoveAll(copies, t)
    PROVE  /\ rest \in Seq(Copy)
           /\ CopiesAmong(rest) = {copy \in CopiesAmong(copies) : copy.thread # t}
           /\ ThreadsIn(rest) = ThreadsIn(copies) \ {t}
           /\ Distinct(copies) => Distinct(rest)
           /\ copies # <<>> /\ DisplayedThread(copies) # t =>
                 rest # <<>> /\ DisplayedThread(rest) = DisplayedThread(copies)
<1>1. rest \in Seq(Copy)
  BY OthersStay
<1>2. PICK at : OthersKept(copies, t, rest, at)
  BY OthersStay
<1>3. /\ DOMAIN rest = 1 .. Len(rest) /\ DOMAIN copies = 1 .. Len(copies)
      /\ at \in [DOMAIN rest -> DOMAIN copies]
      /\ \A n \in DOMAIN rest : rest[n] = copies[at[n]] /\ copies[at[n]].thread # t
      /\ \A m, n \in DOMAIN rest : m < n => at[m] < at[n]
      /\ \A i \in DOMAIN copies : copies[i].thread # t => \E n \in DOMAIN rest : at[n] = i
  <2>1. DOMAIN rest = 1 .. Len(rest) /\ DOMAIN copies = 1 .. Len(copies)
    BY <1>1
  <2> QED
    BY <1>2, <2>1 DEF OthersKept
<1>4. CopiesAmong(rest) = {copy \in CopiesAmong(copies) : copy.thread # t}
  <2>1. ASSUME NEW copy \in CopiesAmong(rest)
        PROVE  copy \in CopiesAmong(copies) /\ copy.thread # t
    BY <1>3 DEF CopiesAmong
  <2>2. ASSUME NEW copy \in CopiesAmong(copies), copy.thread # t
        PROVE  copy \in CopiesAmong(rest)
    <3>1. PICK i \in DOMAIN copies : copy = copies[i]
      BY DEF CopiesAmong
    <3>2. PICK n \in DOMAIN rest : at[n] = i
      BY <1>3, <2>2, <3>1
    <3> QED
      BY <1>3, <3>1, <3>2 DEF CopiesAmong
  <2> QED
    BY <2>1, <2>2
<1>5. ThreadsIn(rest) = ThreadsIn(copies) \ {t}
  BY <1>1, <1>4, ListsOfThreads
<1>6. \A m, n \in DOMAIN rest : m # n => at[m] # at[n]
  <2>1. \A m, n \in DOMAIN rest : m # n => m < n \/ n < m
    BY <1>3
  <2>2. \A n \in DOMAIN rest : at[n] \in Nat
    BY <1>3
  <2> QED
    BY <1>3, <2>1, <2>2
<1>7. Distinct(copies) => Distinct(rest)
  BY <1>3, <1>6 DEF Distinct
<1>8. ASSUME copies # <<>>, DisplayedThread(copies) # t
      PROVE  rest # <<>> /\ DisplayedThread(rest) = DisplayedThread(copies)
  <2> DEFINE i == Newest(copies)
  <2>1. IsNewest(copies, i) /\ copies[i].thread = DisplayedThread(copies)
    BY <1>8, NewestExists DEF DisplayedThread
  <2> HIDE DEF i
  <2>2. PICK n \in DOMAIN rest : at[n] = i
    BY <1>3, <1>8, <2>1 DEF IsNewest
  <2>3. IsNewest(rest, n)
    BY <1>3, <2>1, <2>2 DEF IsNewest
  <2>4. Newest(rest) = n
    BY <1>1, <2>3, NewestIsUnique
  <2>5. rest # <<>>
    BY <2>2
  <2> QED
    BY <1>3, <2>1, <2>2, <2>4, <2>5 DEF DisplayedThread
<1> QED
  BY <1>1, <1>4, <1>5, <1>7, <1>8

Extended(copies, copy, longer) == longer = Append(copies, copy)

LEMMA AppendedCopy ==
    ASSUME NEW copies \in Seq(Copy), NEW copy \in Copy, NEW longer, Extended(copies, copy, longer)
    PROVE  /\ longer \in Seq(Copy) /\ longer # <<>>
           /\ CopiesAmong(longer) = CopiesAmong(copies) \cup {copy}
           /\ ThreadsIn(longer) = ThreadsIn(copies) \cup {copy.thread}
           /\ Distinct(copies) /\ copy.thread \notin ThreadsIn(copies) => Distinct(longer)
<1> DEFINE len == Len(copies)
<1>1. /\ len \in Nat /\ DOMAIN copies = 1 .. len
      /\ longer \in Seq(Copy) /\ Len(longer) = len + 1 /\ DOMAIN longer = 1 .. len + 1
      /\ \A i \in 1 .. len : longer[i] = copies[i]
      /\ longer[len + 1] = copy
  BY DEF Extended
<1> HIDE DEF len
<1>2. 1 .. len + 1 = (1 .. len) \cup {len + 1} /\ len + 1 \notin 1 .. len
  BY <1>1
<1>3. longer # <<>>
  BY <1>1
<1>4. CopiesAmong(longer) = CopiesAmong(copies) \cup {copy}
  BY <1>1, <1>2 DEF CopiesAmong
<1>5. ThreadsIn(longer) = ThreadsIn(copies) \cup {copy.thread}
  BY <1>1, <1>4, ListsOfThreads
<1>6. ASSUME Distinct(copies), copy.thread \notin ThreadsIn(copies)
      PROVE  Distinct(longer)
  <2>1. \A i \in 1 .. len : copies[i].thread # copy.thread
    BY <1>1, <1>6 DEF ThreadsIn
  <2> QED
    BY <1>1, <1>2, <1>6, <2>1 DEF Distinct
<1> QED
  BY <1>1, <1>3, <1>4, <1>5, <1>6

-----------------------------------------------------------------------------
(* The two maps: what every operation makes of them                        *)

Caches == [conversations : [Threads -> Seq(Copy) \cup {NoConversation}],
           keys : [Threads -> Threads \cup {NoKey}]]

\* A conversation gets these copies, under the key of its displayed thread; the
\* cleared keys have none, and the threads that are gone are in none.
Regroup(c, cleared, copies, gone) ==
    [conversations |-> [k \in Threads |->
        IF k = DisplayedThread(copies) THEN copies
        ELSE IF k \in cleared THEN NoConversation ELSE c.conversations[k]],
     keys |-> [t \in Threads |->
        IF t \in ThreadsIn(copies) THEN DisplayedThread(copies)
        ELSE IF t \in gone THEN NoKey ELSE c.keys[t]]]

LEMMA CacheTypes ==
    ASSUME NEW c \in Caches, NEW k \in Threads
    PROVE  /\ c.conversations \in [Threads -> Seq(Copy) \cup {NoConversation}]
           /\ c.keys \in [Threads -> Threads \cup {NoKey}]
           /\ c.conversations[k] # NoConversation =>
                 c.conversations[k] \in Seq(Copy) /\ At(c, k) = c.conversations[k]
           /\ c.conversations[k] = NoConversation => At(c, k) = <<>>
           /\ At(c, k) \in Seq(Copy)
<1>1. <<>> \in Seq(Copy)
  OBVIOUS
<1> QED
  BY <1>1 DEF Caches, At

\* A list of copies was put under the key k, for updateDisplayedThread.
Prepared(ready, k, c, cleared, copies, gone) ==
    /\ c \in Caches /\ ready \in Caches /\ k \in Threads /\ k \in cleared
    /\ copies \in Seq(Copy) /\ copies # <<>>
    /\ ready.conversations[k] = copies
    /\ \A l \in Threads \ {k} : ready.conversations[l] =
           IF l \in cleared THEN NoConversation ELSE c.conversations[l]
    /\ \A t \in Threads \ ThreadsIn(copies) : ready.keys[t] =
           IF t \in gone THEN NoKey ELSE c.keys[t]

LEMMA UpdateRegroups ==
    ASSUME NEW c, NEW k, NEW copies, NEW cleared, NEW gone, NEW ready,
           Prepared(ready, k, c, cleared, copies, gone)
    PROVE  UpdateDisplayedThread(ready, k) = Regroup(c, cleared, copies, gone)
<1>0. /\ c \in Caches /\ ready \in Caches /\ k \in Threads /\ k \in cleared
      /\ copies \in Seq(Copy) /\ copies # <<>>
      /\ ready.conversations[k] = copies
      /\ \A l \in Threads \ {k} : ready.conversations[l] =
             IF l \in cleared THEN NoConversation ELSE c.conversations[l]
      /\ \A t \in Threads \ ThreadsIn(copies) : ready.keys[t] =
             IF t \in gone THEN NoKey ELSE c.keys[t]
  BY DEF Prepared
<1> DEFINE shown == DisplayedThread(copies)
           map == [ready.conversations EXCEPT ![k] = NoConversation, ![shown] = copies]
<1>1. shown \in Threads
  BY <1>0, DisplayedIsThere
<1>2. ready.conversations \in [Threads -> Seq(Copy) \cup {NoConversation}]
  BY <1>0, CacheTypes
<1> HIDE DEF shown
<1>3. map = [l \in Threads |-> IF l = shown THEN copies
                              ELSE IF l \in cleared THEN NoConversation ELSE c.conversations[l]]
  BY <1>0, <1>1, <1>2
<1>4. [t \in Threads |-> IF t \in ThreadsIn(copies) THEN shown ELSE ready.keys[t]]
        = [t \in Threads |-> IF t \in ThreadsIn(copies) THEN shown
                             ELSE IF t \in gone THEN NoKey ELSE c.keys[t]]
  BY <1>0
<1>5. UpdateDisplayedThread(ready, k) =
        [conversations |-> map,
         keys |-> [t \in Threads |-> IF t \in ThreadsIn(copies) THEN shown ELSE ready.keys[t]]]
  BY <1>0 DEF UpdateDisplayedThread, shown
<1> HIDE DEF map
<1> QED
  BY <1>3, <1>4, <1>5 DEF Regroup, shown

LEMMA AddAloneRegroups ==
    ASSUME NEW c \in Caches, NEW t \in Threads, NEW time \in Stamps \cup {0},
           NEW new, new = [thread |-> t, time |-> time]
    PROVE  /\ AddAlone(c, t, time) = Regroup(c, {}, <<new>>, {})
           /\ DisplayedThread(<<new>>) = t /\ ThreadsIn(<<new>>) = {t}
<1>1. <<new>> \in Seq(Copy) /\ <<new>> # <<>> /\ new.thread = t /\ new.time = time
  BY DEF Copy
<1>2. DOMAIN <<new>> = {1} /\ <<new>>[1] = new
  OBVIOUS
<1>3. ThreadsIn(<<new>>) = {t}
  BY <1>1, <1>2 DEF ThreadsIn
<1>4. DisplayedThread(<<new>>) = t
  BY <1>1, <1>3, DisplayedIsThere
<1>5. /\ c.conversations \in [Threads -> Seq(Copy) \cup {NoConversation}]
      /\ c.keys \in [Threads -> Threads \cup {NoKey}]
  BY DEF Caches
<1>6. /\ [c.conversations EXCEPT ![t] = <<new>>]
            = [k \in Threads |-> IF k = t THEN <<new>> ELSE c.conversations[k]]
      /\ [c.keys EXCEPT ![t] = t] = [k \in Threads |-> IF k = t THEN t ELSE c.keys[k]]
  BY <1>5
<1>7. Regroup(c, {}, <<new>>, {}) =
        [conversations |-> [k \in Threads |-> IF k = t THEN <<new>> ELSE c.conversations[k]],
         keys |-> [k \in Threads |-> IF k = t THEN t ELSE c.keys[k]]]
  BY <1>3, <1>4 DEF Regroup
<1> QED
  BY <1>3, <1>4, <1>6, <1>7 DEF AddAlone

LEMMA ReplaceRegroups ==
    ASSUME NEW c \in Caches, NEW t \in Threads, NEW time \in Stamps \cup {0},
           c.keys[t] # NoKey, NEW copies, NEW old, old = At(c, c.keys[t]),
           Extended(RemoveAll(old, t), [thread |-> t, time |-> time], copies)
    PROVE  Replace(c, t, time) = Regroup(c, {c.keys[t]}, copies, ThreadsIn(old) \cup {t})
<1> DEFINE k == c.keys[t]
           gone == ThreadsIn(old) \cup {t}
           ready == [conversations |-> [c.conversations EXCEPT ![k] = copies],
                     keys |-> Forget(c.keys, gone)]
<1>1. k \in Threads /\ old \in Seq(Copy)
  BY CacheTypes
<1>2. [thread |-> t, time |-> time] \in Copy
  BY DEF Copy
<1>3. copies \in Seq(Copy) /\ copies # <<>>
  <2>1. RemoveAll(old, t) \in Seq(Copy)
    BY <1>1, RemovedCopies
  <2> QED
    BY <1>2, <2>1, AppendedCopy
<1>4. /\ c.conversations \in [Threads -> Seq(Copy) \cup {NoConversation}]
      /\ c.keys \in [Threads -> Threads \cup {NoKey}]
  BY DEF Caches
<1> HIDE DEF gone, k
<1>5. /\ ready \in Caches /\ ready.conversations[k] = copies
      /\ \A l \in Threads \ {k} : ready.conversations[l] =
             IF l \in {k} THEN NoConversation ELSE c.conversations[l]
      /\ \A x \in Threads : ready.keys[x] = IF x \in gone THEN NoKey ELSE c.keys[x]
  BY <1>1, <1>3, <1>4 DEF Caches, Forget
<1>6. Replace(c, t, time) = UpdateDisplayedThread(ready, k)
  <2>1. Replace(c, t, time) = UpdateDisplayedThread(
            [conversations |-> [c.conversations EXCEPT ![c.keys[t]] =
                 Append(RemoveAll(At(c, c.keys[t]), t), [thread |-> t, time |-> time])],
             keys |-> Forget(c.keys, ThreadsIn(At(c, c.keys[t])) \cup {t})], c.keys[t])
    BY DEF Replace
  <2>2. /\ copies = Append(RemoveAll(At(c, c.keys[t]), t), [thread |-> t, time |-> time])
        /\ gone = ThreadsIn(At(c, c.keys[t])) \cup {t} /\ k = c.keys[t]
    BY Zenon DEF k, gone, Extended
  <2>3. ready = [conversations |-> [c.conversations EXCEPT ![k] = copies],
                 keys |-> Forget(c.keys, gone)]
    OBVIOUS
  <2> HIDE DEF ready
  <2> QED
    BY <2>1, <2>2, <2>3, Zenon
<1> HIDE DEF ready
<1>7. UpdateDisplayedThread(ready, k) = Regroup(c, {k}, copies, gone)
  <2>1. Prepared(ready, k, c, {k}, copies, gone)
    BY <1>1, <1>3, <1>5 DEF Prepared
  <2> QED
    BY <2>1, UpdateRegroups
<1> QED
  BY <1>6, <1>7 DEF k, gone

LEMMA JoinRegroups ==
    ASSUME NEW c \in Caches, NEW t \in Threads, NEW time \in Stamps \cup {0}, Matching(c, t) # {}
    PROVE  \E k \in Threads :
              /\ Matches(t, At(c, k))
              /\ Join(c, t, time) =
                    Regroup(c, {k}, Append(At(c, k), [thread |-> t, time |-> time]),
                            ThreadsIn(At(c, k)))
<1>1. DOMAIN KeyOrder \subseteq Nat /\ \A i \in DOMAIN KeyOrder : KeyOrder[i] \in Threads
  BY CacheAssumption
<1>2. Matching(c, t) \subseteq Nat
  BY <1>1 DEF Matching
<1> DEFINE first == CHOOSE i \in Matching(c, t) : \A j \in Matching(c, t) : i <= j
           k == KeyOrder[first]
           old == At(c, k)
           gone == ThreadsIn(old)
           copies == Append(old, [thread |-> t, time |-> time])
           ready == [conversations |-> [c.conversations EXCEPT ![k] = copies],
                     keys |-> Forget(c.keys, gone)]
<1>3. first \in Matching(c, t)
  <2>1. \E i \in Matching(c, t) : \A j \in Matching(c, t) : i <= j
    BY <1>2, LeastElement, Zenon
  <2> QED
    BY <2>1
<1>4. Join(c, t, time) = UpdateDisplayedThread(ready, k)
  BY DEF Join
<1> HIDE DEF first
<1>5. k \in Threads /\ Matches(t, old)
  BY <1>1, <1>3 DEF Matching
<1> HIDE DEF k
<1>6. old \in Seq(Copy) /\ [thread |-> t, time |-> time] \in Copy
  BY <1>5, CacheTypes DEF Copy
<1> HIDE DEF old
<1>7. copies \in Seq(Copy) /\ copies # <<>>
  <2>1. Extended(old, [thread |-> t, time |-> time], copies)
    BY Zenon DEF Extended
  <2> HIDE DEF copies
  <2> QED
    BY <1>6, <2>1, AppendedCopy
<1>8. /\ c.conversations \in [Threads -> Seq(Copy) \cup {NoConversation}]
      /\ c.keys \in [Threads -> Threads \cup {NoKey}]
  BY DEF Caches
<1> HIDE DEF copies, gone
<1>9. /\ ready \in Caches /\ ready.conversations[k] = copies
      /\ \A l \in Threads \ {k} : ready.conversations[l] =
             IF l \in {k} THEN NoConversation ELSE c.conversations[l]
      /\ \A x \in Threads : ready.keys[x] = IF x \in gone THEN NoKey ELSE c.keys[x]
  BY <1>5, <1>7, <1>8 DEF Caches, Forget
<1> HIDE DEF ready
<1>10. UpdateDisplayedThread(ready, k) = Regroup(c, {k}, copies, gone)
  <2>1. Prepared(ready, k, c, {k}, copies, gone)
    BY <1>5, <1>7, <1>9 DEF Prepared
  <2> QED
    BY <2>1, UpdateRegroups
<1> QED
  BY <1>4, <1>5, <1>10 DEF copies, gone, old

LEMMA DropDoes ==
    ASSUME NEW c \in Caches, NEW t \in Threads
    PROVE  /\ Drop(c, t) \in Caches
           /\ \A k \in Threads : /\ Drop(c, t).conversations[k] =
                                      IF k = t THEN NoConversation ELSE c.conversations[k]
                                 /\ Drop(c, t).keys[k] = IF k = t THEN NoKey ELSE c.keys[k]
<1>1. /\ c.conversations \in [Threads -> Seq(Copy) \cup {NoConversation}]
      /\ c.keys \in [Threads -> Threads \cup {NoKey}]
  BY DEF Caches
<1> QED
  BY <1>1 DEF Drop, Caches

LEMMA FirstThread ==
    ASSUME NEW rest \in Seq(Copy), rest # <<>>
    PROVE  rest[1].thread \in Threads /\ rest[1].thread \in ThreadsIn(rest)
<1>1. 1 \in DOMAIN rest
  OBVIOUS
<1> QED
  BY <1>1, CopiesHaveTimes DEF ThreadsIn

LEMMA RemoveDisplayedRegroups ==
    ASSUME NEW c \in Caches, NEW t \in Threads, c.conversations[t] # NoConversation,
           NEW rest, rest = RemoveAll(c.conversations[t], t)
    PROVE  IF rest = <<>> THEN RemoveDisplayed(c, t) = Drop(c, t)
           ELSE RemoveDisplayed(c, t) = Regroup(c, {t, rest[1].thread}, rest, {t})
<1> DEFINE left == [conversations |-> [c.conversations EXCEPT ![t] = NoConversation],
                    keys |-> Forget(c.keys, ThreadsIn(rest) \cup {t})]
<1>1. /\ c.conversations \in [Threads -> Seq(Copy) \cup {NoConversation}]
      /\ c.keys \in [Threads -> Threads \cup {NoKey}]
  BY DEF Caches
<1>2. rest \in Seq(Copy) /\ ThreadsIn(rest) = ThreadsIn(c.conversations[t]) \ {t}
  BY <1>1, RemovedCopies
<1>3. RemoveDisplayed(c, t) =
        IF rest = <<>> THEN left
        ELSE UpdateDisplayedThread([left EXCEPT !.conversations[rest[1].thread] = rest],
                                   rest[1].thread)
  BY DEF RemoveDisplayed
<1>4. CASE rest = <<>>
  <2>1. ThreadsIn(rest) = {}
    BY <1>2, <1>4, ListsOfThreads
  <2>2. left.keys = [c.keys EXCEPT ![t] = NoKey]
    BY <1>1, <2>1 DEF Forget
  <2> QED
    BY <1>3, <1>4, <2>2 DEF Drop
<1>5. CASE rest # <<>>
  <2> DEFINE k == rest[1].thread
             ready == [left EXCEPT !.conversations[k] = rest]
  <2>1. k \in Threads
    BY <1>2, <1>5, FirstThread
  <2>2. RemoveDisplayed(c, t) = UpdateDisplayedThread(ready, k)
    BY <1>3, <1>5
  <2> HIDE DEF k
  <2>3. /\ left.conversations \in [Threads -> Seq(Copy) \cup {NoConversation}]
        /\ left.keys \in [Threads -> Threads \cup {NoKey}]
        /\ \A l \in Threads : left.conversations[l] =
              IF l = t THEN NoConversation ELSE c.conversations[l]
        /\ \A x \in Threads : left.keys[x] =
              IF x \in ThreadsIn(rest) \cup {t} THEN NoKey ELSE c.keys[x]
    BY <1>1 DEF Forget
  <2>4. ready = [conversations |-> [left.conversations EXCEPT ![k] = rest], keys |-> left.keys]
    OBVIOUS
  <2> HIDE DEF left, ready
  <2>5. Prepared(ready, k, c, {t, k}, rest, {t})
    BY <1>2, <1>5, <2>1, <2>3, <2>4 DEF Prepared, Caches
  <2>6. UpdateDisplayedThread(ready, k) = Regroup(c, {t, k}, rest, {t})
    BY <2>5, UpdateRegroups
  <2> QED
    BY <1>5, <2>2, <2>6 DEF k
<1> QED
  BY <1>4, <1>5

\* The first conversation, in the order of the keys, that holds t.
LEMMA RemoveGroupedRegroups ==
    ASSUME NEW c \in Caches, NEW t \in Threads
    PROVE  \/ /\ \A k \in Threads : t \notin ThreadsIn(At(c, k))
              /\ RemoveGrouped(c, t) = c
           \/ \E holder \in Threads :
                 /\ t \in ThreadsIn(At(c, holder))
                 /\ LET copies == At(c, holder)
                        rest == RemoveAll(copies, t)
                    IN  IF Len(copies) = 1 THEN RemoveGrouped(c, t) = Drop(c, t)
                        ELSE rest # <<>> =>
                                RemoveGrouped(c, t) = Regroup(c, {t, rest[1].thread}, rest, {t})
<1> DEFINE holders == {i \in DOMAIN KeyOrder : t \in ThreadsIn(At(c, KeyOrder[i]))}
           first == CHOOSE i \in holders : \A j \in holders : i <= j
           holder == KeyOrder[first]
           copies == At(c, holder)
           rest == RemoveAll(copies, t)
           k == rest[1].thread
           dropped == Drop(c, t)
           ready == [dropped EXCEPT !.conversations[k] = rest]
<1>1. /\ DOMAIN KeyOrder \subseteq Nat /\ \A i \in DOMAIN KeyOrder : KeyOrder[i] \in Threads
      /\ \A l \in Threads : \E i \in DOMAIN KeyOrder : KeyOrder[i] = l
  BY CacheAssumption
<1>2. RemoveGrouped(c, t) =
        IF holders = {} THEN c ELSE IF Len(copies) = 1 THEN dropped
        ELSE UpdateDisplayedThread(ready, k)
  BY DEF RemoveGrouped
<1>3. CASE holders = {}
  <2>1. \A l \in Threads : t \notin ThreadsIn(At(c, l))
    BY <1>1, <1>3
  <2> QED
    BY <1>2, <1>3, <2>1
<1>4. CASE holders # {}
  <2>1. first \in holders
    <3>1. holders \subseteq Nat
      BY <1>1
    <3>2. \E i \in holders : \A j \in holders : i <= j
      BY <1>4, <3>1, LeastElement, Zenon
    <3> QED
      BY <3>2
  <2>2. holder \in Threads /\ t \in ThreadsIn(copies)
    <3> HIDE DEF first
    <3> QED
      BY <1>1, <2>1
  <2>3. RemoveGrouped(c, t) = IF Len(copies) = 1 THEN dropped ELSE UpdateDisplayedThread(ready, k)
    <3> HIDE DEF holders, first, holder, copies, ready, k, dropped
    <3> QED
      BY <1>2, <1>4
  <2> HIDE DEF first, holder
  <2>4. copies \in Seq(Copy)
    BY <2>2, CacheTypes
  <2> HIDE DEF copies
  <2>5. rest \in Seq(Copy)
    BY <2>4, RemovedCopies
  <2> HIDE DEF rest
  <2>6. ASSUME rest # <<>> PROVE UpdateDisplayedThread(ready, k) = Regroup(c, {t, k}, rest, {t})
    <3>1. k \in Threads
      BY <2>5, <2>6, FirstThread
    <3> HIDE DEF k
    <3>2. /\ dropped.conversations \in [Threads -> Seq(Copy) \cup {NoConversation}]
          /\ dropped.keys \in [Threads -> Threads \cup {NoKey}]
          /\ \A l \in Threads : /\ dropped.conversations[l] =
                                      IF l = t THEN NoConversation ELSE c.conversations[l]
                                /\ dropped.keys[l] = IF l = t THEN NoKey ELSE c.keys[l]
      <4>1. dropped \in Caches
        BY DropDoes
      <4> QED
        BY <4>1, DropDoes DEF Caches
    <3>3. ready = [conversations |-> [dropped.conversations EXCEPT ![k] = rest],
                   keys |-> dropped.keys]
      BY DEF Drop
    <3> HIDE DEF dropped, ready
    <3>4. Prepared(ready, k, c, {t, k}, rest, {t})
      BY <2>5, <2>6, <3>1, <3>2, <3>3 DEF Prepared, Caches
    <3> QED
      BY <3>4, UpdateRegroups
  <2>7. IF Len(copies) = 1 THEN RemoveGrouped(c, t) = Drop(c, t)
        ELSE rest # <<>> => RemoveGrouped(c, t) = Regroup(c, {t, k}, rest, {t})
    <3> HIDE DEF ready
    <3> QED
      BY <2>3, <2>6
  <2> QED
    BY <2>2, <2>7 DEF rest, copies
<1> QED
  BY <1>3, <1>4

-----------------------------------------------------------------------------
(* What stays true of the two maps, torn or not                            *)

Has(c, k) == c.conversations[k] # NoConversation
CopiesOf(c) == UNION {CopiesAmong(At(c, k)) : k \in Threads}
KeysOf(c) == {t \in Threads : c.keys[t] # NoKey}

\* A conversation is shown under its displayed thread.
Shown(c) ==
    \A k \in Threads : Has(c, k) =>
        c.conversations[k] # <<>> /\ DisplayedThread(c.conversations[k]) = k

\* A thread that is not grouped is alone.
Together(ts) == (\E t \in Threads : ts = {t}) \/ ts \subseteq Grouping
Solitary(c) ==
    /\ \A k \in Threads : Has(c, k) => Together(ThreadsIn(c.conversations[k]))
    /\ \A t \in Threads : c.keys[t] # NoKey => c.keys[t] = t \/ {t, c.keys[t]} \subseteq Grouping

\* Threads of one conversation belong together, and to their key.
Alike(c) ==
    /\ \A k \in Threads : Has(c, k) =>
          \A t, u \in ThreadsIn(c.conversations[k]) : SameConversation(t, u)
    /\ \A t \in Threads : c.keys[t] # NoKey => SameConversation(t, c.keys[t])

(* And while no removal of a voice thread has torn a conversation: the two *)
(* maps agree.                                                             *)
Agree(c) ==
    /\ \A t \in Threads : c.keys[t] # NoKey =>
          Has(c, c.keys[t]) /\ t \in ThreadsIn(c.conversations[c.keys[t]])
    /\ \A k \in Threads : Has(c, k) =>
          /\ \A t \in ThreadsIn(c.conversations[k]) : c.keys[t] = k
          /\ Distinct(c.conversations[k])

\* Threads that belong together are in one conversation.
Whole(c) ==
    \A t, u \in KeysOf(c) : SameConversation(t, u) => c.keys[t] = c.keys[u]

Kept(c) == c \in Caches /\ Shown(c) /\ Solitary(c)

LEMMA CacheFacts ==
    ASSUME NEW c, Kept(c), NEW k \in Threads, Has(c, k)
    PROVE  /\ c.conversations[k] \in Seq(Copy) /\ c.conversations[k] # <<>>
           /\ At(c, k) = c.conversations[k]
           /\ k \in ThreadsIn(c.conversations[k]) /\ DisplayedThread(c.conversations[k]) = k
           /\ ThreadsIn(c.conversations[k]) \subseteq Threads
           /\ ThreadsIn(c.conversations[k]) = {k} \/ ThreadsIn(c.conversations[k]) \subseteq Grouping
<1>1. /\ c.conversations[k] \in Seq(Copy) /\ c.conversations[k] # <<>>
      /\ At(c, k) = c.conversations[k] /\ DisplayedThread(c.conversations[k]) = k
  BY CacheTypes DEF Kept, Shown, Has
<1>2. k \in ThreadsIn(c.conversations[k])
  BY <1>1, DisplayedIsThere
<1>3. Together(ThreadsIn(c.conversations[k]))
  BY DEF Kept, Solitary
<1>4. ThreadsIn(c.conversations[k]) = {k} \/ ThreadsIn(c.conversations[k]) \subseteq Grouping
  BY <1>2, <1>3 DEF Together
<1> QED
  BY <1>1, <1>2, <1>4, ListsOfThreads

LEMMA RegroupDoes ==
    ASSUME NEW c \in Caches, NEW cleared, NEW gone, NEW copies \in Seq(Copy), copies # <<>>,
           NEW d, d = Regroup(c, cleared, copies, gone), NEW shown, shown = DisplayedThread(copies)
    PROVE  /\ d \in Caches /\ shown \in Threads /\ shown \in ThreadsIn(copies)
           /\ ThreadsIn(copies) \subseteq Threads
           /\ copies # NoConversation
           /\ \A k \in Threads : d.conversations[k] =
                 IF k = shown THEN copies
                 ELSE IF k \in cleared THEN NoConversation ELSE c.conversations[k]
           /\ \A t \in Threads : d.keys[t] =
                 IF t \in ThreadsIn(copies) THEN shown ELSE IF t \in gone THEN NoKey ELSE c.keys[t]
<1>1. shown \in Threads /\ shown \in ThreadsIn(copies) /\ ThreadsIn(copies) \subseteq Threads
  BY DisplayedIsThere, ListsOfThreads
<1>2. copies # NoConversation
  BY CacheAssumption
<1>3. /\ c.conversations \in [Threads -> Seq(Copy) \cup {NoConversation}]
      /\ c.keys \in [Threads -> Threads \cup {NoKey}]
  BY DEF Caches
<1>4. d \in Caches
  BY <1>1, <1>3 DEF Regroup, Caches
<1> QED
  BY <1>1, <1>2, <1>4 DEF Regroup

LEMMA RegroupKeeps ==
    ASSUME NEW c, Kept(c), NEW cleared, NEW gone, NEW copies \in Seq(Copy), copies # <<>>,
           Together(ThreadsIn(copies)), NEW d, d = Regroup(c, cleared, copies, gone)
    PROVE  Kept(d)
<1> DEFINE shown == DisplayedThread(copies)
<1>1. /\ d \in Caches /\ shown \in Threads /\ shown \in ThreadsIn(copies)
      /\ \A k \in Threads : d.conversations[k] =
            IF k = shown THEN copies
            ELSE IF k \in cleared THEN NoConversation ELSE c.conversations[k]
      /\ \A t \in Threads : d.keys[t] =
            IF t \in ThreadsIn(copies) THEN shown ELSE IF t \in gone THEN NoKey ELSE c.keys[t]
  BY RegroupDoes DEF Kept
<1>2. Shown(c) /\ Solitary(c)
  BY DEF Kept
<1>3. Shown(d)
  BY <1>1, <1>2 DEF Shown, Has
<1>4. Solitary(d)
  <2> HIDE DEF shown
  <2>1. ASSUME NEW k \in Threads, Has(d, k) PROVE Together(ThreadsIn(d.conversations[k]))
    <3>1. d.conversations[k] = copies \/ (Has(c, k) /\ d.conversations[k] = c.conversations[k])
      BY <1>1, <2>1 DEF Has
    <3> QED
      BY <1>2, <3>1 DEF Solitary
  <2>2. ASSUME NEW t \in Threads, d.keys[t] # NoKey
        PROVE  d.keys[t] = t \/ {t, d.keys[t]} \subseteq Grouping
    <3>1. CASE t \in ThreadsIn(copies)
      BY <1>1, <3>1 DEF Together
    <3>2. CASE t \notin ThreadsIn(copies)
      BY <1>1, <1>2, <2>2, <3>2 DEF Solitary
    <3> QED
      BY <3>1, <3>2
  <2> QED
    BY <2>1, <2>2 DEF Solitary
<1> QED
  BY <1>1, <1>3, <1>4 DEF Kept

LEMMA RegroupAlike ==
    ASSUME NEW c, Kept(c), Alike(c), NEW cleared, NEW gone, NEW copies \in Seq(Copy), copies # <<>>,
           \A t, u \in ThreadsIn(copies) : SameConversation(t, u),
           NEW d, d = Regroup(c, cleared, copies, gone)
    PROVE  Alike(d)
<1> DEFINE shown == DisplayedThread(copies)
<1>1. /\ d \in Caches /\ shown \in Threads /\ shown \in ThreadsIn(copies)
      /\ \A k \in Threads : d.conversations[k] =
            IF k = shown THEN copies
            ELSE IF k \in cleared THEN NoConversation ELSE c.conversations[k]
      /\ \A t \in Threads : d.keys[t] =
            IF t \in ThreadsIn(copies) THEN shown ELSE IF t \in gone THEN NoKey ELSE c.keys[t]
  BY RegroupDoes DEF Kept
<1> HIDE DEF shown
<1>2. ASSUME NEW k \in Threads, Has(d, k), NEW t \in ThreadsIn(d.conversations[k]),
             NEW u \in ThreadsIn(d.conversations[k])
      PROVE  SameConversation(t, u)
  <2>1. d.conversations[k] = copies \/ (Has(c, k) /\ d.conversations[k] = c.conversations[k])
    BY <1>1, <1>2 DEF Has
  <2> QED
    BY <2>1 DEF Alike
<1>3. ASSUME NEW t \in Threads, d.keys[t] # NoKey
      PROVE  SameConversation(t, d.keys[t])
  <2>1. CASE t \in ThreadsIn(copies)
    BY <1>1, <2>1
  <2>2. CASE t \notin ThreadsIn(copies)
    BY <1>1, <1>3, <2>2 DEF Alike
  <2> QED
    BY <2>1, <2>2
<1> QED
  BY <1>2, <1>3 DEF Alike

(* The threads of the copies, and those that are gone, leave their old     *)
(* conversations, which disappear; the other conversations stay.           *)
Moves(c, cleared, copies, gone) ==
    \A k \in Threads : Has(c, k) =>
        IF k \in cleared \/ k = DisplayedThread(copies)
        THEN ThreadsIn(c.conversations[k]) \subseteq ThreadsIn(copies) \cup gone
        ELSE ThreadsIn(c.conversations[k]) \cap (ThreadsIn(copies) \cup gone) = {}

Regrouped(c, d, copies, gone) ==
    /\ KeysOf(d) = (KeysOf(c) \ gone) \cup ThreadsIn(copies)
    /\ \A t \in ThreadsIn(copies) : d.keys[t] = DisplayedThread(copies)
    /\ \A t \in Threads \ (ThreadsIn(copies) \cup gone) : d.keys[t] = c.keys[t]
    /\ CopiesOf(d) \subseteq CopiesAmong(copies) \cup
          {copy \in CopiesOf(c) : copy.thread \notin ThreadsIn(copies) \cup gone}

LEMMA RegroupAgrees ==
    ASSUME NEW c, Kept(c), Agree(c), NEW cleared, NEW gone,
           NEW copies \in Seq(Copy), copies # <<>>, Distinct(copies),
           Moves(c, cleared, copies, gone),
           NEW d, d = Regroup(c, cleared, copies, gone)
    PROVE  Agree(d) /\ Regrouped(c, d, copies, gone)
<1> DEFINE shown == DisplayedThread(copies)
           moved == ThreadsIn(copies) \cup gone
<1>1. /\ d \in Caches /\ shown \in Threads /\ shown \in ThreadsIn(copies)
      /\ ThreadsIn(copies) \subseteq Threads /\ copies # NoConversation
      /\ \A k \in Threads : d.conversations[k] =
            IF k = shown THEN copies
            ELSE IF k \in cleared THEN NoConversation ELSE c.conversations[k]
      /\ \A t \in Threads : d.keys[t] =
            IF t \in ThreadsIn(copies) THEN shown ELSE IF t \in gone THEN NoKey ELSE c.keys[t]
  BY RegroupDoes DEF Kept
<1>2. \A k \in Threads : Has(c, k) =>
         IF k \in cleared \/ k = shown
         THEN ThreadsIn(c.conversations[k]) \subseteq moved
         ELSE ThreadsIn(c.conversations[k]) \cap moved = {}
  BY DEF Moves
<1>3. /\ c.keys \in [Threads -> Threads \cup {NoKey}] /\ NoKey \notin Threads
      /\ \A k \in Threads : Has(c, k) => ThreadsIn(c.conversations[k]) \subseteq Threads
  <2>1. \A k \in Threads : Has(c, k) => ThreadsIn(c.conversations[k]) \subseteq Threads
    BY CacheFacts
  <2>2. c.keys \in [Threads -> Threads \cup {NoKey}] /\ NoKey \notin Threads
    BY CacheAssumption DEF Kept, Caches
  <2> QED
    BY <2>1, <2>2
<1> HIDE DEF shown
<1>4. ASSUME NEW t \in Threads, d.keys[t] # NoKey
      PROVE  Has(d, d.keys[t]) /\ t \in ThreadsIn(d.conversations[d.keys[t]])
  <2>1. CASE t \in ThreadsIn(copies)
    BY <1>1, <2>1 DEF Has
  <2>2. CASE t \notin ThreadsIn(copies)
    <3> DEFINE k == c.keys[t]
    <3>1. t \notin gone /\ d.keys[t] = k /\ k # NoKey /\ k \in Threads
      BY <1>1, <1>3, <1>4, <2>2
    <3>2. Has(c, k) /\ t \in ThreadsIn(c.conversations[k])
      BY <3>1 DEF Agree
    <3> HIDE DEF k
    <3>3. k \notin cleared /\ k # shown
      BY <1>2, <2>2, <3>1, <3>2
    <3> QED
      BY <1>1, <3>1, <3>2, <3>3 DEF Has
  <2> QED
    BY <2>1, <2>2
<1>5. ASSUME NEW k \in Threads, Has(d, k)
      PROVE  /\ \A t \in ThreadsIn(d.conversations[k]) : d.keys[t] = k
             /\ Distinct(d.conversations[k])
  <2>1. CASE k = shown
    BY <1>1, <2>1
  <2>2. CASE k # shown
    <3>1. k \notin cleared /\ Has(c, k) /\ d.conversations[k] = c.conversations[k]
      BY <1>1, <1>5, <2>2 DEF Has
    <3>2. ThreadsIn(c.conversations[k]) \cap moved = {}
      BY <1>2, <2>2, <3>1
    <3> QED
      BY <1>1, <1>3, <3>1, <3>2 DEF Agree
  <2> QED
    BY <2>1, <2>2
<1>6. Agree(d)
  BY <1>4, <1>5 DEF Agree
<1>7. KeysOf(d) = (KeysOf(c) \ gone) \cup ThreadsIn(copies)
  BY <1>1, <1>3 DEF KeysOf
<1>8. ASSUME NEW copy \in CopiesOf(d), copy \notin CopiesAmong(copies)
      PROVE  copy \in CopiesOf(c) /\ copy.thread \notin moved
  <2>1. PICK k \in Threads : copy \in CopiesAmong(At(d, k))
    BY DEF CopiesOf
  <2>2. Has(d, k)
    <3>1. CopiesAmong(<<>>) = {}
      BY DEF CopiesAmong
    <3> QED
      BY <2>1, <3>1 DEF At, Has
  <2>3. At(d, k) = d.conversations[k]
    BY <2>2 DEF At, Has
  <2>4. k # shown
    BY <1>1, <1>8, <2>1, <2>3
  <2>5. k \notin cleared /\ Has(c, k) /\ d.conversations[k] = c.conversations[k]
    BY <1>1, <2>2, <2>4 DEF Has
  <2>6. copy \in CopiesAmong(At(c, k)) /\ At(c, k) = c.conversations[k]
    BY <2>1, <2>3, <2>5 DEF At, Has
  <2>7. copy.thread \in ThreadsIn(c.conversations[k])
    BY <2>6 DEF CopiesAmong, ThreadsIn
  <2>8. ThreadsIn(c.conversations[k]) \cap moved = {}
    BY <1>2, <2>4, <2>5
  <2> QED
    BY <2>6, <2>7, <2>8 DEF CopiesOf
<1> QED
  BY <1>1, <1>6, <1>7, <1>8 DEF shown, Regrouped

-----------------------------------------------------------------------------
(* A thread is added                                                       *)

\* compareNormalizedParticipants as the properties want it, which of itself
\* compares numbers only by their last digits.
NumbersMatch ==
    \A t, u, v \in Grouping :
        <<t, u>> \in SameNumbers => /\ <<u, t>> \in SameNumbers
                                    /\ <<u, v>> \in SameNumbers => <<t, v>> \in SameNumbers

LEMMA SameIsEquivalence ==
    ASSUME NumbersMatch, NEW t, NEW u, SameConversation(t, u)
    PROVE  /\ SameConversation(t, t) /\ SameConversation(u, t)
           /\ \A v : SameConversation(u, v) => SameConversation(t, v)
  BY DEF SameConversation, NumbersMatch

\* The keys of threads that do not belong together with t are the same.
Elsewhere(c, d, t) == \A u \in Threads : ~SameConversation(t, u) => d.keys[u] = c.keys[u]

\* What adding the copy new of t has made of c, torn or not.
Added(c, d, t, new) ==
    /\ Kept(d)
    /\ NumbersMatch /\ Alike(c) => Alike(d)
    /\ Agree(c) =>
          /\ Agree(d)
          /\ KeysOf(d) = KeysOf(c) \cup {t}
          /\ CopiesOf(d) \subseteq {new} \cup {copy \in CopiesOf(c) : copy.thread # t}
    /\ NumbersMatch /\ Alike(c) /\ Agree(c) => Elsewhere(c, d, t)
    /\ NumbersMatch /\ Alike(c) /\ Agree(c) /\ Whole(c) => Whole(d)

LEMMA AloneAdds ==
    ASSUME NEW c, Kept(c), NEW t \in Threads, NEW time \in Stamps \cup {0},
           NEW new, new = [thread |-> t, time |-> time],
           t \notin Grouping \/ (c.keys[t] = NoKey /\ Matching(c, t) = {})
    PROVE  Added(c, AddAlone(c, t, time), t, new)
<1> DEFINE copies == <<new>>
           d == AddAlone(c, t, time)
<1>0. /\ d = Regroup(c, {}, copies, {})
      /\ DisplayedThread(copies) = t /\ ThreadsIn(copies) = {t}
  BY AddAloneRegroups DEF Kept
<1>1. /\ copies \in Seq(Copy) /\ copies # <<>> /\ CopiesAmong(copies) = {new}
      /\ Distinct(copies)
  <2>1. new \in Copy /\ DOMAIN copies = {1} /\ copies[1] = new
    BY DEF Copy
  <2> QED
    BY <2>1 DEF CopiesAmong, Distinct
<1> HIDE DEF copies, d
<1>2. Kept(d)
  <2>1. Together(ThreadsIn(copies))
    BY <1>0 DEF Together
  <2> QED
    BY <1>0, <1>1, <2>1, RegroupKeeps
<1>3. Alike(c) => Alike(d)
  <2>1. \A x, y \in ThreadsIn(copies) : SameConversation(x, y)
    BY <1>0 DEF SameConversation
  <2> QED
    BY <1>0, <1>1, <2>1, RegroupAlike
<1>4. ASSUME Agree(c)
      PROVE  /\ Agree(d) /\ KeysOf(d) = KeysOf(c) \cup {t}
             /\ CopiesOf(d) \subseteq {new} \cup {copy \in CopiesOf(c) : copy.thread # t}
             /\ \A x \in Threads \ {t} : d.keys[x] = c.keys[x]
  <2>1. ASSUME NEW k \in Threads, Has(c, k)
        PROVE  IF k \in {} \/ k = DisplayedThread(copies)
               THEN ThreadsIn(c.conversations[k]) \subseteq ThreadsIn(copies) \cup {}
               ELSE ThreadsIn(c.conversations[k]) \cap (ThreadsIn(copies) \cup {}) = {}
    <3>1. k \in ThreadsIn(c.conversations[k])
          /\ (ThreadsIn(c.conversations[k]) = {k} \/ ThreadsIn(c.conversations[k]) \subseteq Grouping)
      BY <2>1, CacheFacts
    <3>2. \A x \in ThreadsIn(c.conversations[k]) : c.keys[x] = k
      BY <1>4, <2>1 DEF Agree
    <3>3. k # NoKey
      BY CacheAssumption
    <3>4. t \in ThreadsIn(c.conversations[k]) => k = t /\ ThreadsIn(c.conversations[k]) = {t}
      BY <3>1, <3>2, <3>3
    <3> QED
      BY <1>0, <3>1, <3>4
  <2>2. Moves(c, {}, copies, {})
    BY <2>1 DEF Moves
  <2>3. /\ Agree(d) /\ KeysOf(d) = (KeysOf(c) \ {}) \cup ThreadsIn(copies)
        /\ \A x \in Threads \ (ThreadsIn(copies) \cup {}) : d.keys[x] = c.keys[x]
        /\ CopiesOf(d) \subseteq CopiesAmong(copies) \cup
              {copy \in CopiesOf(c) : copy.thread \notin ThreadsIn(copies) \cup {}}
    <3>1. Agree(d) /\ Regrouped(c, d, copies, {})
      BY <1>0, <1>1, <1>4, <2>2, RegroupAgrees
    <3> QED
      BY <3>1 DEF Regrouped
  <2> QED
    BY <1>0, <1>1, <2>3
<1>5. ASSUME NumbersMatch, Alike(c), Agree(c), Whole(c)
      PROVE  Whole(d)
  <2>1. /\ KeysOf(d) = KeysOf(c) \cup {t}
        /\ \A x \in Threads \ {t} : d.keys[x] = c.keys[x]
    BY <1>4, <1>5
  <2>2. ASSUME NEW u \in KeysOf(c), u # t, SameConversation(t, u) PROVE FALSE
    <3>1. t \in Grouping /\ u \in Grouping /\ ChatType[t] = ChatType[u] /\ <<t, u>> \in SameNumbers
      BY <2>2 DEF SameConversation
    <3>2. c.keys[u] \in Threads /\ Has(c, c.keys[u])
          /\ u \in ThreadsIn(c.conversations[c.keys[u]])
      <4>1. c.keys[u] \in Threads /\ u \in Threads /\ c.keys[u] # NoKey
        BY CacheTypes DEF KeysOf, Kept
      <4> QED
        BY <1>5, <4>1 DEF Agree
    <3>3. Matches(t, At(c, c.keys[u]))
      BY <3>1, <3>2 DEF Matches, At, Has
    <3>4. PICK i \in DOMAIN KeyOrder : KeyOrder[i] = c.keys[u]
      BY <3>2, CacheAssumption
    <3>5. i \in Matching(c, t)
      BY <3>3, <3>4 DEF Matching
    <3> QED
      BY <3>1, <3>5
  <2>3. \A x, y : SameConversation(x, y) => SameConversation(y, x)
    BY <1>5, SameIsEquivalence
  <2>4. \A x, y \in KeysOf(c) \cup {t} :
            SameConversation(x, y) => x = y \/ (x \in KeysOf(c) \ {t} /\ y \in KeysOf(c) \ {t})
    BY <2>2, <2>3
  <2>5. KeysOf(c) \subseteq Threads
    BY DEF KeysOf
  <2> QED
    BY <1>5, <2>1, <2>4, <2>5 DEF Whole
<1>6. Agree(c) => Elsewhere(c, d, t)
  BY <1>4 DEF Elsewhere, SameConversation
<1> QED
  BY <1>2, <1>3, <1>4, <1>5, <1>6 DEF Added, d

LEMMA ReplaceAdds ==
    ASSUME NEW c, Kept(c), NEW t \in Grouping, NEW time \in Stamps \cup {0},
           NEW new, new = [thread |-> t, time |-> time], c.keys[t] # NoKey
    PROVE  Added(c, Replace(c, t, time), t, new)
<1> DEFINE k == c.keys[t]
           old == At(c, k)
           gone == ThreadsIn(old) \cup {t}
           d == Replace(c, t, time)
<1> PICK rest : rest = RemoveAll(old, t)
  OBVIOUS
<1> PICK copies : Extended(rest, new, copies)
  BY DEF Extended
<1>1. /\ c \in Caches /\ t \in Threads /\ new \in Copy /\ new.thread = t
      /\ k \in Threads /\ old \in Seq(Copy)
  <2>1. c \in Caches /\ t \in Threads
    BY CacheAssumption DEF Kept
  <2> QED
    BY <2>1, CacheTypes DEF Copy
<1>2. d = Regroup(c, {k}, copies, gone)
  <2>1. Extended(RemoveAll(old, t), [thread |-> t, time |-> time], copies)
    BY Zenon
  <2>2. c.keys[t] # NoKey /\ old = At(c, c.keys[t])
    OBVIOUS
  <2> HIDE DEF old, d
  <2>3. Replace(c, t, time) = Regroup(c, {c.keys[t]}, copies, ThreadsIn(old) \cup {t})
    BY <1>1, <2>1, <2>2, ReplaceRegroups
  <2> QED
    BY <2>3 DEF d
<1>3. k = c.keys[t] /\ At(c, k) = old
  OBVIOUS
<1> HIDE DEF k, old, d, gone
<1>4. /\ rest \in Seq(Copy)
      /\ CopiesAmong(rest) = {copy \in CopiesAmong(old) : copy.thread # t}
      /\ ThreadsIn(rest) = ThreadsIn(old) \ {t}
      /\ Distinct(old) => Distinct(rest)
  BY <1>1, RemovedCopies
<1>5. /\ copies \in Seq(Copy) /\ copies # <<>>
      /\ CopiesAmong(copies) = CopiesAmong(rest) \cup {new}
      /\ ThreadsIn(copies) = gone
      /\ Distinct(old) => Distinct(copies)
  <2>1. /\ copies \in Seq(Copy) /\ copies # <<>>
        /\ CopiesAmong(copies) = CopiesAmong(rest) \cup {new}
        /\ ThreadsIn(copies) = ThreadsIn(rest) \cup {new.thread}
        /\ Distinct(rest) /\ new.thread \notin ThreadsIn(rest) => Distinct(copies)
    BY <1>1, <1>4, AppendedCopy
  <2>2. ThreadsIn(copies) = gone
    BY <1>1, <1>4, <2>1 DEF gone
  <2> QED
    BY <1>1, <1>4, <2>1, <2>2
<1>6. gone = {t} \/ (Has(c, k) /\ old = c.conversations[k] /\ k \in ThreadsIn(old))
  <2>1. CASE Has(c, k)
    BY <1>1, <1>3, <2>1, CacheFacts DEF gone
  <2>2. CASE ~Has(c, k)
    BY <1>1, <1>3, <2>2, ListsOfThreads DEF At, Has, gone
  <2> QED
    BY <2>1, <2>2
<1>7. Kept(d)
  <2>1. gone = {t} \/ gone \subseteq Grouping
    <3>1. CASE Has(c, k) /\ old = c.conversations[k] /\ k \in ThreadsIn(old)
      <4>1. k = t \/ k \in Grouping
        BY <1>1, <1>3 DEF Kept, Solitary
      <4>2. ThreadsIn(old) = {k} \/ ThreadsIn(old) \subseteq Grouping
        BY <1>1, <3>1, CacheFacts
      <4> QED
        BY <4>1, <4>2 DEF gone
    <3> QED
      BY <1>6, <3>1
  <2>2. Together(ThreadsIn(copies))
    BY <1>1, <1>5, <2>1 DEF Together
  <2> QED
    BY <1>2, <1>5, <2>2, RegroupKeeps
<1>8. ASSUME NumbersMatch, Alike(c) PROVE Alike(d)
  <2>1. \A x \in gone : SameConversation(x, t)
    <3>1. CASE gone = {t}
      BY <3>1 DEF SameConversation
    <3>2. CASE Has(c, k) /\ old = c.conversations[k] /\ k \in ThreadsIn(old)
      <4>1. \A x \in ThreadsIn(old) : SameConversation(x, k)
        BY <1>1, <1>8, <3>2 DEF Alike
      <4>2. SameConversation(t, k)
        BY <1>1, <1>3, <1>8 DEF Alike
      <4> QED
        BY <1>8, <4>1, <4>2, SameIsEquivalence DEF gone
    <3> QED
      BY <1>6, <3>1, <3>2
  <2>2. \A x, y \in gone : SameConversation(x, y)
    BY <1>8, <2>1, SameIsEquivalence
  <2> QED
    BY <1>2, <1>5, <1>8, <2>2, RegroupAlike
<1>9. ASSUME Agree(c)
      PROVE  /\ Agree(d) /\ KeysOf(d) = KeysOf(c) \cup {t}
             /\ CopiesOf(d) \subseteq {new} \cup {copy \in CopiesOf(c) : copy.thread # t}
             /\ \A x \in KeysOf(c) : d.keys[x] =
                   IF c.keys[x] = k THEN DisplayedThread(copies) ELSE c.keys[x]
  <2>1. /\ Has(c, k) /\ old = c.conversations[k] /\ t \in ThreadsIn(old)
        /\ Distinct(old) /\ \A x \in ThreadsIn(old) : c.keys[x] = k
    <3>1. Has(c, k) /\ t \in ThreadsIn(c.conversations[k])
      BY <1>1, <1>3, <1>9 DEF Agree
    <3>2. old = c.conversations[k]
      BY <1>1, <1>3, <3>1, CacheFacts
    <3> QED
      BY <1>1, <1>9, <3>1, <3>2 DEF Agree
  <2>2. gone = ThreadsIn(old) /\ gone \subseteq Threads /\ k # NoKey
    BY <1>1, <2>1, ListsOfThreads, CacheAssumption DEF gone
  <2>3. \A x \in KeysOf(c) : x \in gone <=> c.keys[x] = k
    BY <1>9, <2>1, <2>2 DEF Agree, KeysOf
  <2>4. ASSUME NEW l \in Threads, Has(c, l)
        PROVE  IF l \in {k} \/ l = DisplayedThread(copies)
               THEN ThreadsIn(c.conversations[l]) \subseteq ThreadsIn(copies) \cup gone
               ELSE ThreadsIn(c.conversations[l]) \cap (ThreadsIn(copies) \cup gone) = {}
    <3>1. l \in ThreadsIn(c.conversations[l]) /\ \A x \in ThreadsIn(c.conversations[l]) : c.keys[x] = l
      BY <1>9, <2>4, CacheFacts DEF Agree
    <3>2. l = DisplayedThread(copies) => l = k
      <4>1. DisplayedThread(copies) \in gone
        BY <1>5, DisplayedIsThere
      <4> QED
        BY <2>1, <2>2, <3>1, <4>1
    <3> QED
      BY <1>5, <2>1, <2>2, <3>1, <3>2
  <2>5. Moves(c, {k}, copies, gone)
    BY <2>4 DEF Moves
  <2>6. /\ Agree(d) /\ KeysOf(d) = (KeysOf(c) \ gone) \cup ThreadsIn(copies)
        /\ \A x \in ThreadsIn(copies) : d.keys[x] = DisplayedThread(copies)
        /\ \A x \in Threads \ (ThreadsIn(copies) \cup gone) : d.keys[x] = c.keys[x]
        /\ CopiesOf(d) \subseteq CopiesAmong(copies) \cup
              {copy \in CopiesOf(c) : copy.thread \notin ThreadsIn(copies) \cup gone}
    <3>1. Distinct(copies)
      BY <1>5, <2>1
    <3>2. Agree(d) /\ Regrouped(c, d, copies, gone)
      BY <1>2, <1>5, <1>9, <2>5, <3>1, RegroupAgrees
    <3> QED
      BY <3>2 DEF Regrouped
  <2>7. gone \subseteq KeysOf(c) /\ t \in gone /\ KeysOf(c) \subseteq Threads
    BY <2>1, <2>2 DEF KeysOf
  <2>8. CopiesAmong(old) \subseteq CopiesOf(c)
    BY <1>1, <1>3 DEF CopiesOf
  <2>9. KeysOf(d) = KeysOf(c) \cup {t}
    BY <1>5, <2>6, <2>7
  <2>10. CopiesOf(d) \subseteq {new} \cup {copy \in CopiesOf(c) : copy.thread # t}
    BY <1>4, <1>5, <2>6, <2>7, <2>8
  <2>11. \A x \in KeysOf(c) : d.keys[x] =
            IF c.keys[x] = k THEN DisplayedThread(copies) ELSE c.keys[x]
    BY <1>5, <2>3, <2>6, <2>7
  <2> QED
    BY <2>6, <2>9, <2>10, <2>11
<1>10. ASSUME NumbersMatch, Alike(c), Agree(c), Whole(c)
       PROVE  Whole(d)
  <2>1. /\ KeysOf(d) = KeysOf(c) \cup {t} /\ t \in KeysOf(c)
        /\ \A x \in KeysOf(c) : d.keys[x] =
              IF c.keys[x] = k THEN DisplayedThread(copies) ELSE c.keys[x]
    BY <1>1, <1>9, <1>10 DEF KeysOf
  <2> QED
    BY <1>10, <2>1 DEF Whole
<1>11. ASSUME NumbersMatch, Alike(c), Agree(c)
       PROVE  Elsewhere(c, d, t)
  <2>1. /\ KeysOf(d) = KeysOf(c) /\ t \in KeysOf(c)
        /\ \A x \in KeysOf(c) : c.keys[x] # k => d.keys[x] = c.keys[x]
    BY <1>1, <1>9, <1>11 DEF KeysOf
  <2>2. ASSUME NEW x \in KeysOf(c), c.keys[x] = k PROVE SameConversation(t, x)
    <3>1. SameConversation(x, k) /\ SameConversation(t, k)
      BY <1>1, <1>3, <1>11, <2>2 DEF Alike, KeysOf
    <3> QED
      BY <1>11, <3>1, SameIsEquivalence
  <2>3. \A x \in Threads \ KeysOf(c) : d.keys[x] = c.keys[x]
    BY <2>1 DEF KeysOf
  <2> QED
    BY <2>1, <2>2, <2>3 DEF Elsewhere
<1> QED
  BY <1>7, <1>8, <1>9, <1>10, <1>11 DEF Added, d

LEMMA JoinAdds ==
    ASSUME NEW c, Kept(c), NEW t \in Grouping, NEW time \in Stamps \cup {0},
           NEW new, new = [thread |-> t, time |-> time],
           c.keys[t] = NoKey, Matching(c, t) # {}
    PROVE  Added(c, Join(c, t, time), t, new)
<1> DEFINE d == Join(c, t, time)
<1>1. c \in Caches /\ t \in Threads /\ new \in Copy /\ new.thread = t
  BY CacheAssumption DEF Kept, Copy
<1>2. PICK k \in Threads : /\ Matches(t, At(c, k))
                           /\ d = Regroup(c, {k}, Append(At(c, k), new), ThreadsIn(At(c, k)))
  BY <1>1, JoinRegroups
<1> DEFINE old == At(c, k)
           gone == ThreadsIn(old)
<1> PICK copies : Extended(old, new, copies)
  BY DEF Extended
<1>3. d = Regroup(c, {k}, copies, gone)
  BY <1>2, Zenon DEF Extended
<1> HIDE DEF d
<1>4. PICK u \in gone : u \in Grouping /\ ChatType[t] = ChatType[u] /\ <<t, u>> \in SameNumbers
  BY <1>2 DEF Matches
<1>5. Has(c, k) /\ old \in Seq(Copy)
  <2>1. At(c, k) \in Seq(Copy) /\ (c.conversations[k] = NoConversation => At(c, k) = <<>>)
    BY <1>1, CacheTypes
  <2>2. At(c, k) # <<>>
    BY <1>4, <2>1, ListsOfThreads
  <2> QED
    BY <2>1, <2>2 DEF Has
<1>6. /\ old = c.conversations[k] /\ k \in gone /\ gone \subseteq Threads
      /\ gone = {k} \/ gone \subseteq Grouping
  BY <1>5, CacheFacts
<1> HIDE DEF old
<1>7. /\ copies \in Seq(Copy) /\ copies # <<>>
      /\ CopiesAmong(copies) = CopiesAmong(old) \cup {new}
      /\ ThreadsIn(copies) = gone \cup {t}
      /\ Distinct(old) /\ t \notin gone => Distinct(copies)
  <2>1. /\ copies \in Seq(Copy) /\ copies # <<>>
        /\ CopiesAmong(copies) = CopiesAmong(old) \cup {new}
        /\ ThreadsIn(copies) = ThreadsIn(old) \cup {new.thread}
        /\ Distinct(old) /\ new.thread \notin ThreadsIn(old) => Distinct(copies)
    BY <1>1, <1>5, AppendedCopy
  <2> QED
    BY <1>1, <2>1
<1>8. Kept(d)
  <2>1. Together(ThreadsIn(copies))
    BY <1>4, <1>6, <1>7 DEF Together
  <2> QED
    BY <1>3, <1>7, <2>1, RegroupKeeps
<1>9. ASSUME NumbersMatch, Alike(c) PROVE Alike(d)
  <2>1. SameConversation(t, u)
    BY <1>4 DEF SameConversation
  <2>2. \A x \in gone : SameConversation(x, u)
    BY <1>5, <1>6, <1>9 DEF Alike
  <2>3. \A x \in gone \cup {t} : SameConversation(x, u)
    BY <2>1, <2>2
  <2>4. \A x, y \in gone \cup {t} : SameConversation(x, y)
    BY <1>9, <2>3, SameIsEquivalence
  <2> QED
    BY <1>3, <1>7, <1>9, <2>4, RegroupAlike
<1>10. ASSUME Agree(c)
       PROVE  /\ Agree(d) /\ KeysOf(d) = KeysOf(c) \cup {t}
              /\ CopiesOf(d) \subseteq {new} \cup {copy \in CopiesOf(c) : copy.thread # t}
              /\ d.keys[t] = DisplayedThread(copies) /\ u \in KeysOf(c) /\ c.keys[u] = k
              /\ \A x \in KeysOf(c) : d.keys[x] =
                    IF c.keys[x] = k THEN DisplayedThread(copies) ELSE c.keys[x]
  <2>1. Distinct(old) /\ \A x \in gone : c.keys[x] = k
    BY <1>5, <1>6, <1>10 DEF Agree
  <2>2. k # NoKey
    BY CacheAssumption
  <2>3. t \notin gone
    BY <2>1, <2>2
  <2>4. \A x \in KeysOf(c) : x \in gone <=> c.keys[x] = k
    BY <1>5, <1>6, <1>10, <2>1 DEF Agree, KeysOf
  <2>5. ASSUME NEW l \in Threads, Has(c, l)
        PROVE  IF l \in {k} \/ l = DisplayedThread(copies)
               THEN ThreadsIn(c.conversations[l]) \subseteq ThreadsIn(copies) \cup gone
               ELSE ThreadsIn(c.conversations[l]) \cap (ThreadsIn(copies) \cup gone) = {}
    <3>1. /\ l \in ThreadsIn(c.conversations[l])
          /\ \A x \in ThreadsIn(c.conversations[l]) : c.keys[x] = l
      BY <1>10, <2>5, CacheFacts DEF Agree
    <3>2. l # NoKey
      BY CacheAssumption
    <3>3. l = DisplayedThread(copies) => l = k
      <4>1. DisplayedThread(copies) \in gone \cup {t}
        BY <1>7, DisplayedIsThere
      <4> QED
        BY <2>1, <3>1, <3>2, <4>1
    <3> QED
      BY <1>6, <1>7, <2>1, <3>1, <3>2, <3>3
  <2>6. Moves(c, {k}, copies, gone)
    BY <2>5 DEF Moves
  <2>7. /\ Agree(d) /\ KeysOf(d) = (KeysOf(c) \ gone) \cup ThreadsIn(copies)
        /\ \A x \in ThreadsIn(copies) : d.keys[x] = DisplayedThread(copies)
        /\ \A x \in Threads \ (ThreadsIn(copies) \cup gone) : d.keys[x] = c.keys[x]
        /\ CopiesOf(d) \subseteq CopiesAmong(copies) \cup
              {copy \in CopiesOf(c) : copy.thread \notin ThreadsIn(copies) \cup gone}
    <3>1. Distinct(copies)
      BY <1>7, <2>1, <2>3
    <3>2. Agree(d) /\ Regrouped(c, d, copies, gone)
      BY <1>3, <1>7, <1>10, <2>6, <3>1, RegroupAgrees
    <3> QED
      BY <3>2 DEF Regrouped
  <2>8. gone \subseteq KeysOf(c) /\ KeysOf(c) \subseteq Threads /\ t \notin KeysOf(c)
    BY <1>6, <2>1, <2>2 DEF KeysOf
  <2>9. \A copy \in CopiesAmong(old) : copy \in CopiesOf(c) /\ copy.thread # t
    <3>1. \A copy \in CopiesAmong(old) : copy.thread \in gone
      BY DEF CopiesAmong, ThreadsIn
    <3> QED
      BY <2>3, <3>1 DEF CopiesOf, old
  <2>10. KeysOf(d) = KeysOf(c) \cup {t}
    BY <1>7, <2>7, <2>8
  <2>11. CopiesOf(d) \subseteq {new} \cup {copy \in CopiesOf(c) : copy.thread # t}
    BY <1>7, <2>7, <2>9
  <2>12. \A x \in KeysOf(c) : d.keys[x] =
            IF c.keys[x] = k THEN DisplayedThread(copies) ELSE c.keys[x]
    BY <1>7, <2>4, <2>7, <2>8
  <2> QED
    BY <1>4, <1>7, <2>1, <2>7, <2>8, <2>10, <2>11, <2>12
<1>11. ASSUME NumbersMatch, Alike(c), Agree(c), Whole(c)
       PROVE  Whole(d)
  <2>1. /\ KeysOf(d) = KeysOf(c) \cup {t} /\ t \notin KeysOf(c)
        /\ d.keys[t] = DisplayedThread(copies) /\ u \in KeysOf(c) /\ c.keys[u] = k
        /\ \A x \in KeysOf(c) : d.keys[x] =
              IF c.keys[x] = k THEN DisplayedThread(copies) ELSE c.keys[x]
    BY <1>10, <1>11 DEF KeysOf
  <2>2. SameConversation(t, u)
    BY <1>4 DEF SameConversation
  <2>3. ASSUME NEW x \in KeysOf(c), SameConversation(t, x) \/ SameConversation(x, t)
        PROVE  d.keys[x] = DisplayedThread(copies)
    <3>1. SameConversation(u, x)
      BY <1>11, <2>2, <2>3, SameIsEquivalence
    <3>2. c.keys[x] = k
      BY <1>11, <2>1, <3>1 DEF Whole
    <3> QED
      BY <2>1, <3>2
  <2> QED
    BY <1>11, <2>1, <2>3 DEF Whole
<1>12. ASSUME NumbersMatch, Alike(c), Agree(c)
       PROVE  Elsewhere(c, d, t)
  <2>1. /\ KeysOf(d) = KeysOf(c) \cup {t} /\ c.keys[u] = k /\ u \in KeysOf(c)
        /\ \A x \in KeysOf(c) : c.keys[x] # k => d.keys[x] = c.keys[x]
    BY <1>10, <1>12
  <2>2. SameConversation(t, u)
    BY <1>4 DEF SameConversation
  <2>3. ASSUME NEW x \in KeysOf(c), c.keys[x] = k PROVE SameConversation(t, x)
    <3>1. SameConversation(x, k) /\ SameConversation(u, k)
      BY <1>12, <2>1, <2>3 DEF Alike, KeysOf
    <3> QED
      BY <1>12, <2>2, <3>1, SameIsEquivalence
  <2>4. \A x \in Threads \ (KeysOf(c) \cup {t}) : d.keys[x] = c.keys[x]
    BY <2>1 DEF KeysOf
  <2>5. SameConversation(t, t)
    BY DEF SameConversation
  <2> QED
    BY <2>1, <2>3, <2>4, <2>5 DEF Elsewhere
<1> QED
  BY <1>8, <1>9, <1>10, <1>11, <1>12 DEF Added, d

LEMMA AddAdds ==
    ASSUME NEW c, Kept(c), NEW t \in Threads, NEW time \in Stamps \cup {0}
    PROVE  Added(c, Add(c, t, time), t, [thread |-> t, time |-> time])
  BY AloneAdds, ReplaceAdds, JoinAdds DEF Add

-----------------------------------------------------------------------------
(* A thread is removed                                                     *)

\* What removing t has made of c, torn or not.
Removed(c, d, t) ==
    /\ Kept(d)
    /\ Alike(c) => Alike(d)
    /\ Agree(c) =>
          /\ Agree(d)
          /\ KeysOf(d) = KeysOf(c) \ {t}
          /\ CopiesOf(d) \subseteq {copy \in CopiesOf(c) : copy.thread # t}
    /\ Alike(c) /\ Agree(c) => Elsewhere(c, d, t)
    /\ Agree(c) /\ Whole(c) => Whole(d)

LEMMA DropKeeps ==
    ASSUME NEW c, Kept(c), NEW t \in Threads, NEW d, d = Drop(c, t)
    PROVE  Kept(d) /\ (Alike(c) => Alike(d))
<1>1. /\ d \in Caches
      /\ \A k \in Threads : /\ d.conversations[k] =
                                 IF k = t THEN NoConversation ELSE c.conversations[k]
                            /\ d.keys[k] = IF k = t THEN NoKey ELSE c.keys[k]
  BY DropDoes DEF Kept
<1>2. \A k \in Threads : /\ Has(d, k) => Has(c, k) /\ d.conversations[k] = c.conversations[k]
                         /\ d.keys[k] # NoKey => c.keys[k] # NoKey /\ d.keys[k] = c.keys[k]
  BY <1>1 DEF Has
<1>3. Shown(c) /\ Solitary(c)
  BY DEF Kept
<1>4. Shown(d)
  BY <1>2, <1>3 DEF Shown
<1>5. Solitary(d)
  BY <1>2, <1>3 DEF Solitary
<1>6. Alike(c) => Alike(d)
  BY <1>2 DEF Alike
<1> QED
  BY <1>1, <1>4, <1>5, <1>6 DEF Kept

LEMMA DropRemoves ==
    ASSUME NEW c, Kept(c), NEW t \in Threads, NEW d, d = Drop(c, t),
           Has(c, t) => ThreadsIn(c.conversations[t]) = {t},
           Agree(c) => c.keys[t] = t \/ c.keys[t] = NoKey
    PROVE  Removed(c, d, t)
<1>1. /\ d \in Caches
      /\ \A k \in Threads : /\ d.conversations[k] =
                                 IF k = t THEN NoConversation ELSE c.conversations[k]
                            /\ d.keys[k] = IF k = t THEN NoKey ELSE c.keys[k]
  BY DropDoes DEF Kept
<1>2. \A k \in Threads : /\ Has(d, k) <=> Has(c, k) /\ k # t
                         /\ Has(d, k) => d.conversations[k] = c.conversations[k]
  BY <1>1 DEF Has
<1>3. /\ c.keys \in [Threads -> Threads \cup {NoKey}] /\ NoKey \notin Threads
      /\ \A k \in Threads : Has(c, k) => ThreadsIn(c.conversations[k]) \subseteq Threads
  <2>1. \A k \in Threads : Has(c, k) => ThreadsIn(c.conversations[k]) \subseteq Threads
    BY CacheFacts
  <2>2. c.keys \in [Threads -> Threads \cup {NoKey}] /\ NoKey \notin Threads
    BY CacheAssumption DEF Kept, Caches
  <2> QED
    BY <2>1, <2>2
<1>4. KeysOf(d) = KeysOf(c) \ {t}
  BY <1>1 DEF KeysOf
<1>5. ASSUME Agree(c)
      PROVE  Agree(d) /\ CopiesOf(d) \subseteq {copy \in CopiesOf(c) : copy.thread # t}
  <2>1. ASSUME NEW k \in Threads, Has(d, k)
        PROVE  /\ k # t /\ Has(c, k) /\ d.conversations[k] = c.conversations[k]
               /\ \A x \in ThreadsIn(d.conversations[k]) : x \in Threads \ {t} /\ c.keys[x] = k
               /\ Distinct(d.conversations[k])
    <3>1. k # t /\ Has(c, k) /\ d.conversations[k] = c.conversations[k]
      BY <1>2, <2>1
    <3>2. /\ \A x \in ThreadsIn(c.conversations[k]) : x \in Threads /\ c.keys[x] = k
          /\ Distinct(c.conversations[k])
      BY <1>3, <1>5, <3>1 DEF Agree
    <3> QED
      BY <1>3, <1>5, <3>1, <3>2
  <2>2. ASSUME NEW x \in Threads, d.keys[x] # NoKey
        PROVE  Has(d, d.keys[x]) /\ x \in ThreadsIn(d.conversations[d.keys[x]])
    <3>1. x # t /\ c.keys[x] # NoKey /\ d.keys[x] = c.keys[x] /\ c.keys[x] \in Threads
      BY <1>1, <1>3, <2>2
    <3>2. Has(c, c.keys[x]) /\ x \in ThreadsIn(c.conversations[c.keys[x]])
      BY <1>5, <3>1 DEF Agree
    <3> QED
      BY <1>2, <3>1, <3>2
  <2>3. Agree(d)
    BY <1>1, <2>1, <2>2 DEF Agree
  <2>4. ASSUME NEW copy \in CopiesOf(d) PROVE copy \in CopiesOf(c) /\ copy.thread # t
    <3>1. PICK k \in Threads : copy \in CopiesAmong(At(d, k))
      BY <2>4 DEF CopiesOf
    <3>2. Has(d, k)
      <4>1. CopiesAmong(<<>>) = {}
        BY DEF CopiesAmong
      <4> QED
        BY <3>1, <4>1 DEF At, Has
    <3>3. At(d, k) = d.conversations[k] /\ At(c, k) = d.conversations[k]
      BY <2>1, <3>2 DEF At, Has
    <3>4. copy.thread \in ThreadsIn(d.conversations[k])
      BY <3>1, <3>3 DEF CopiesAmong, ThreadsIn
    <3> QED
      BY <2>1, <3>1, <3>2, <3>3, <3>4 DEF CopiesOf
  <2> QED
    BY <2>3, <2>4
<1>6. Whole(c) => Whole(d)
  BY <1>1, <1>4 DEF Whole, KeysOf
<1>7. Elsewhere(c, d, t)
  BY <1>1 DEF Elsewhere, SameConversation
<1> QED
  BY <1>4, <1>5, <1>6, <1>7, DropKeeps DEF Removed

\* The other copies of a conversation, t's left out, are a conversation.
LEMMA RestRemoves ==
    ASSUME NEW c, Kept(c), NEW t \in Threads, NEW holder \in Threads, Has(c, holder),
           t \in ThreadsIn(c.conversations[holder]),
           NEW rest, rest = RemoveAll(c.conversations[holder], t), rest # <<>>,
           t = holder \/ ~Has(c, t),
           NEW next \in ThreadsIn(rest), NEW d, d = Regroup(c, {t, next}, rest, {t})
    PROVE  Removed(c, d, t)
<1> PICK old : old = c.conversations[holder]
  OBVIOUS
<1>1. /\ old \in Seq(Copy) /\ holder \in ThreadsIn(old)
      /\ ThreadsIn(old) \subseteq Threads
      /\ ThreadsIn(old) = {holder} \/ ThreadsIn(old) \subseteq Grouping
  BY CacheFacts
<1>2. /\ rest \in Seq(Copy) /\ CopiesAmong(rest) = {copy \in CopiesAmong(old) : copy.thread # t}
      /\ ThreadsIn(rest) = ThreadsIn(old) \ {t}
      /\ Distinct(old) => Distinct(rest)
  BY <1>1, RemovedCopies
<1>3. Kept(d)
  <2>1. Together(ThreadsIn(rest))
    <3>1. ThreadsIn(old) \subseteq Grouping \/ ThreadsIn(rest) = {holder}
      BY <1>1, <1>2
    <3> QED
      BY <1>2, <3>1 DEF Together
  <2> QED
    BY <1>2, <2>1, RegroupKeeps
<1>4. ASSUME Alike(c) PROVE Alike(d)
  <2>1. \A x, y \in ThreadsIn(rest) : SameConversation(x, y)
    BY <1>2, <1>4 DEF Alike
  <2> QED
    BY <1>2, <1>4, <2>1, RegroupAlike
<1>5. ASSUME Agree(c)
      PROVE  /\ Agree(d) /\ KeysOf(d) = KeysOf(c) \ {t}
             /\ CopiesOf(d) \subseteq {copy \in CopiesOf(c) : copy.thread # t}
             /\ \A x \in KeysOf(c) \ {t} : d.keys[x] =
                   IF c.keys[x] = holder THEN DisplayedThread(rest) ELSE c.keys[x]
  <2>1. Distinct(old) /\ \A x \in ThreadsIn(old) : c.keys[x] = holder
    BY <1>5 DEF Agree
  <2>2. holder # NoKey
    BY CacheAssumption
  <2>3. \A x \in KeysOf(c) : x \in ThreadsIn(old) <=> c.keys[x] = holder
    BY <1>5, <2>1 DEF Agree, KeysOf
  <2>4. DisplayedThread(rest) \in ThreadsIn(rest)
    BY <1>2, DisplayedIsThere
  <2>5. ASSUME NEW l \in Threads, Has(c, l)
        PROVE  IF l \in {t, next} \/ l = DisplayedThread(rest)
               THEN ThreadsIn(c.conversations[l]) \subseteq ThreadsIn(rest) \cup {t}
               ELSE ThreadsIn(c.conversations[l]) \cap (ThreadsIn(rest) \cup {t}) = {}
    <3>1. /\ l \in ThreadsIn(c.conversations[l])
          /\ \A x \in ThreadsIn(c.conversations[l]) : c.keys[x] = l
      BY <1>5, <2>5, CacheFacts DEF Agree
    <3>2. l \in ThreadsIn(old) => l = holder
      BY <2>1, <3>1
    <3>3. l = t => l = holder
      BY <2>5
    <3>4. ThreadsIn(rest) \cup {t} = ThreadsIn(old)
      BY <1>2
    <3>5. CASE l = holder
      <4>1. l \in {t, next} \/ l = DisplayedThread(rest)
            \/ ThreadsIn(c.conversations[l]) = ThreadsIn(old)
        BY <3>5
      <4>2. holder # t => DisplayedThread(rest) = holder
        <5>1. old # <<>> /\ DisplayedThread(old) = holder
          BY CacheFacts
        <5> QED
          BY <1>1, <5>1, RemovedCopies
      <4> QED
        BY <3>4, <3>5, <4>2
    <3>6. CASE l # holder
      <4>1. l \notin {t, next} /\ l # DisplayedThread(rest)
        BY <1>2, <2>4, <3>2, <3>3, <3>6
      <4>2. ThreadsIn(c.conversations[l]) \cap ThreadsIn(old) = {}
        BY <2>1, <3>1, <3>6
      <4> QED
        BY <3>4, <4>1, <4>2
    <3> QED
      BY <3>5, <3>6
  <2>6. Moves(c, {t, next}, rest, {t})
    BY <2>5 DEF Moves
  <2>7. /\ Agree(d) /\ KeysOf(d) = (KeysOf(c) \ {t}) \cup ThreadsIn(rest)
        /\ \A x \in ThreadsIn(rest) : d.keys[x] = DisplayedThread(rest)
        /\ \A x \in Threads \ (ThreadsIn(rest) \cup {t}) : d.keys[x] = c.keys[x]
        /\ CopiesOf(d) \subseteq CopiesAmong(rest) \cup
              {copy \in CopiesOf(c) : copy.thread \notin ThreadsIn(rest) \cup {t}}
    <3>1. Distinct(rest)
      BY <1>2, <2>1
    <3>2. Agree(d) /\ Regrouped(c, d, rest, {t})
      BY <1>2, <1>5, <2>6, <3>1, RegroupAgrees
    <3> QED
      BY <3>2 DEF Regrouped
  <2>8. ThreadsIn(old) \subseteq KeysOf(c) /\ KeysOf(c) \subseteq Threads
    BY <1>1, <2>1, <2>2 DEF KeysOf
  <2>9. CopiesAmong(old) \subseteq CopiesOf(c)
    <3>1. At(c, holder) = old
      BY DEF At, Has
    <3> QED
      BY <3>1 DEF CopiesOf
  <2>10. KeysOf(d) = KeysOf(c) \ {t}
    BY <1>2, <2>7, <2>8
  <2>11. CopiesOf(d) \subseteq {copy \in CopiesOf(c) : copy.thread # t}
    BY <1>2, <2>7, <2>9
  <2>12. \A x \in KeysOf(c) \ {t} : d.keys[x] =
            IF c.keys[x] = holder THEN DisplayedThread(rest) ELSE c.keys[x]
    BY <1>2, <2>3, <2>7, <2>8
  <2> QED
    BY <2>7, <2>10, <2>11, <2>12
<1>6. ASSUME Agree(c), Whole(c) PROVE Whole(d)
  <2>1. /\ KeysOf(d) = KeysOf(c) \ {t}
        /\ \A x \in KeysOf(c) \ {t} : d.keys[x] =
              IF c.keys[x] = holder THEN DisplayedThread(rest) ELSE c.keys[x]
    BY <1>5, <1>6
  <2>2. ASSUME NEW x \in KeysOf(d), NEW y \in KeysOf(d), SameConversation(x, y)
        PROVE  d.keys[x] = d.keys[y]
    <3>1. x \in KeysOf(c) \ {t} /\ y \in KeysOf(c) \ {t}
      BY <2>1, <2>2
    <3>2. c.keys[x] = c.keys[y]
      BY <1>6, <2>2, <3>1 DEF Whole
    <3> QED
      BY <2>1, <3>1, <3>2
  <2> QED
    BY <2>2 DEF Whole
<1>7. ASSUME Alike(c), Agree(c) PROVE Elsewhere(c, d, t)
  <2>1. /\ KeysOf(d) = KeysOf(c) \ {t}
        /\ \A x \in KeysOf(c) \ {t} : c.keys[x] # holder => d.keys[x] = c.keys[x]
    BY <1>5, <1>7
  <2>2. ASSUME NEW x \in KeysOf(c), c.keys[x] = holder PROVE SameConversation(t, x)
    <3>1. x \in ThreadsIn(c.conversations[holder])
      BY <1>7, <2>2 DEF Agree, KeysOf
    <3> QED
      BY <1>7, <3>1 DEF Alike
  <2>3. \A x \in Threads \ KeysOf(c) : d.keys[x] = c.keys[x]
    BY <2>1 DEF KeysOf
  <2>4. SameConversation(t, t)
    BY DEF SameConversation
  <2> QED
    BY <2>1, <2>2, <2>3, <2>4 DEF Elsewhere
<1> QED
  BY <1>3, <1>4, <1>5, <1>6, <1>7 DEF Removed

LEMMA RemoveRemoves ==
    ASSUME NEW c, Kept(c), NEW t \in Threads
    PROVE  Removed(c, RemoveCached(c, t), t)
<1>1. CASE t \notin Grouping
  <2>1. Has(c, t) => ThreadsIn(c.conversations[t]) = {t}
    BY <1>1, CacheFacts
  <2>2. c.keys[t] = t \/ c.keys[t] = NoKey
    BY <1>1 DEF Kept, Solitary
  <2> QED
    BY <1>1, <2>1, <2>2, DropRemoves DEF RemoveCached
<1>2. CASE t \in Grouping /\ Has(c, t)
  <2>1. c \in Caches /\ c.conversations[t] # NoConversation
    BY <1>2 DEF Kept, Has
  <2>2. PICK rest : rest = RemoveAll(c.conversations[t], t)
    OBVIOUS
  <2>3. /\ RemoveCached(c, t) = RemoveDisplayed(c, t)
        /\ c.conversations[t] \in Seq(Copy) /\ t \in ThreadsIn(c.conversations[t])
    BY <1>2, <2>1, CacheFacts DEF RemoveCached
  <2>4. rest \in Seq(Copy) /\ ThreadsIn(rest) = ThreadsIn(c.conversations[t]) \ {t}
    BY <2>2, <2>3, RemovedCopies
  <2>5. IF rest = <<>> THEN RemoveDisplayed(c, t) = Drop(c, t)
        ELSE RemoveDisplayed(c, t) = Regroup(c, {t, rest[1].thread}, rest, {t})
    BY <2>1, <2>2, RemoveDisplayedRegroups
  <2>6. CASE rest = <<>>
    <3>1. ThreadsIn(c.conversations[t]) = {t}
      BY <2>3, <2>4, <2>6, ListsOfThreads
    <3>2. Agree(c) => c.keys[t] = t
      BY <1>2, <2>3 DEF Agree
    <3> QED
      BY <2>3, <2>5, <2>6, <3>1, <3>2, DropRemoves
  <2>7. CASE rest # <<>>
    <3>1. PICK next : next = rest[1].thread
      OBVIOUS
    <3>2. next \in ThreadsIn(rest)
      BY <2>4, <2>7, <3>1, FirstThread
    <3>3. RemoveCached(c, t) = Regroup(c, {t, next}, rest, {t})
      BY <2>3, <2>5, <2>7, <3>1
    <3> QED
      BY <1>2, <2>2, <2>3, <2>7, <3>2, <3>3, RestRemoves
  <2> QED
    BY <2>6, <2>7
<1>3. CASE t \in Grouping /\ ~Has(c, t)
  <2>1. c \in Caches /\ RemoveCached(c, t) = RemoveGrouped(c, t)
    BY <1>3 DEF Kept, RemoveCached, Has
  <2>2. CASE (\A k \in Threads : t \notin ThreadsIn(At(c, k))) /\ RemoveGrouped(c, t) = c
    <3>1. ASSUME Agree(c) PROVE c.keys[t] = NoKey
      <4>1. c.keys[t] # NoKey => c.keys[t] \in Threads
        BY <2>1, CacheTypes
      <4>2. c.keys[t] # NoKey => /\ Has(c, c.keys[t])
                                 /\ t \in ThreadsIn(c.conversations[c.keys[t]])
        BY <3>1 DEF Agree
      <4> QED
        BY <2>2, <4>1, <4>2 DEF At, Has
    <3>2. \A copy \in CopiesOf(c) : copy.thread # t
      BY <2>2 DEF CopiesOf, CopiesAmong, ThreadsIn
    <3> QED
      BY <2>1, <2>2, <3>1, <3>2 DEF Removed, KeysOf, Elsewhere
  <2>3. CASE \E holder \in Threads :
                /\ t \in ThreadsIn(At(c, holder))
                /\ LET copies == At(c, holder)
                       rest == RemoveAll(copies, t)
                   IN  IF Len(copies) = 1 THEN RemoveGrouped(c, t) = Drop(c, t)
                       ELSE rest # <<>> =>
                               RemoveGrouped(c, t) = Regroup(c, {t, rest[1].thread}, rest, {t})
    <3>1. PICK holder \in Threads :
             /\ t \in ThreadsIn(At(c, holder))
             /\ IF Len(At(c, holder)) = 1 THEN RemoveGrouped(c, t) = Drop(c, t)
                ELSE RemoveAll(At(c, holder), t) # <<>> =>
                        RemoveGrouped(c, t) =
                            Regroup(c, {t, RemoveAll(At(c, holder), t)[1].thread},
                                    RemoveAll(At(c, holder), t), {t})
      BY <2>3
    <3>2. PICK old : old = At(c, holder)
      OBVIOUS
    <3>3. PICK rest : rest = RemoveAll(old, t)
      OBVIOUS
    <3>4. Has(c, holder) /\ old = c.conversations[holder]
      <4>1. ThreadsIn(<<>>) = {}
        BY DEF ThreadsIn
      <4> QED
        BY <3>1, <3>2, <4>1 DEF At, Has
    <3>5. /\ old \in Seq(Copy) /\ old # <<>> /\ holder \in ThreadsIn(old)
          /\ DisplayedThread(old) = holder /\ holder # t
      BY <1>3, <3>4, CacheFacts
    <3>6. rest \in Seq(Copy) /\ rest # <<>>
      BY <3>3, <3>5, RemovedCopies
    <3>7. Len(old) # 1
      <4>1. ASSUME Len(old) = 1 PROVE FALSE
        <5>1. DOMAIN old = {1}
          BY <3>5, <4>1
        <5> QED
          BY <3>1, <3>2, <3>5, <5>1 DEF ThreadsIn
      <4> QED
        BY <4>1
    <3>8. PICK next : next = rest[1].thread
      OBVIOUS
    <3>9. next \in ThreadsIn(rest)
      BY <3>6, <3>8, FirstThread
    <3>10. RemoveCached(c, t) = Regroup(c, {t, next}, rest, {t})
      BY <2>1, <3>1, <3>2, <3>3, <3>6, <3>7, <3>8
    <3> QED
      BY <1>3, <3>1, <3>2, <3>3, <3>4, <3>6, <3>9, <3>10, RestRemoves
  <2> QED
    BY <2>1, <2>2, <2>3, RemoveGroupedRegroups
<1> QED
  BY <1>1, <1>2, <1>3

-----------------------------------------------------------------------------
(* The inductive invariant                                                 *)

\* The classes of threads that belong together.
ClassesOf(ts) == {{u \in ts : SameConversation(t, u)} : t \in ts}

HistoryTypes ==
    /\ stored \in [Threads -> Stamps \cup {0}]
    /\ loading \subseteq Stored /\ lost \subseteq Threads /\ stale \subseteq Threads
    /\ before \subseteq SUBSET Threads /\ torn \in BOOLEAN
    /\ loading # {} => ~torn

\* The cache has the keys of the threads that are stored, but of those that were
\* lost or are still to be loaded, and their copies are those stored.
Mirrored ==
    /\ KeysOf(Cache) \subseteq Stored
    /\ Stored \ KeysOf(Cache) \subseteq lost \cup loading
    /\ loading # {} => KeysOf(Cache) = Stored \ loading
    /\ \A copy \in CopiesOf(Cache) :
          copy.thread \notin stale => copy.time = stored[copy.thread]

IInv ==
    /\ HistoryTypes
    /\ Kept(Cache)
    /\ ~torn => Agree(Cache) /\ Mirrored
    /\ NumbersMatch =>
          /\ Alike(Cache)
          /\ ~torn => Whole(Cache)
          /\ before = {} \/ before = ClassesOf(UNION before)

\* While the two maps agree, the cache holds the threads that have keys.
LEMMA HeldThreads ==
    ASSUME NEW c, Kept(c), Agree(c)
    PROVE  /\ CachedIn(c) = KeysOf(c)
           /\ CachedIn(c) = {copy.thread : copy \in CopiesOf(c)}
<1>1. c \in Caches
  BY DEF Kept
<1>2. \A k \in Threads : ThreadsIn(At(c, k)) = {copy.thread : copy \in CopiesAmong(At(c, k))}
  BY <1>1, CacheTypes, ListsOfThreads
<1>3. CachedIn(c) = {copy.thread : copy \in CopiesOf(c)}
  BY <1>2 DEF CachedIn, CopiesOf
<1>4. ASSUME NEW t \in KeysOf(c) PROVE t \in CachedIn(c)
  <2>1. t \in Threads /\ c.keys[t] # NoKey /\ c.keys[t] \in Threads
    BY <1>1, CacheTypes DEF KeysOf
  <2>2. Has(c, c.keys[t]) /\ t \in ThreadsIn(c.conversations[c.keys[t]])
    BY <2>1 DEF Agree
  <2>3. t \in ThreadsIn(At(c, c.keys[t]))
    BY <2>2 DEF At, Has
  <2> QED
    BY <2>1, <2>3 DEF CachedIn
<1>5. ASSUME NEW t \in CachedIn(c) PROVE t \in KeysOf(c)
  <2>1. PICK k \in Threads : t \in ThreadsIn(At(c, k))
    BY DEF CachedIn
  <2>2. Has(c, k)
    <3>1. ThreadsIn(<<>>) = {}
      BY DEF ThreadsIn
    <3> QED
      BY <2>1, <3>1 DEF At, Has
  <2>3. t \in ThreadsIn(c.conversations[k])
    BY <2>1, <2>2 DEF At, Has
  <2>4. t \in Threads
    BY <2>2, <2>3, CacheFacts
  <2>5. c.keys[t] = k /\ k # NoKey
    BY <2>2, <2>3, CacheAssumption DEF Agree
  <2> QED
    BY <2>4, <2>5 DEF KeysOf
<1> QED
  BY <1>3, <1>4, <1>5

\* While no thread is missing from its conversation, the conversations are the
\* classes of the threads that belong together.
LEMMA ConversationsAreClasses ==
    ASSUME NEW c, Kept(c), Agree(c), Alike(c), Whole(c)
    PROVE  {ThreadsIn(c.conversations[k]) : k \in {l \in Threads : Has(c, l)}} = ClassesOf(KeysOf(c))
<1>1. c \in Caches
  BY DEF Kept
<1>2. ASSUME NEW k \in Threads, Has(c, k)
      PROVE  /\ k \in KeysOf(c)
             /\ ThreadsIn(c.conversations[k]) = {u \in KeysOf(c) : SameConversation(k, u)}
  <2>1. /\ k \in ThreadsIn(c.conversations[k]) /\ k # NoKey
        /\ ThreadsIn(c.conversations[k]) \subseteq Threads
        /\ \A u \in ThreadsIn(c.conversations[k]) : c.keys[u] = k
    BY <1>2, CacheFacts, CacheAssumption DEF Agree
  <2>2. ThreadsIn(c.conversations[k]) \subseteq KeysOf(c)
    BY <2>1 DEF KeysOf
  <2>3. \A u \in ThreadsIn(c.conversations[k]) : SameConversation(k, u)
    BY <1>2, <2>1 DEF Alike
  <2>4. ASSUME NEW u \in KeysOf(c), SameConversation(k, u)
        PROVE  u \in ThreadsIn(c.conversations[k])
    <3>1. c.keys[u] = k
      BY <2>1, <2>2, <2>4 DEF Whole
    <3>2. u \in Threads /\ c.keys[u] # NoKey
      BY DEF KeysOf
    <3> QED
      BY <3>1, <3>2 DEF Agree
  <2> QED
    BY <2>1, <2>2, <2>3, <2>4
<1>3. ASSUME NEW t \in KeysOf(c)
      PROVE  /\ c.keys[t] \in Threads /\ Has(c, c.keys[t])
             /\ ThreadsIn(c.conversations[c.keys[t]]) = {u \in KeysOf(c) : SameConversation(t, u)}
  <2> PICK k : k = c.keys[t]
    OBVIOUS
  <2>1. t \in Threads /\ k # NoKey /\ k \in Threads
    BY <1>1, CacheTypes DEF KeysOf
  <2>2. Has(c, k) /\ t \in ThreadsIn(c.conversations[k])
    BY <2>1 DEF Agree
  <2>3. /\ ThreadsIn(c.conversations[k]) \subseteq KeysOf(c)
        /\ \A u \in ThreadsIn(c.conversations[k]) : SameConversation(t, u)
    <3>1. ThreadsIn(c.conversations[k]) \subseteq KeysOf(c)
      BY <1>2, <2>1, <2>2
    <3>2. \A u \in ThreadsIn(c.conversations[k]) : SameConversation(t, u)
      BY <2>1, <2>2 DEF Alike
    <3> QED
      BY <3>1, <3>2
  <2>4. ASSUME NEW u \in KeysOf(c), SameConversation(t, u)
        PROVE  u \in ThreadsIn(c.conversations[k])
    <3>1. c.keys[u] = k /\ u \in Threads
      BY <2>4 DEF Whole, KeysOf
    <3> QED
      BY <2>1, <3>1 DEF Agree
  <2> QED
    BY <2>1, <2>2, <2>3, <2>4
<1>4. ASSUME NEW g \in {ThreadsIn(c.conversations[k]) : k \in {l \in Threads : Has(c, l)}}
      PROVE  g \in ClassesOf(KeysOf(c))
  <2>1. PICK k \in Threads : Has(c, k) /\ g = ThreadsIn(c.conversations[k])
    OBVIOUS
  <2> QED
    BY <1>2, <2>1 DEF ClassesOf
<1>5. ASSUME NEW g \in ClassesOf(KeysOf(c))
      PROVE  g \in {ThreadsIn(c.conversations[k]) : k \in {l \in Threads : Has(c, l)}}
  <2>1. PICK t \in KeysOf(c) : g = {u \in KeysOf(c) : SameConversation(t, u)}
    BY DEF ClassesOf
  <2> QED
    BY <1>3, <2>1
<1> QED
  BY <1>4, <1>5

LEMMA ClassesCover ==
    ASSUME NEW ts
    PROVE  UNION ClassesOf(ts) = ts
<1>1. \A t \in ts : t \in {u \in ts : SameConversation(t, u)}
  BY DEF SameConversation
<1> QED
  BY <1>1 DEF ClassesOf

-----------------------------------------------------------------------------
(* The invariant is inductive                                              *)

\* After a restart the two maps are empty.
Empty == [conversations |-> [t \in Threads |-> NoConversation], keys |-> [t \in Threads |-> NoKey]]

LEMMA EmptyIsKept ==
    /\ Kept(Empty) /\ Alike(Empty) /\ Agree(Empty) /\ Whole(Empty)
    /\ KeysOf(Empty) = {} /\ CopiesOf(Empty) = {}
<1>1. /\ Empty \in Caches
      /\ \A t \in Threads : ~Has(Empty, t) /\ Empty.keys[t] = NoKey /\ At(Empty, t) = <<>>
  BY DEF Empty, Caches, Has, At
<1>2. CopiesAmong(<<>>) = {}
  BY DEF CopiesAmong
<1>3. KeysOf(Empty) = {} /\ CopiesOf(Empty) = {}
  BY <1>1, <1>2 DEF KeysOf, CopiesOf
<1> QED
  BY <1>1, <1>3 DEF Kept, Shown, Solitary, Alike, Agree, Whole

LEMMA InitIsKept == Init => IInv
<1> SUFFICES ASSUME Init PROVE IInv
  OBVIOUS
<1>1. Cache = Empty
  BY DEF Init, Cache, Empty
<1>2. Stored = {} /\ stored \in [Threads -> Stamps \cup {0}]
  BY DEF Init, Stored
<1>3. loading = {} /\ lost = {} /\ stale = {} /\ before = {} /\ torn = FALSE
  BY DEF Init
<1>4. HistoryTypes
  BY <1>2, <1>3 DEF HistoryTypes
<1>5. Mirrored
  BY <1>1, <1>2, <1>3, EmptyIsKept DEF Mirrored
<1> QED
  BY <1>1, <1>3, <1>4, <1>5, EmptyIsKept DEF IInv

LEMMA CacheBecomes ==
    ASSUME NEW d, d \in Caches, Becomes(d)
    PROVE  Cache' = d
<1>1. d = [conversations |-> d.conversations, keys |-> d.keys]
  BY DEF Caches
<1>2. conversations' = d.conversations /\ keys' = d.keys
  BY DEF Becomes
<1> QED
  BY <1>1, <1>2 DEF Cache

\* The steps that add or replace a copy of t.
LEMMA AddSteps ==
    ASSUME IInv, NEW t \in Threads, NEW time \in Stamps \cup {0}, Becomes(Add(Cache, t, time)),
           stored' \in [Threads -> Stamps \cup {0}], Stored' = Stored \cup {t},
           \A u \in Threads \ {t} : stored'[u] = stored[u],
           t \in stale' \/ time = stored'[t],
           stale' \subseteq Threads, stale \ {t} \subseteq stale',
           loading' = loading \ {t}, lost' \subseteq Threads, lost \ {t} \subseteq lost',
           before' = before \/ before' = {}, torn' = torn
    PROVE  /\ IInv'
           /\ ~torn => /\ KeysOf(Cache)' = KeysOf(Cache) \cup {t}
                       /\ CopiesOf(Cache)' \subseteq {[thread |-> t, time |-> time]}
                             \cup {copy \in CopiesOf(Cache) : copy.thread # t}
                       /\ NumbersMatch => Elsewhere(Cache, Cache', t)
<1> PICK d : d = Add(Cache, t, time)
  OBVIOUS
<1> PICK new : new = [thread |-> t, time |-> time]
  OBVIOUS
<1>1. Added(Cache, d, t, new)
  BY AddAdds DEF IInv
<1>2. Kept(d) /\ Cache' = d
  BY <1>1, CacheBecomes DEF Added, Kept
<1>3. HistoryTypes'
  BY DEF IInv, HistoryTypes
<1>4. ASSUME ~torn
      PROVE  /\ Agree(Cache') /\ KeysOf(Cache') = KeysOf(Cache) \cup {t}
             /\ CopiesOf(Cache') \subseteq {new} \cup {copy \in CopiesOf(Cache) : copy.thread # t}
             /\ NumbersMatch => Elsewhere(Cache, Cache', t)
  BY <1>1, <1>2, <1>4 DEF IInv, Added
<1>5. ASSUME ~torn PROVE Mirrored'
  <2>1. Mirrored
    BY <1>5 DEF IInv
  <2>2. KeysOf(Cache') = KeysOf(Cache) \cup {t}
    BY <1>4, <1>5
  <2>3. KeysOf(Cache') \subseteq Stored' /\ Stored' \ KeysOf(Cache') \subseteq lost' \cup loading'
    BY <2>1, <2>2 DEF Mirrored
  <2>4. loading' # {} => KeysOf(Cache') = Stored' \ loading'
    BY <2>1, <2>2 DEF Mirrored
  <2>5. ASSUME NEW copy \in CopiesOf(Cache'), copy.thread \notin stale'
        PROVE  copy.time = stored'[copy.thread]
    <3>1. CASE copy = new
      BY <2>5, <3>1
    <3>2. CASE copy \in CopiesOf(Cache) /\ copy.thread # t
      <4>1. copy.thread \in Threads
        <5>1. copy.thread \in CachedIn(Cache)
          BY <1>5, <3>2, HeldThreads DEF IInv
        <5> QED
          BY <1>5, <5>1, HeldThreads DEF IInv, KeysOf
      <4>2. copy.time = stored[copy.thread]
        BY <2>1, <2>5, <3>2 DEF Mirrored
      <4> QED
        BY <3>2, <4>1, <4>2
    <3>3. CopiesOf(Cache') \subseteq {new} \cup {one \in CopiesOf(Cache) : one.thread # t}
      BY <1>1, <1>2, <1>5 DEF IInv, Added
    <3> QED
      BY <2>5, <3>1, <3>2, <3>3
  <2> QED
    BY <2>3, <2>4, <2>5 DEF Mirrored
<1>6. ASSUME NumbersMatch PROVE Alike(Cache') /\ (~torn => Whole(Cache'))
  BY <1>1, <1>2, <1>6 DEF IInv, Added
<1>7. NumbersMatch => before' = {} \/ before' = ClassesOf(UNION before')
  BY DEF IInv
<1> QED
  BY <1>2, <1>3, <1>4, <1>5, <1>6, <1>7 DEF IInv

\* The steps that remove t from the cache.
LEMMA RemoveSteps ==
    ASSUME IInv, NEW t \in Threads, Becomes(RemoveCached(Cache, t)), loading = {},
           \/ stored' = stored /\ lost' = lost \cup {t} /\ stale' = stale
           \/ /\ stored' = [stored EXCEPT ![t] = 0]
              /\ lost' = lost \ {t} /\ stale' = stale \ {t},
           UNCHANGED <<loading, before, torn>>
    PROVE  /\ IInv'
           /\ ~torn => /\ KeysOf(Cache)' = KeysOf(Cache) \ {t}
                       /\ CopiesOf(Cache)' \subseteq {copy \in CopiesOf(Cache) : copy.thread # t}
                       /\ NumbersMatch => Elsewhere(Cache, Cache', t)
<1> PICK d : d = RemoveCached(Cache, t)
  OBVIOUS
<1>1. Removed(Cache, d, t)
  BY RemoveRemoves DEF IInv
<1>2. Kept(d) /\ Cache' = d
  BY <1>1, CacheBecomes DEF Removed, Kept
<1>3. /\ stored' \in [Threads -> Stamps \cup {0}] /\ Stored \ {t} \subseteq Stored'
      /\ Stored' \subseteq Stored /\ \A u \in Threads \ {t} : stored'[u] = stored[u]
      /\ t \in Stored' => t \in lost'
  BY DEF IInv, HistoryTypes, Stored
<1>4. HistoryTypes'
  BY <1>3 DEF IInv, HistoryTypes
<1>5. ASSUME ~torn
      PROVE  /\ Agree(Cache') /\ KeysOf(Cache') = KeysOf(Cache) \ {t}
             /\ CopiesOf(Cache') \subseteq {copy \in CopiesOf(Cache) : copy.thread # t}
             /\ NumbersMatch => Elsewhere(Cache, Cache', t)
  BY <1>1, <1>2, <1>5 DEF IInv, Removed
<1>6. ASSUME ~torn PROVE Mirrored'
  <2>1. Mirrored
    BY <1>6 DEF IInv
  <2>2. KeysOf(Cache') = KeysOf(Cache) \ {t}
    BY <1>5, <1>6
  <2>3. KeysOf(Cache') \subseteq Stored' /\ Stored' \ KeysOf(Cache') \subseteq lost' \cup loading'
    BY <1>3, <2>1, <2>2 DEF Mirrored
  <2>4. ASSUME NEW copy \in CopiesOf(Cache'), copy.thread \notin stale'
        PROVE  copy.time = stored'[copy.thread]
    <3>1. copy \in CopiesOf(Cache) /\ copy.thread # t
      BY <1>1, <1>2, <1>6 DEF IInv, Removed
    <3>2. copy.thread \in Threads
      <4>1. copy.thread \in CachedIn(Cache)
        BY <1>6, <3>1, HeldThreads DEF IInv
      <4> QED
        BY <1>6, <4>1, HeldThreads DEF IInv, KeysOf
    <3>3. copy.time = stored[copy.thread]
      BY <2>1, <2>4, <3>1 DEF Mirrored
    <3> QED
      BY <1>3, <3>1, <3>2, <3>3
  <2> QED
    BY <2>3, <2>4 DEF Mirrored
<1>7. ASSUME NumbersMatch PROVE Alike(Cache') /\ (~torn => Whole(Cache'))
  BY <1>1, <1>2, <1>7 DEF IInv, Removed
<1>8. NumbersMatch => before' = {} \/ before' = ClassesOf(UNION before')
  BY DEF IInv
<1> QED
  BY <1>2, <1>4, <1>5, <1>6, <1>7, <1>8 DEF IInv

LEMMA StepKeeps ==
    ASSUME IInv, [Next]_vars
    PROVE  IInv'
<1>0. stored \in [Threads -> Stamps \cup {0}] /\ loading \subseteq Stored /\ 0 \notin Stamps
  BY CacheAssumption DEF IInv, HistoryTypes
<1>1. ASSUME NEW t \in Threads, NEW now \in Stamps, CreateThread(t, now) PROVE IInv'
  <2>1. Stored' = Stored \cup {t} /\ stored' \in [Threads -> Stamps \cup {0}]
        /\ \A u \in Threads \ {t} : stored'[u] = stored[u]
    BY <1>0, <1>1 DEF CreateThread, Stored
  <2>2. 0 \in Stamps \cup {0} /\ Becomes(Add(Cache, t, 0))
    BY <1>1 DEF CreateThread
  <2>3. /\ t \in stale' /\ stale' \subseteq Threads /\ stale \ {t} \subseteq stale'
        /\ loading' = loading \ {t} /\ lost' \subseteq Threads /\ lost \ {t} \subseteq lost'
        /\ before' = before /\ torn' = torn
    BY <1>1 DEF CreateThread, Ready, IInv, HistoryTypes
  <2> QED
    BY <2>1, <2>2, <2>3, AddSteps
<1>2. ASSUME NEW t \in Threads, NEW time \in Stamps, UpdateThread(t, time) PROVE IInv'
  <2>1. Stored' = Stored \cup {t} /\ stored' \in [Threads -> Stamps \cup {0}]
        /\ (\A u \in Threads \ {t} : stored'[u] = stored[u]) /\ time = stored'[t]
    BY <1>0, <1>2 DEF UpdateThread, Stored
  <2>2. Becomes(Add(Cache, t, time))
    BY <1>2 DEF UpdateThread
  <2>3. /\ stale' \subseteq Threads /\ stale \ {t} \subseteq stale'
        /\ loading' = loading \ {t} /\ lost' \subseteq Threads /\ lost \ {t} \subseteq lost'
        /\ before' = before /\ torn' = torn
    BY <1>2 DEF UpdateThread, Ready, IInv, HistoryTypes
  <2> QED
    BY <2>1, <2>2, <2>3, AddSteps
<1>3. ASSUME NEW t \in Threads, NEW time \in Stamps, UpdateRolledBack(t, time) PROVE IInv'
  <2>1. Stored' = Stored \cup {t} /\ stored' = stored
    BY <1>0, <1>3 DEF UpdateRolledBack, Stored
  <2>2. Becomes(Add(Cache, t, time))
    BY <1>3 DEF UpdateRolledBack
  <2>3. /\ t \in stale' /\ stale' \subseteq Threads /\ stale \ {t} \subseteq stale'
        /\ loading' = loading \ {t} /\ lost' \subseteq Threads /\ lost \ {t} \subseteq lost'
        /\ before' = before /\ torn' = torn
    BY <1>3 DEF UpdateRolledBack, Ready, IInv, HistoryTypes
  <2> QED
    BY <1>0, <2>1, <2>2, <2>3, AddSteps
<1>4. ASSUME NEW t \in Threads, LoadThread(t) PROVE IInv'
  <2> PICK time : time = stored[t]
    OBVIOUS
  <2>1. Stored' = Stored \cup {t} /\ stored' = stored /\ time \in Stamps \cup {0}
    BY <1>0, <1>4 DEF LoadThread, Stored
  <2>2. Becomes(Add(Cache, t, time))
    BY <1>4 DEF LoadThread
  <2>3. /\ stale' \subseteq Threads /\ stale \ {t} \subseteq stale'
        /\ loading' = loading \ {t} /\ lost' \subseteq Threads /\ lost \ {t} \subseteq lost'
        /\ before' = before \/ before' = {}
        /\ torn' = torn
    BY <1>4 DEF LoadThread, IInv, HistoryTypes
  <2> QED
    BY <1>0, <2>1, <2>2, <2>3, AddSteps
<1>5. ASSUME NEW t \in Threads, RemoveThread(t) PROVE IInv'
  BY <1>5, RemoveSteps DEF RemoveThread, Ready
<1>6. ASSUME NEW t \in Threads, RemovalRolledBack(t) PROVE IInv'
  BY <1>6, RemoveSteps DEF RemovalRolledBack, Ready
<1>7. ASSUME NEW t \in Threads, RemoveVoiceThread(t) PROVE IInv'
  <2> PICK d : d = Drop(Cache, t)
    OBVIOUS
  <2>1. Kept(Cache) /\ Agree(Cache) /\ Mirrored /\ (NumbersMatch => Alike(Cache) /\ Whole(Cache))
    BY <1>7 DEF RemoveVoiceThread, IInv
  <2>2. Kept(d) /\ (Alike(Cache) => Alike(d))
    BY <2>1, DropKeeps
  <2>3. Cache' = d
    BY <1>7, <2>2, CacheBecomes DEF RemoveVoiceThread, Kept
  <2>4. /\ stored' = stored /\ loading' = {} /\ loading = {} /\ stale' = stale /\ before' = before
        /\ lost \subseteq lost' /\ lost' \subseteq Threads /\ torn' \in BOOLEAN
    BY <1>7 DEF RemoveVoiceThread, Ready, IInv, HistoryTypes, Stored
  <2>5. HistoryTypes' /\ Stored' = Stored
    BY <2>4 DEF IInv, HistoryTypes, Stored
  <2>6. ASSUME ~torn' PROVE Cache' = Cache
    <3>1. ~Has(Cache, t) /\ Cache.keys[t] = NoKey
      BY <1>7, <2>6 DEF RemoveVoiceThread, Has, Cache
    <3>2. /\ Cache.conversations \in [Threads -> Seq(Copy) \cup {NoConversation}]
          /\ Cache.keys \in [Threads -> Threads \cup {NoKey}]
      BY <2>1 DEF Kept, Caches
    <3>3. d = [conversations |-> Cache.conversations, keys |-> Cache.keys]
      BY <3>1, <3>2 DEF Drop, Has
    <3> QED
      BY <2>3, <3>3 DEF Cache
  <2>7. ASSUME ~torn' PROVE Agree(Cache') /\ Mirrored' /\ (NumbersMatch => Whole(Cache'))
    <3>1. Mirrored'
      BY <2>1, <2>4, <2>5, <2>6, <2>7 DEF Mirrored
    <3> QED
      BY <2>1, <2>6, <2>7, <3>1
  <2>8. NumbersMatch => before' = {} \/ before' = ClassesOf(UNION before')
    BY <2>4 DEF IInv
  <2> QED
    BY <2>1, <2>2, <2>3, <2>5, <2>7, <2>8 DEF IInv
<1>8. CASE Restart
  <2>1. Cache' = Empty
    BY <1>8 DEF Restart, Cache, Empty
  <2>2. /\ stored' = stored /\ loading' = Stored /\ torn' = FALSE
        /\ lost' = lost /\ stale' = stale
    BY <1>8 DEF Restart
  <2>3. Stored' = Stored
    BY <2>2 DEF Stored
  <2>4. Mirrored'
    BY <2>1, <2>2, <2>3, EmptyIsKept DEF Mirrored
  <2>5. before' = {} \/ (~torn /\ before' = Groups)
    BY <1>8 DEF Restart
  <2>6. Groups = {ThreadsIn(Cache.conversations[k]) : k \in {l \in Threads : Has(Cache, l)}}
    BY DEF Groups, Cache, Has
  <2>7. Groups \subseteq SUBSET Threads
    <3>1. \A k \in Threads : Has(Cache, k) => ThreadsIn(Cache.conversations[k]) \subseteq Threads
      BY CacheFacts DEF IInv
    <3> QED
      BY <2>6, <3>1
  <2>8. HistoryTypes'
    BY <2>2, <2>3, <2>5, <2>7 DEF IInv, HistoryTypes
  <2>9. ASSUME NumbersMatch PROVE before' = {} \/ before' = ClassesOf(UNION before')
    <3>1. ~torn => Groups = ClassesOf(KeysOf(Cache))
      BY <2>6, <2>9, ConversationsAreClasses DEF IInv
    <3> QED
      BY <2>5, <3>1, ClassesCover
  <2> QED
    BY <2>1, <2>2, <2>4, <2>8, <2>9, EmptyIsKept DEF IInv
<1>9. CASE UNCHANGED vars
  BY <1>9 DEF vars, IInv, HistoryTypes, Mirrored, Cache, Stored
<1> QED
  BY <1>1, <1>2, <1>3, <1>4, <1>5, <1>6, <1>7, <1>8, <1>9 DEF Next

LEMMA CacheInvariant == Spec => []IInv
<1> QED
  BY InitIsKept, StepKeeps, PTL DEF Spec

-----------------------------------------------------------------------------
(* The properties                                                          *)

LEMMA InvariantIsWellFormed == IInv => CacheIsWellFormed
<1> SUFFICES ASSUME IInv PROVE CacheIsWellFormed
  OBVIOUS
<1>1. /\ conversations \in [Threads -> Seq(Copy) \cup {NoConversation}]
      /\ keys \in [Threads -> Threads \cup {NoKey}]
  BY DEF IInv, Kept, Caches, Cache
<1>2. TypeOK
  BY <1>1 DEF IInv, HistoryTypes, TypeOK, Stored
<1>3. ASSUME NEW k \in Threads, conversations[k] # NoConversation
      PROVE  /\ conversations[k] \in Seq(Copy) /\ conversations[k] # <<>>
             /\ DisplayedThread(conversations[k]) = k /\ k \in ThreadsIn(conversations[k])
  <2>1. Has(Cache, k) /\ Cache.conversations[k] = conversations[k]
    BY <1>3 DEF Has, Cache
  <2> QED
    BY <2>1, CacheFacts DEF IInv
<1>4. ASSUME ~torn
      PROVE  /\ \A t \in Threads : keys[t] # NoKey =>
                   /\ conversations[keys[t]] # NoConversation
                   /\ t \in ThreadsIn(conversations[keys[t]])
             /\ \A k \in Threads : conversations[k] # NoConversation =>
                   /\ k \in ThreadsIn(conversations[k])
                   /\ \A i \in DOMAIN conversations[k] : keys[conversations[k][i].thread] = k
                   /\ \A i, j \in DOMAIN conversations[k] :
                         i # j => conversations[k][i].thread # conversations[k][j].thread
  <2>1. Agree(Cache)
    BY <1>4 DEF IInv
  <2>2. \A t \in Threads : keys[t] # NoKey =>
           /\ conversations[keys[t]] # NoConversation
           /\ t \in ThreadsIn(conversations[keys[t]])
    BY <2>1 DEF Agree, Has, Cache
  <2>3. ASSUME NEW k \in Threads, conversations[k] # NoConversation
        PROVE  /\ \A t \in ThreadsIn(conversations[k]) : keys[t] = k
               /\ Distinct(conversations[k])
    BY <2>1, <2>3 DEF Agree, Has, Cache
  <2>4. ASSUME NEW k \in Threads, conversations[k] # NoConversation
        PROVE  /\ k \in ThreadsIn(conversations[k])
               /\ \A i \in DOMAIN conversations[k] : keys[conversations[k][i].thread] = k
               /\ \A i, j \in DOMAIN conversations[k] :
                     i # j => conversations[k][i].thread # conversations[k][j].thread
    <3>1. \A i \in DOMAIN conversations[k] : conversations[k][i].thread \in ThreadsIn(conversations[k])
      BY DEF ThreadsIn
    <3>2. \A i, j \in DOMAIN conversations[k] :
             i # j => conversations[k][i].thread # conversations[k][j].thread
      BY <2>3, <2>4 DEF Distinct
    <3> QED
      BY <1>3, <2>3, <2>4, <3>1, <3>2
  <2> QED
    BY <2>2, <2>4
<1>5. MapsAgree
  BY <1>4 DEF MapsAgree
<1>6. ASSUME NEW k \in Threads, conversations[k] # NoConversation
      PROVE  \E i \in DOMAIN conversations[k] :
                /\ conversations[k][i].thread = k
                /\ \A j \in DOMAIN conversations[k] :
                       conversations[k][j].time <= conversations[k][i].time
  <2> PICK copies : copies = conversations[k]
    OBVIOUS
  <2>1. copies \in Seq(Copy) /\ copies # <<>> /\ DisplayedThread(copies) = k
    BY <1>3, <1>6
  <2> PICK i : i = Newest(copies)
    OBVIOUS
  <2>2. IsNewest(copies, i) /\ copies[i].thread = k
    BY <2>1, NewestExists DEF DisplayedThread
  <2> QED
    BY <2>1, <2>2 DEF IsNewest
<1>7. NewestIsDisplayed
  BY <1>6 DEF NewestIsDisplayed
<1> QED
  BY <1>2, <1>5, <1>7 DEF CacheIsWellFormed

\* The two maps are inverse to each other, and a conversation is shown under the
\* key of its newest thread: a theorem of addThreadsToCache,
\* removeThreadFromCache and updateDisplayedThread for every set of threads and
\* numbers, in whatever order they are called.
THEOREM CacheIsAlwaysWellFormed == Spec => []CacheIsWellFormed
<1> QED
  BY CacheInvariant, InvariantIsWellFormed, PTL

LEMMA InvariantMirrors == IInv => CacheMirrorsTable
<1> SUFFICES ASSUME IInv PROVE CacheMirrorsTable
  OBVIOUS
<1>1. ~torn => Kept(Cache) /\ Agree(Cache) /\ Mirrored
  BY DEF IInv
<1>2. CacheFollowsTable
  BY <1>1, HeldThreads DEF CacheFollowsTable, Mirrored
<1>3. ASSUME ~torn, NEW k \in Threads, conversations[k] # NoConversation,
             NEW i \in DOMAIN conversations[k], conversations[k][i].thread \notin stale
      PROVE  conversations[k][i].time = stored[conversations[k][i].thread]
  <2>1. Has(Cache, k) /\ Cache.conversations[k] = conversations[k]
    BY <1>3 DEF Has, Cache
  <2>2. At(Cache, k) = conversations[k]
    BY <2>1 DEF At, Has
  <2>3. conversations[k][i] \in CopiesOf(Cache)
    BY <1>3, <2>2 DEF CopiesOf, CopiesAmong
  <2> QED
    BY <1>1, <1>3, <2>3 DEF Mirrored
<1>4. CopiesAreCurrent
  BY <1>3 DEF CopiesAreCurrent
<1> QED
  BY <1>2, <1>4 DEF CacheMirrorsTable

\* The cache holds the threads of the table and nothing else, each as it is
\* stored: a theorem of the plugin's writers, of their rollbacks and of
\* generateContactCache, whatever the threads' numbers.
THEOREM CacheAlwaysMirrorsTable == Spec => []CacheMirrorsTable
<1> QED
  BY CacheInvariant, InvariantMirrors, PTL

LEMMA InvariantIsComplete == IInv /\ NumbersMatch => ConversationsAreComplete
<1> SUFFICES ASSUME IInv, NumbersMatch PROVE ConversationsAreComplete
  OBVIOUS
<1>1. Kept(Cache) /\ Alike(Cache) /\ (~torn => Agree(Cache) /\ Whole(Cache))
  BY DEF IInv
<1>2. Groups = {ThreadsIn(Cache.conversations[k]) : k \in {l \in Threads : Has(Cache, l)}}
  BY DEF Groups, Cache, Has
<1>3. ASSUME NEW t, NEW u, NEW g \in Groups, {t, u} \subseteq g
      PROVE  SameConversation(t, u)
  <2>1. PICK k \in Threads : Has(Cache, k) /\ g = ThreadsIn(Cache.conversations[k])
    BY <1>2
  <2> QED
    BY <1>1, <1>3, <2>1 DEF Alike
<1>4. ASSUME ~torn, NEW t \in CachedIn(Cache), NEW u \in CachedIn(Cache), SameConversation(t, u)
      PROVE  \E g \in Groups : {t, u} \subseteq g
  <2>1. t \in KeysOf(Cache) /\ u \in KeysOf(Cache)
    BY <1>1, <1>4, HeldThreads
  <2>2. Groups = ClassesOf(KeysOf(Cache))
    BY <1>1, <1>2, <1>4, ConversationsAreClasses
  <2> PICK g : g = {v \in KeysOf(Cache) : SameConversation(t, v)}
    OBVIOUS
  <2>3. g \in ClassesOf(KeysOf(Cache))
    BY <2>1 DEF ClassesOf
  <2>4. SameConversation(t, t)
    BY DEF SameConversation
  <2> QED
    BY <1>4, <2>1, <2>2, <2>3, <2>4
<1> QED
  BY <1>3, <1>4 DEF ConversationsAreComplete

\* A conversation holds the threads that belong together, and all of them: a
\* theorem of the same operations where compareNormalizedParticipants accepts
\* pairs as an equivalence would.
THEOREM ConversationsAreAlwaysComplete ==
    ASSUME NumbersMatch
    PROVE  Spec => []ConversationsAreComplete
<1> QED
  BY CacheInvariant, InvariantIsComplete, PTL

LEMMA LoadingKeepsConversations ==
    ASSUME IInv, IInv', NumbersMatch, [Next]_vars
    PROVE  loading # {} /\ loading' = {} /\ UNION before = Stored => Groups' = before
<1> SUFFICES ASSUME loading # {}, loading' = {}, UNION before = Stored PROVE Groups' = before
  OBVIOUS
<1>1. PICK t \in Threads : LoadThread(t)
  <2>1. CASE UNCHANGED vars
    BY <2>1 DEF vars
  <2>2. CASE Next
    BY <2>2 DEF Next, CreateThread, UpdateThread, UpdateRolledBack, RemoveThread,
                RemovalRolledBack, RemoveVoiceThread, Restart, Ready
  <2> QED
    BY <2>1, <2>2
<1>2. stored' = stored /\ torn' = torn /\ Stored' = Stored
  BY <1>1 DEF LoadThread, Stored
<1>3. ~torn' /\ Mirrored' /\ (Kept(Cache) /\ Alike(Cache) /\ Agree(Cache) /\ Whole(Cache))'
  BY <1>2 DEF IInv, HistoryTypes
<1>4. KeysOf(Cache)' = Stored
  <2>1. loading = {t} /\ t \in Stored
    BY <1>1 DEF LoadThread, IInv, HistoryTypes
  <2>2. KeysOf(Cache) = Stored \ {t}
    BY <1>2, <1>3, <2>1 DEF IInv, Mirrored
  <2>3. KeysOf(Cache)' = KeysOf(Cache) \cup {t}
    <3> PICK d : d = Add(Cache, t, stored[t])
      OBVIOUS
    <3>1. stored[t] \in Stamps \cup {0} /\ Kept(Cache) /\ Agree(Cache)
      BY <1>2, <1>3 DEF IInv, HistoryTypes
    <3>2. Added(Cache, d, t, [thread |-> t, time |-> stored[t]])
      BY <3>1, AddAdds
    <3>3. Cache' = d
      BY <1>1, <3>2, CacheBecomes DEF LoadThread, Added, Kept
    <3> QED
      BY <3>1, <3>2, <3>3 DEF Added
  <2> QED
    BY <2>1, <2>2, <2>3
<1>5. Groups' = ClassesOf(Stored)
  <2>1. Groups' = {ThreadsIn(Cache'.conversations[k]) : k \in {l \in Threads : Has(Cache', l)}}
    BY DEF Groups, Cache, Has
  <2> QED
    BY <1>3, <1>4, <2>1, ConversationsAreClasses
<1>6. before = ClassesOf(Stored)
  <2>1. Stored # {}
    BY DEF IInv, HistoryTypes
  <2> QED
    BY <2>1 DEF IInv
<1> QED
  BY <1>5, <1>6

\* Whatever the order generateContactCache reads the threads in, the
\* conversations are those before the restart: with the classes of the
\* stored threads there is nothing else they could be.
THEOREM RestartsKeepConversations ==
    ASSUME NumbersMatch
    PROVE  Spec => RestartKeepsConversations
<1>1. IInv /\ IInv' /\ [Next]_vars =>
        [loading # {} /\ loading' = {} /\ UNION before = Stored => Groups' = before]_vars
  BY LoadingKeepsConversations
<1> QED
  BY <1>1, CacheInvariant, PTL DEF Spec, RestartKeepsConversations

LEMMA StepPromotes ==
    ASSUME IInv, IInv', [Next]_vars, Ready, Ready', ~torn, ~torn'
    PROVE  \A t, u \in CachedIn(Cache) \ CachedIn(Cache)' : t = u
<1>1. CachedIn(Cache) = KeysOf(Cache) /\ CachedIn(Cache)' = KeysOf(Cache)'
  <2>1. Kept(Cache) /\ Agree(Cache) /\ Kept(Cache') /\ Agree(Cache')
    BY DEF IInv
  <2> QED
    BY <2>1, HeldThreads
<1>2. ASSUME NEW t \in Threads, NEW time \in Stamps \cup {0}, Becomes(Add(Cache, t, time))
      PROVE  KeysOf(Cache) \subseteq KeysOf(Cache)'
  <2> PICK d : d = Add(Cache, t, time)
    OBVIOUS
  <2>1. Added(Cache, d, t, [thread |-> t, time |-> time])
    BY AddAdds DEF IInv
  <2>2. Cache' = d
    BY <1>2, <2>1, CacheBecomes DEF Added, Kept
  <2> QED
    BY <2>1, <2>2 DEF Added, IInv
<1>3. ASSUME NEW t \in Threads, Becomes(RemoveCached(Cache, t))
      PROVE  KeysOf(Cache) \ {t} \subseteq KeysOf(Cache)'
  <2> PICK d : d = RemoveCached(Cache, t)
    OBVIOUS
  <2>1. Removed(Cache, d, t)
    BY RemoveRemoves DEF IInv
  <2>2. Cache' = d
    BY <1>3, <2>1, CacheBecomes DEF Removed, Kept
  <2> QED
    BY <2>1, <2>2 DEF Removed, IInv
<1>4. ASSUME NEW t \in Threads, RemoveVoiceThread(t)
      PROVE  KeysOf(Cache) \subseteq KeysOf(Cache)'
  <2> PICK d : d = Drop(Cache, t)
    OBVIOUS
  <2>1. Kept(Cache) /\ ~Has(Cache, t) /\ Cache.keys[t] = NoKey
    BY <1>4 DEF RemoveVoiceThread, Has, Cache, IInv
  <2>2. d \in Caches /\ \A k \in Threads : d.keys[k] = IF k = t THEN NoKey ELSE Cache.keys[k]
    BY <2>1, DropDoes DEF Kept
  <2>3. Cache' = d
    BY <1>4, <2>2, CacheBecomes DEF RemoveVoiceThread
  <2> QED
    BY <2>1, <2>2, <2>3 DEF KeysOf
<1>5. CASE Restart
  <2>1. Stored = {}
    BY <1>5 DEF Restart, Ready
  <2> QED
    BY <1>1, <2>1 DEF IInv, Mirrored
<1>6. CASE UNCHANGED vars
  <2>1. Cache' = Cache
    BY <1>6 DEF vars, Cache
  <2> QED
    BY <1>1, <2>1
<1>7. CASE \E t \in Threads :
             \/ \E time \in Stamps : \/ CreateThread(t, time)
                                     \/ UpdateThread(t, time)
                                     \/ UpdateRolledBack(t, time)
             \/ LoadThread(t)
             \/ RemoveVoiceThread(t)
  <2>1. KeysOf(Cache) \subseteq KeysOf(Cache)'
    BY <1>2, <1>4, <1>7 DEF CreateThread, UpdateThread, UpdateRolledBack, LoadThread, Ready
  <2> QED
    BY <1>1, <2>1
<1>8. CASE \E t \in Threads : RemoveThread(t) \/ RemovalRolledBack(t)
  <2>1. PICK t \in Threads : KeysOf(Cache) \ {t} \subseteq KeysOf(Cache)'
    BY <1>3, <1>8 DEF RemoveThread, RemovalRolledBack
  <2> QED
    BY <1>1, <2>1
<1> QED
  BY <1>5, <1>6, <1>7, <1>8 DEF Next

\* No step but a restart takes more than one thread out of the cache: whoever
\* leaves a conversation, the others of it stay cached, a theorem of
\* removeThreadFromCache for conversations of every size.
THEOREM RemovalsPromoteOthers == Spec => RemovalPromotesOthers
<1>1. IInv /\ IInv' /\ [Next]_vars =>
        [Ready /\ Ready' /\ ~torn /\ ~torn' =>
            \A t, u \in CachedIn(Cache) \ CachedIn(Cache)' : t = u]_vars
  BY StepPromotes
<1> QED
  BY <1>1, CacheInvariant, PTL DEF Spec, RemovalPromotesOthers

-----------------------------------------------------------------------------
(* The binary search                                                       *)

Width(b) == IF b[1] > b[2] THEN 0 ELSE b[2] - b[1] + 1

\* What the loop does with bounds b, if `search` tells what it does then.
Step(search, times, time, b) ==
    IF b[1] = Middle(b) /\ time > times[Middle(b) + 1] THEN Middle(b)
    ELSE IF times[Middle(b) + 1] > time
         THEN IF Middle(b) + 1 > b[2] THEN Middle(b) + 1 ELSE search[<<Middle(b) + 1, b[2]>>]
    ELSE IF b[1] > b[2] THEN Middle(b)
    ELSE search[<<b[1], Middle(b) - 1>>]

IsSearch(search, times, time) ==
    search = [b \in Bounds(Len(times)) |-> Step(search, times, time, b)]

\* The middle lies between the bounds, and both halves are narrower.
LEMMA BoundsShrink ==
    ASSUME NEW n \in Nat, NEW b \in Bounds(n)
    PROVE  /\ Width(b) \in Nat
           /\ Middle(b) + 1 <= b[2] => /\ <<Middle(b) + 1, b[2]>> \in Bounds(n)
                                       /\ Width(<<Middle(b) + 1, b[2]>>) < Width(b)
           /\ b[1] <= b[2] => /\ <<b[1], Middle(b) - 1>> \in Bounds(n)
                              /\ Width(<<b[1], Middle(b) - 1>>) < Width(b)
           /\ b = <<b[1], b[2]>>
<1>1. PICK low \in 0 .. n, high \in (-1) .. n : b = <<low, high>>
  BY DEF Bounds
<1>2. /\ low \in Int /\ high \in Int /\ b[1] = low /\ b[2] = high
      /\ 0 <= low /\ -1 <= high /\ high <= n /\ low <= n
  BY <1>1
<1>3. PICK m \in Int : m = Middle(b) /\ (low + high < 0 => m = 0)
          /\ (low + high >= 0 => 2 * m <= low + high /\ low + high <= 2 * m + 1)
  BY <1>2 DEF Middle
<1>4. Width(b) = IF low > high THEN 0 ELSE high - low + 1
  BY <1>2 DEF Width
<1>5. Width(<<m + 1, high>>) = IF m + 1 > high THEN 0 ELSE high - m
  BY <1>2, <1>3 DEF Width
<1>6. Width(<<low, m - 1>>) = IF low > m - 1 THEN 0 ELSE m - low
  BY <1>2, <1>3 DEF Width
<1>7. Width(b) \in Nat
  BY <1>2, <1>4
<1>8. ASSUME m + 1 <= high
      PROVE  <<m + 1, high>> \in Bounds(n) /\ Width(<<m + 1, high>>) < Width(b)
  <2>1. m + 1 \in 0 .. n /\ high \in (-1) .. n
    BY <1>2, <1>3, <1>8
  <2>2. Width(<<m + 1, high>>) < Width(b)
    BY <1>2, <1>3, <1>4, <1>5, <1>8
  <2> QED
    BY <2>1, <2>2 DEF Bounds
<1>9. ASSUME low <= high
      PROVE  <<low, m - 1>> \in Bounds(n) /\ Width(<<low, m - 1>>) < Width(b)
  <2>1. low \in 0 .. n /\ m - 1 \in (-1) .. n
    BY <1>2, <1>3, <1>9
  <2>2. Width(<<low, m - 1>>) < Width(b)
    BY <1>2, <1>3, <1>4, <1>6, <1>9
  <2> QED
    BY <2>1, <2>2 DEF Bounds
<1> QED
  BY <1>1, <1>2, <1>3, <1>7, <1>8, <1>9

\* One step of the search asks for narrower bounds only.
LEMMA StepLooksInside ==
    ASSUME NEW times, NEW time, Len(times) \in Nat, NEW b \in Bounds(Len(times)), NEW f, NEW g,
           \A c \in Bounds(Len(times)) : Width(c) < Width(b) => f[c] = g[c]
    PROVE  Step(f, times, time, b) = Step(g, times, time, b)
<1>0. b[1] \in Int /\ b[2] \in Int /\ Middle(b) \in Int
  BY DEF Bounds, Middle
<1>1. Middle(b) + 1 <= b[2] => f[<<Middle(b) + 1, b[2]>>] = g[<<Middle(b) + 1, b[2]>>]
  BY BoundsShrink
<1>2. b[1] <= b[2] => f[<<b[1], Middle(b) - 1>>] = g[<<b[1], Middle(b) - 1>>]
  BY BoundsShrink
<1> QED
  BY <1>0, <1>1, <1>2 DEF Step

\* So the recursion of the search is defined for all bounds.
LEMMA SearchExists ==
    ASSUME NEW times, NEW time, Len(times) \in Nat
    PROVE  \E search : IsSearch(search, times, time)
<1> DEFINE n == Len(times)
           Narrow(k) == {b \in Bounds(n) : Width(b) <= k}
           IsPart(g, k) == g = [b \in Narrow(k) |-> Step(g, times, time, b)]
           T == {k \in Nat : ~ \E g : IsPart(g, k)}
<1>0. \A b \in Bounds(n) : Width(b) \in Nat
  BY BoundsShrink
<1>1. T = {}
  <2> SUFFICES ASSUME T # {} PROVE FALSE
    OBVIOUS
  <2>0. T \subseteq Nat
    OBVIOUS
  <2>1. PICK k \in T : \A j \in T : k <= j
    BY LeastElement
  <2>2. PICK g : k > 0 => IsPart(g, k - 1)
    <3>1. CASE k = 0
      BY <3>1
    <3>2. CASE k > 0
      <4>1. k - 1 \in Nat /\ k - 1 < k
        BY <2>1, <3>2
      <4>2. k - 1 \notin T
        <5> HIDE DEF T
        <5> QED
          BY <2>1, <4>1, <2>0
      <4> QED
        BY <4>1, <4>2
    <3> QED
      BY <3>1, <3>2, <2>1
  <2> DEFINE h == [b \in Narrow(k) |-> IF Width(b) < k THEN g[b] ELSE Step(g, times, time, b)]
  <2>3. \A b \in Narrow(k) : h[b] = Step(h, times, time, b)
    <3> SUFFICES ASSUME NEW b \in Narrow(k) PROVE h[b] = Step(h, times, time, b)
      OBVIOUS
    <3>1. b \in Bounds(n) /\ Width(b) <= k /\ k \in Nat /\ Width(b) \in Nat
      BY <1>0, <2>1
    <3>2. \A c \in Bounds(n) : Width(c) < Width(b) => c \in Narrow(k) /\ Width(c) < k
      BY <1>0, <3>1
    <3>3. \A c \in Bounds(n) : Width(c) < Width(b) => g[c] = h[c]
      BY <3>2
    <3>4. Step(g, times, time, b) = Step(h, times, time, b)
      <4> HIDE DEF h
      <4> QED
        BY <3>1, <3>3, StepLooksInside
    <3>5. CASE Width(b) = k
      <4>1. h[b] = Step(g, times, time, b)
        BY <3>1, <3>5
      <4> QED
        BY <4>1, <3>4
    <3>6. CASE Width(b) < k
      <4>1. k > 0 /\ b \in Narrow(k - 1)
        BY <3>1, <3>6
      <4>2. g = [c \in Narrow(k - 1) |-> Step(g, times, time, c)]
        BY <4>1, <2>2
      <4>3. g[b] = Step(g, times, time, b)
        <5> HIDE DEF Narrow
        <5> QED
          BY <4>1, <4>2
      <4>4. h[b] = g[b]
        BY <3>6, <3>1
      <4> QED
        BY <4>3, <4>4, <3>4
    <3> QED
      BY <3>1, <3>5, <3>6
  <2>4. IsPart(h, k)
    <3> DEFINE f == [b \in Narrow(k) |-> Step(h, times, time, b)]
    <3>1. h = f
      <4>1. \A b \in Narrow(k) : h[b] = f[b]
        <5> HIDE DEF h, Narrow
        <5> QED
          BY <2>3
      <4> QED
        BY <4>1
    <3> QED
      BY <3>1
  <2> QED
    BY <2>1, <2>4
<1>2. Narrow(n + 1) = Bounds(n)
  <2>1. \A b \in Bounds(n) : Width(b) <= n + 1
    BY DEF Bounds, Width
  <2> QED
    BY <2>1
<1>3. PICK g : IsPart(g, n + 1)
  <2>1. n + 1 \in Nat
    OBVIOUS
  <2>2. \A k \in Nat : \E g : IsPart(g, k)
    <3> HIDE DEF IsPart
    <3> QED
      BY <1>1
  <2> QED
    BY <2>1, <2>2
<1> QED
  BY <1>2, <1>3 DEF IsSearch


\* PositionForItem is this search, from all rows.
LEMMA PositionSearches ==
    ASSUME NEW times, NEW time, Len(times) \in Nat, times # <<>>
    PROVE  \E search : /\ IsSearch(search, times, time)
                       /\ PositionForItem(times, time) = search[<<0, Len(times) - 1>>]
<1> DEFINE search == CHOOSE f : IsSearch(f, times, time)
<1>1. IsSearch(search, times, time)
  BY SearchExists
<1>2. PositionForItem(times, time) = search[<<0, Len(times) - 1>>]
  BY DEF PositionForItem, IsSearch, Step
<1> QED
  BY <1>1, <1>2

\* A position at which a row with this time keeps the order.
FitsAt(p, times, time) ==
    /\ p \in 0 .. Len(times)
    /\ \A i \in 1 .. p : times[i] >= time
    /\ \A i \in (p + 1) .. Len(times) : times[i] <= time

\* The rows outside the bounds are where they belong.
Encloses(b, times, time) ==
    /\ b \in Bounds(Len(times)) /\ b[1] <= b[2] + 1 /\ b[2] < Len(times)
    /\ \A i \in 1 .. b[1] : times[i] >= time
    /\ \A i \in (b[2] + 2) .. Len(times) : times[i] <= time

Descending(times) == \A i, j \in DOMAIN times : i < j => times[i] >= times[j]

LEMMA HalfOf ==
    ASSUME NEW a \in Nat
    PROVE  a \div 2 \in Nat /\ 2 * (a \div 2) <= a /\ a <= 2 * (a \div 2) + 1
OBVIOUS

\* The search finds a place among the rows.
LEMMA SearchStaysInside ==
    ASSUME NEW times \in Seq(Nat), NEW time \in Nat, NEW search, times # <<>>,
           IsSearch(search, times, time),
           NEW b \in Bounds(Len(times)), b[1] <= b[2] + 1, b[2] < Len(times),
           \A c \in Bounds(Len(times)) : Width(c) < Width(b) /\ c[1] <= c[2] + 1 /\ c[2] < Len(times)
               => /\ search[c] \in 0 .. Len(times)
                  /\ Descending(times) /\ Encloses(c, times, time) => FitsAt(search[c], times, time)
    PROVE  /\ search[b] \in 0 .. Len(times)
           /\ Descending(times) /\ Encloses(b, times, time) => FitsAt(search[b], times, time)
<1> DEFINE n == Len(times)
           low == b[1]
           high == b[2]
           pos == Middle(b)
<1>1. n \in Nat /\ n > 0 /\ DOMAIN times = 1 .. n /\ \A i \in 1 .. n : times[i] \in Nat
  OBVIOUS
<1>2. low \in 0 .. n /\ high \in (-1) .. (n - 1) /\ low <= high + 1
  BY DEF Bounds
<1>3. /\ pos \in Nat /\ pos < n
      /\ low <= high => low <= pos /\ pos <= high
      /\ low > high => low = high + 1 /\ (low = 0 => pos = 0) /\ (low > 0 => pos = high)
  <2>1. CASE low + high < 0
    BY <1>1, <1>2, <2>1 DEF Middle
  <2>2. CASE low + high >= 0
    <3>1. low + high \in Nat /\ low \in Int /\ high \in Int
      BY <1>2, <2>2
    <3>2. pos = (low + high) \div 2
      BY <3>1 DEF Middle
    <3>3. pos \in Nat /\ 2 * pos <= low + high /\ low + high <= 2 * pos + 1
      BY <3>1, <3>2, HalfOf
    <3> HIDE DEF pos, low, high, n
    <3> QED
      BY <3>1, <3>3, <1>1, <1>2
  <2> QED
    BY <2>1, <2>2, <1>2
<1> DEFINE other == times[pos + 1]
<1>4. other \in Nat
  BY <1>1, <1>3
<1>5. search[b] = Step(search, times, time, b)
  BY DEF IsSearch
<1>6. CASE low = pos /\ time > other
  <2>1. search[b] = pos
    BY <1>5, <1>6 DEF Step
  <2>2. ASSUME Descending(times), Encloses(b, times, time) PROVE FitsAt(pos, times, time)
    <3>1. ASSUME NEW i \in (pos + 1) .. n PROVE times[i] <= time
      <4>1. i \in 1 .. n /\ pos + 1 \in 1 .. n /\ pos + 1 <= i
        BY <1>1, <1>3
      <4>2. times[pos + 1] >= times[i]
        BY <4>1, <2>2, <1>1 DEF Descending
      <4> QED
        BY <4>1, <4>2, <1>1, <1>6
    <3>2. \A i \in 1 .. pos : times[i] >= time
      BY <1>6, <2>2 DEF Encloses
    <3> QED
      BY <3>1, <3>2, <1>1, <1>3 DEF FitsAt
  <2> QED
    BY <2>1, <2>2, <1>1, <1>3
<1>7. CASE ~(low = pos /\ time > other) /\ other > time
  <2>1. Descending(times) => \A i \in 1 .. (pos + 1) : times[i] >= time
    <3> SUFFICES ASSUME Descending(times), NEW i \in 1 .. (pos + 1) PROVE times[i] >= time
      OBVIOUS
    <3>1. i \in 1 .. n /\ pos + 1 \in 1 .. n /\ i <= pos + 1
      BY <1>1, <1>3
    <3>2. times[i] >= times[pos + 1]
      <4>1. i = pos + 1 \/ i < pos + 1
        BY <3>1, <1>3
      <4>2. times[pos + 1] \in Nat /\ i \in DOMAIN times /\ pos + 1 \in DOMAIN times
        BY <3>1, <1>1
      <4> QED
        BY <4>1, <4>2 DEF Descending
    <3> QED
      BY <3>1, <3>2, <1>1, <1>7
  <2>2. CASE pos + 1 > high
    <3>1. search[b] = pos + 1
      BY <1>5, <1>7, <2>2 DEF Step
    <3>2. pos + 1 >= high + 1 /\ pos + 1 \in 0 .. n
      <4>1. pos \in Nat /\ n \in Nat /\ high \in Int /\ pos < n /\ pos + 1 > high
        BY <1>1, <1>2, <1>3, <2>2
      <4> HIDE DEF pos, high, n
      <4> QED
        BY <4>1
    <3>3. Encloses(b, times, time) => \A i \in (pos + 2) .. n : times[i] <= time
      <4> SUFFICES ASSUME Encloses(b, times, time), NEW i \in (pos + 2) .. n PROVE times[i] <= time
        OBVIOUS
      <4>1. i \in (high + 2) .. n
        <5> HIDE DEF pos, high, low
        <5> QED
          BY <1>1, <1>2, <1>3, <2>2
      <4> QED
        BY <4>1 DEF Encloses
    <3> QED
      BY <2>1, <3>1, <3>2, <3>3, <1>1, <1>3 DEF FitsAt
  <2>3. CASE pos + 1 <= high
    <3> DEFINE c == <<pos + 1, high>>
    <3>1. c \in Bounds(n) /\ Width(c) < Width(b)
      BY <2>3, <1>1, BoundsShrink
    <3>2. c[1] = pos + 1 /\ c[2] = high /\ c[1] <= c[2] + 1 /\ c[2] < n
      <4>1. pos \in Nat /\ n \in Nat /\ high \in Int /\ high < n /\ pos + 1 <= high
        BY <1>1, <1>2, <1>3, <2>3
      <4>2. c[1] = pos + 1 /\ c[2] = high
        OBVIOUS
      <4> HIDE DEF pos, high, n, c
      <4> QED
        BY <4>1, <4>2
    <3>3. search[b] = search[c]
      BY <1>3, <1>2, <1>5, <1>7, <2>3 DEF Step
    <3>4. Descending(times) /\ Encloses(b, times, time) => Encloses(c, times, time)
      <4> HIDE DEF c
      <4> QED
        BY <2>1, <3>1, <3>2 DEF Encloses
    <3> HIDE DEF c
    <3> QED
      BY <3>1, <3>2, <3>3, <3>4
  <2> QED
    BY <2>2, <2>3, <1>2, <1>3
<1>8. CASE ~(low = pos /\ time > other) /\ ~(other > time)
  <2>1. Descending(times) => \A i \in (pos + 1) .. n : times[i] <= time
    <3> SUFFICES ASSUME Descending(times), NEW i \in (pos + 1) .. n PROVE times[i] <= time
      OBVIOUS
    <3>1. i \in 1 .. n /\ pos + 1 \in 1 .. n /\ pos + 1 <= i
      BY <1>1, <1>3
    <3>2. times[pos + 1] >= times[i] /\ times[pos + 1] <= time
      <4>1. times[pos + 1] <= time
        BY <1>4, <1>8
      <4>2. i = pos + 1 \/ pos + 1 < i
        BY <3>1, <1>3
      <4>3. times[pos + 1] >= times[i]
        BY <3>1, <1>1, <4>2 DEF Descending
      <4> QED
        BY <4>1, <4>3
    <3> QED
      BY <3>1, <3>2, <1>1
  <2>2. CASE low > high
    <3>1. search[b] = pos
      BY <1>5, <1>8, <2>2 DEF Step
    <3>2. Encloses(b, times, time) => \A i \in 1 .. pos : times[i] >= time
      <4> SUFFICES ASSUME Encloses(b, times, time), NEW i \in 1 .. pos PROVE times[i] >= time
        OBVIOUS
      <4>1. pos <= low
        <5> HIDE DEF pos, high, low
        <5> QED
          BY <1>2, <1>3, <2>2
      <4>2. i \in 1 .. low
        BY <4>1, <1>2, <1>3
      <4> QED
        BY <4>2 DEF Encloses
    <3> QED
      BY <2>1, <3>1, <3>2, <1>1, <1>3 DEF FitsAt
  <2>3. CASE low <= high
    <3> DEFINE c == <<low, pos - 1>>
    <3>1. c \in Bounds(n) /\ Width(c) < Width(b)
      BY <2>3, <1>1, BoundsShrink
    <3>2. c[1] = low /\ c[2] = pos - 1 /\ c[1] <= c[2] + 1 /\ c[2] < n
      <4>1. pos \in Nat /\ n \in Nat /\ low \in Int /\ low <= pos /\ pos < n
        BY <1>1, <1>2, <1>3, <2>3
      <4>2. c[1] = low /\ c[2] = pos - 1
        OBVIOUS
      <4> HIDE DEF pos, low, n, c
      <4> QED
        BY <4>1, <4>2
    <3>3. search[b] = search[c]
      <4>1. ~(low > high)
        BY <1>2, <2>3
      <4> QED
        BY <1>5, <1>8, <4>1 DEF Step
    <3>4. Descending(times) /\ Encloses(b, times, time) => Encloses(c, times, time)
      <4> HIDE DEF c
      <4>1. c[2] + 2 = pos + 1
        BY <3>2, <1>3
      <4> QED
        BY <2>1, <3>1, <3>2, <4>1 DEF Encloses
    <3> HIDE DEF c
    <3> QED
      BY <3>1, <3>2, <3>3, <3>4
  <2> QED
    BY <2>2, <2>3, <1>2, <1>3
<1> QED
  BY <1>6, <1>7, <1>8

(* The search ends within the list; in a list whose times descend, it      *)
(* finds a place that keeps them so.                                       *)
LEMMA PositionKeepsOrder ==
    ASSUME NEW times \in Seq(Nat), NEW time \in Nat
    PROVE  /\ PositionForItem(times, time) \in 0 .. Len(times)
           /\ Descending(times) => FitsAt(PositionForItem(times, time), times, time)
<1>1. CASE times = <<>>
  BY <1>1 DEF PositionForItem, FitsAt
<1>2. CASE times # <<>>
  <2> DEFINE n == Len(times)
  <2>0. n \in Nat /\ n > 0
    BY <1>2
  <2>1. PICK search : /\ IsSearch(search, times, time)
                      /\ PositionForItem(times, time) = search[<<0, n - 1>>]
    BY <1>2, <2>0, PositionSearches
  <2> DEFINE Fine(b) == /\ search[b] \in 0 .. n
                        /\ Descending(times) /\ Encloses(b, times, time)
                               => FitsAt(search[b], times, time)
             Possible == {b \in Bounds(n) : b[1] <= b[2] + 1 /\ b[2] < n}
             T == {k \in Nat : \E b \in Possible : Width(b) = k /\ ~Fine(b)}
  <2>2. T = {}
    <3> SUFFICES ASSUME T # {} PROVE FALSE
      OBVIOUS
    <3>1. T \subseteq Nat
      OBVIOUS
    <3>2. PICK k \in T : \A j \in T : k <= j
      BY <3>1, LeastElement
    <3>3. PICK b \in Possible : Width(b) = k /\ ~Fine(b)
      OBVIOUS
    <3>4. ASSUME NEW c \in Possible, Width(c) < Width(b) PROVE Fine(c)
      <4>1. Width(c) \in Nat /\ Width(b) \in Nat
        BY <2>0, BoundsShrink
      <4>2. Width(c) \notin T
        <5> HIDE DEF T
        <5> QED
          BY <3>2, <3>3, <3>4, <4>1, <3>1
      <4> HIDE DEF Fine
      <4> QED
        BY <4>1, <4>2
    <3>5. Fine(b)
      <4>1. b \in Bounds(n) /\ b[1] <= b[2] + 1 /\ b[2] < n
        BY <3>3
      <4>2. \A c \in Bounds(n) : Width(c) < Width(b) /\ c[1] <= c[2] + 1 /\ c[2] < n => Fine(c)
        <5> HIDE DEF Fine
        <5> QED
          BY <3>4
      <4> QED
        BY <4>1, <4>2, <1>2, <2>1, SearchStaysInside
    <3> QED
      BY <3>3, <3>5
  <2>3. <<0, n - 1>> \in Possible
    BY <2>0 DEF Bounds
  <2>4. Fine(<<0, n - 1>>)
    <3>1. Width(<<0, n - 1>>) \in Nat
      BY <2>0, <2>3, BoundsShrink
    <3> HIDE DEF Fine, Possible
    <3> QED
      BY <2>2, <2>3, <3>1
  <2>5. Encloses(<<0, n - 1>>, times, time)
    BY <2>0, <2>3 DEF Encloses
  <2> QED
    BY <2>1, <2>4, <2>5
<1> QED
  BY <1>1, <1>2

-----------------------------------------------------------------------------
(* Lists                                                                   *)

\* What InsertAt makes, and where.
Inserted(S, longer, s, q, e) ==
    /\ longer \in Seq(S)
    /\ Len(longer) = Len(s) + 1
    /\ \A i \in 1 .. Len(s) : i < q => longer[i] = s[i]
    /\ longer[q] = e
    /\ \A i \in 1 .. Len(s) : i >= q => longer[i + 1] = s[i]

LEMMA RowAfterInsertion ==
    ASSUME NEW S, NEW s \in Seq(S), NEW q \in 1 .. (Len(s) + 1), NEW e \in S
    PROVE  Inserted(S, InsertAt(s, q, e), s, q, e)
<1> DEFINE front == SubSeq(s, 1, q - 1)
           back == SubSeq(s, q, Len(s))
           middle == front \o <<e>>
           n == Len(s)
<1>1. n \in Nat /\ q \in Nat /\ 1 <= q /\ q <= n + 1 /\ \A i \in 1 .. n : s[i] \in S
  BY ElementOfSeq
<1>2. /\ front \in Seq(S) /\ Len(front) = q - 1
      /\ \A i \in 1 .. (q - 1) : front[i] = s[i]
  BY <1>1
<1>3. /\ back \in Seq(S) /\ Len(back) = n - q + 1
      /\ \A i \in 1 .. (n - q + 1) : back[i] = s[q + i - 1]
  BY <1>1
<1>4. InsertAt(s, q, e) = middle \o back
  BY DEF InsertAt
<1>5. /\ middle \in Seq(S) /\ Len(middle) = q /\ middle[q] = e
      /\ \A i \in 1 .. (q - 1) : middle[i] = s[i]
  <2> HIDE DEF front
  <2> QED
    BY <1>1, <1>2
<1> HIDE DEF n
<1>6. /\ middle \o back \in Seq(S) /\ Len(middle \o back) = n + 1
      /\ \A i \in 1 .. q : (middle \o back)[i] = middle[i]
      /\ \A i \in (q + 1) .. (n + 1) : (middle \o back)[i] = back[i - q]
  <2>1. Len(back) + Len(middle) = n + 1 /\ Len(middle) = q
    BY <1>1, <1>3, <1>5
  <2> HIDE DEF middle, back
  <2>2. /\ middle \o back \in Seq(S) /\ Len(middle \o back) = n + 1
        /\ \A i \in 1 .. q : (middle \o back)[i] = middle[i]
    <3>1. middle \in Seq(S) /\ back \in Seq(S)
      BY <1>3, <1>5
    <3>2. middle \o back \in Seq(S) /\ Len(middle \o back) = Len(middle) + Len(back)
          /\ \A i \in 1 .. Len(middle) : (middle \o back)[i] = middle[i]
      BY <3>1
    <3>3. Len(middle) + Len(back) = n + 1
      BY <2>1, <1>1, <1>3
    <3> QED
      BY <2>1, <3>2, <3>3
  <2>3. \A i \in (q + 1) .. (n + 1) : (middle \o back)[i] = back[i - q]
    <3> SUFFICES ASSUME NEW i \in (q + 1) .. (n + 1) PROVE (middle \o back)[i] = back[i - q]
      OBVIOUS
    <3>1. middle \in Seq(S) /\ back \in Seq(S) /\ Len(middle) = q /\ Len(back) \in Nat
      BY <1>3, <1>5
    <3>2. i \in 1 .. (Len(middle) + Len(back)) /\ i > Len(middle)
      BY <2>1, <1>1, <3>1
    <3> QED
      BY <3>1, <3>2
  <2> QED
    BY <2>2, <2>3
<1> DEFINE new == middle \o back
<1> HIDE DEF new
<1>7. \A i \in 1 .. n : i >= q => new[i + 1] = s[i]
  <2> SUFFICES ASSUME NEW i \in 1 .. n, i >= q PROVE new[i + 1] = s[i]
    OBVIOUS
  <2>1. i + 1 \in (q + 1) .. (n + 1) /\ (i + 1) - q \in 1 .. (n - q + 1)
        /\ q + ((i + 1) - q) - 1 = i
    BY <1>1
  <2>2. new[i + 1] = back[(i + 1) - q]
    BY <2>1, <1>6 DEF new
  <2> HIDE DEF back
  <2> QED
    BY <2>1, <2>2, <1>3
<1>8. \A i \in 1 .. n : i < q => new[i] = s[i]
  <2> SUFFICES ASSUME NEW i \in 1 .. n, i < q PROVE new[i] = s[i]
    OBVIOUS
  <2>1. i \in 1 .. q /\ i \in 1 .. (q - 1)
    BY <1>1
  <2> HIDE DEF middle, back
  <2> QED
    BY <2>1, <1>5, <1>6 DEF new
<1>9. new[q] = e
  <2>1. q \in 1 .. q
    BY <1>1
  <2> HIDE DEF middle, back
  <2> QED
    BY <2>1, <1>5, <1>6 DEF new
<1>10. new \in Seq(S) /\ Len(new) = n + 1 /\ new = InsertAt(s, q, e)
  BY <1>4, <1>6 DEF new
<1>11. Inserted(S, new, s, q, e)
  BY <1>7, <1>8, <1>9, <1>10 DEF n, Inserted
<1> QED
  BY <1>10, <1>11

\* What RemoveAt leaves, and where.
LEMMA RemovedAt ==
    ASSUME NEW S, NEW s \in Seq(S), NEW p \in 1 .. Len(s)
    PROVE  /\ RemoveAt(s, p) \in Seq(S)
           /\ Len(RemoveAt(s, p)) = Len(s) - 1
           /\ \A i \in 1 .. (p - 1) : RemoveAt(s, p)[i] = s[i]
           /\ \A i \in p .. (Len(s) - 1) : RemoveAt(s, p)[i] = s[i + 1]
<1> DEFINE front == SubSeq(s, 1, p - 1)
           back == SubSeq(s, p + 1, Len(s))
<1>1. Len(s) \in Nat /\ p \in Nat /\ 1 <= p /\ p <= Len(s) /\ \A i \in 1 .. Len(s) : s[i] \in S
  BY ElementOfSeq
<1>2. /\ front \in Seq(S) /\ Len(front) = p - 1
      /\ \A i \in 1 .. (p - 1) : front[i] = s[i]
  BY <1>1
<1>3. /\ back \in Seq(S) /\ Len(back) = Len(s) - p
      /\ \A i \in 1 .. (Len(s) - p) : back[i] = s[p + i]
  BY <1>1
<1>4. RemoveAt(s, p) = front \o back
  BY <1>1 DEF RemoveAt
<1>6. /\ front \o back \in Seq(S) /\ Len(front \o back) = Len(s) - 1
      /\ \A i \in 1 .. (p - 1) : (front \o back)[i] = front[i]
      /\ \A i \in p .. (Len(s) - 1) : (front \o back)[i] = back[i - (p - 1)]
  <2> HIDE DEF front, back
  <2>1. front \in Seq(S) /\ back \in Seq(S) /\ Len(front) = p - 1 /\ Len(back) = Len(s) - p
    BY <1>2, <1>3
  <2>2. Len(front) + Len(back) = Len(s) - 1
    BY <2>1, <1>1
  <2>3. /\ front \o back \in Seq(S) /\ Len(front \o back) = Len(front) + Len(back)
        /\ \A i \in 1 .. Len(front) : (front \o back)[i] = front[i]
    <3>1. front \in Seq(S) /\ back \in Seq(S)
      BY <2>1
    <3> QED
      BY <3>1
  <2>4. ASSUME NEW i \in p .. (Len(s) - 1) PROVE (front \o back)[i] = back[i - (p - 1)]
    <3>1. i \in 1 .. (Len(front) + Len(back)) /\ i > Len(front)
      BY <2>1, <2>2, <1>1
    <3>2. (front \o back)[i] = back[i - Len(front)]
      <4>1. front \in Seq(S) /\ back \in Seq(S)
        BY <2>1
      <4> QED
        BY ONLY <4>1, <3>1
    <3> QED
      BY <3>2, <2>1
  <2> QED
    BY <2>1, <2>2, <2>3, <2>4
<1>7. \A i \in p .. (Len(s) - 1) : (front \o back)[i] = s[i + 1]
  <2> SUFFICES ASSUME NEW i \in p .. (Len(s) - 1) PROVE (front \o back)[i] = s[i + 1]
    OBVIOUS
  <2>1. i - (p - 1) \in 1 .. (Len(s) - p) /\ p + (i - (p - 1)) = i + 1
    BY <1>1
  <2> HIDE DEF front, back
  <2> QED
    BY <2>1, <1>3, <1>6
<1> HIDE DEF front, back
<1> QED
  BY <1>1, <1>2, <1>4, <1>6, <1>7

LEMMA AnInsertedRow ==
    ASSUME NEW S, NEW s \in Seq(S), NEW q \in 1 .. (Len(s) + 1), NEW e \in S,
           NEW i \in 1 .. (Len(s) + 1)
    PROVE  \/ i < q /\ i \in 1 .. Len(s) /\ InsertAt(s, q, e)[i] = s[i]
           \/ i = q /\ InsertAt(s, q, e)[i] = e
           \/ q < i /\ i - 1 \in 1 .. Len(s) /\ InsertAt(s, q, e)[i] = s[i - 1]
<1> PICK new : new = InsertAt(s, q, e)
  OBVIOUS
<1>0. Inserted(S, new, s, q, e)
  BY RowAfterInsertion
<1>1. Len(s) \in Nat /\ q \in Nat /\ i \in Nat
  OBVIOUS
<1>2. CASE i < q
  <2>1. i \in 1 .. Len(s)
    BY <1>1, <1>2
  <2>2. \A k \in 1 .. Len(s) : k < q => new[k] = s[k]
    BY ONLY <1>0 DEF Inserted
  <2> QED
    BY <2>1, <2>2, <1>2
<1>3. CASE i = q
  <2>1. new[q] = e
    BY ONLY <1>0 DEF Inserted
  <2> QED
    BY <1>3, <2>1
<1>4. CASE i > q
  <2>1. PICK j \in 1 .. Len(s) : i = j + 1 /\ j >= q
    <3>1. i - 1 \in 1 .. Len(s) /\ i = (i - 1) + 1 /\ i - 1 >= q
      BY <1>1, <1>4
    <3> QED
      BY <3>1
  <2>2. new[j + 1] = s[j]
    BY ONLY <2>1, <1>0 DEF Inserted
  <2>3. i - 1 = j
    BY <1>1, <2>1
  <2> QED
    BY <2>1, <2>2, <2>3, <1>4
<1> QED
  BY <1>1, <1>2, <1>3, <1>4

\* What holds of nothing, and of k if it holds of k - 1, holds of every number.
LEMMA Climb ==
    ASSUME NEW n \in Nat, NEW T, 0 \in T, \A k \in 1 .. n : k - 1 \in T => k \in T
    PROVE  n \in T
<1> DEFINE Missed == {k \in 0 .. n : k \notin T}
<1>1. Missed = {}
  <2> SUFFICES ASSUME Missed # {} PROVE FALSE
    OBVIOUS
  <2>1. PICK k \in Missed : \A j \in Missed : k <= j
    <3>1. Missed \subseteq Nat
      OBVIOUS
    <3> HIDE DEF Missed
    <3> QED
      BY <3>1, LeastElement
  <2>2. k \in 1 .. n /\ k - 1 \in 0 .. n /\ ~(k <= k - 1)
    BY <2>1
  <2>3. k - 1 \notin Missed
    <3> HIDE DEF Missed
    <3> QED
      BY <2>1, <2>2
  <2> QED
    BY <2>1, <2>2, <2>3
<1>2. n \in 0 .. n
  OBVIOUS
<1> QED
  BY <1>1, <1>2

\* The same rows in another order: row x of the new list was row p[x].
Permuted(new, old) ==
    \E p \in [DOMAIN new -> DOMAIN old] :
        /\ \A x \in DOMAIN new : new[x] = old[p[x]]
        /\ \A x, y \in DOMAIN new : p[x] = p[y] => x = y
        /\ \A i \in DOMAIN old : \E x \in DOMAIN new : p[x] = i

LEMMA InsertedRow ==
    ASSUME NEW S, NEW s \in Seq(S), NEW q \in 1 .. (Len(s) + 1), NEW e \in S
    PROVE  InsertAt(s, q, e) \in Seq(S) /\ Permuted(InsertAt(s, q, e), Append(s, e))
<1> DEFINE n == Len(s)
           p == [x \in 1 .. (n + 1) |-> IF x < q THEN x ELSE IF x = q THEN n + 1 ELSE x - 1]
<1> PICK new : new = InsertAt(s, q, e)
  OBVIOUS
<1> PICK old : old = Append(s, e)
  OBVIOUS
<1>1. n \in Nat /\ q \in Nat /\ 1 <= q /\ q <= n + 1
  OBVIOUS
<1>2. /\ new \in Seq(S) /\ Len(new) = n + 1
      /\ \A x \in 1 .. (n + 1) : \/ x < q /\ x \in 1 .. n /\ new[x] = s[x]
                                 \/ x = q /\ new[x] = e
                                 \/ q < x /\ x - 1 \in 1 .. n /\ new[x] = s[x - 1]
  <2>1. new \in Seq(S) /\ Len(new) = Len(s) + 1
    <3>1. Inserted(S, new, s, q, e)
      BY RowAfterInsertion
    <3> QED
      BY ONLY <3>1 DEF Inserted
  <2>2. \A x \in 1 .. (Len(s) + 1) :
            \/ x < q /\ x \in 1 .. Len(s) /\ InsertAt(s, q, e)[x] = s[x]
            \/ x = q /\ InsertAt(s, q, e)[x] = e
            \/ q < x /\ x - 1 \in 1 .. Len(s) /\ InsertAt(s, q, e)[x] = s[x - 1]
    BY AnInsertedRow, SMTT(40)
  <2> QED
    BY <2>1, <2>2, Zenon
<1>3. DOMAIN new = 1 .. (n + 1)
  BY <1>2
<1>4. DOMAIN old = 1 .. (n + 1) /\ (\A i \in 1 .. n : old[i] = s[i]) /\ old[n + 1] = e
  OBVIOUS
<1> HIDE DEF n
<1>5. p \in [DOMAIN new -> DOMAIN old]
  BY <1>1, <1>3, <1>4
<1>6. \A x \in DOMAIN new : new[x] = old[p[x]]
  BY <1>1, <1>2, <1>3, <1>4
<1>7. \A x, y \in DOMAIN new : p[x] = p[y] => x = y
  BY <1>1, <1>3
<1>8. ASSUME NEW i \in DOMAIN old PROVE \E x \in DOMAIN new : p[x] = i
  <2> DEFINE x == IF i < q THEN i ELSE IF i = n + 1 THEN q ELSE i + 1
  <2>1. i \in 1 .. (n + 1)
    BY <1>4
  <2>2. x \in DOMAIN new /\ p[x] = i
    <3>1. CASE i < q
      BY <3>1, <2>1, <1>1, <1>3
    <3>2. CASE i >= q /\ i = n + 1
      BY <3>2, <2>1, <1>1, <1>3
    <3>3. CASE i >= q /\ i # n + 1
      BY <3>3, <2>1, <1>1, <1>3
    <3> QED
      BY <3>1, <3>2, <3>3, <2>1, <1>1
  <2> QED
    BY <2>2
<1> HIDE DEF p
<1>9. Permuted(new, old)
  BY <1>5, <1>6, <1>7, <1>8 DEF Permuted
<1> QED
  BY <1>2, <1>9

\* Row a moves to place b; where row x was before.
Origin(a, b, x) == IF x = b THEN a
                   ELSE IF x < b THEN IF x < a THEN x ELSE x + 1
                   ELSE IF x - 1 < a THEN x - 1 ELSE x

Moved(new, s, a, b) ==
    /\ Len(new) = Len(s)
    /\ \A x \in 1 .. Len(s) : Origin(a, b, x) \in 1 .. Len(s) /\ new[x] = s[Origin(a, b, x)]
    /\ Permuted(new, s)

LEMMA MovedRow ==
    ASSUME NEW S, NEW s \in Seq(S), NEW a \in 1 .. Len(s), NEW b \in 1 .. Len(s)
    PROVE  /\ InsertAt(RemoveAt(s, a), b, s[a]) \in Seq(S)
           /\ Moved(InsertAt(RemoveAt(s, a), b, s[a]), s, a, b)
<1> PICK new : new = InsertAt(RemoveAt(s, a), b, s[a])
  OBVIOUS
<1> DEFINE n == Len(s)
<1> PICK rest : rest = RemoveAt(s, a)
  OBVIOUS
<1>1. n \in Nat /\ a \in 1 .. n /\ b \in 1 .. n /\ s[a] \in S /\ n >= 1
  OBVIOUS
<1>2. /\ rest \in Seq(S) /\ Len(rest) = n - 1
      /\ \A i \in 1 .. (a - 1) : rest[i] = s[i]
      /\ \A i \in a .. (n - 1) : rest[i] = s[i + 1]
  BY RemovedAt
<1> HIDE DEF n
<1>3. b \in 1 .. (Len(rest) + 1) /\ Len(rest) + 1 = n
  BY <1>1, <1>2
<1>4. new \in Seq(S) /\ Len(new) = n
  <2>1. Inserted(S, InsertAt(rest, b, s[a]), rest, b, s[a])
    BY ONLY <1>1, <1>2, <1>3, RowAfterInsertion
  <2>2. new = InsertAt(rest, b, s[a])
    OBVIOUS
  <2> QED
    BY ONLY <2>1, <2>2, <1>3 DEF Inserted
<1>5. ASSUME NEW x \in 1 .. n
      PROVE  Origin(a, b, x) \in 1 .. n /\ new[x] = s[Origin(a, b, x)]
  <2>1. \/ x < b /\ x \in 1 .. Len(rest) /\ new[x] = rest[x]
        \/ x = b /\ new[x] = s[a]
        \/ b < x /\ x - 1 \in 1 .. Len(rest) /\ new[x] = rest[x - 1]
    <3> PICK e : e = s[a]
      OBVIOUS
    <3>1. x \in 1 .. (Len(rest) + 1) /\ e \in S /\ new = InsertAt(rest, b, e)
      BY <1>1, <1>3
    <3>2. \/ x < b /\ x \in 1 .. Len(rest) /\ InsertAt(rest, b, e)[x] = rest[x]
          \/ x = b /\ InsertAt(rest, b, e)[x] = e
          \/ b < x /\ x - 1 \in 1 .. Len(rest) /\ InsertAt(rest, b, e)[x] = rest[x - 1]
      BY ONLY <3>1, <1>2, <1>3, AnInsertedRow
    <3> QED
      BY <3>1, <3>2
  <2>0. x \in 1 .. n /\ x \in Nat /\ b \in Nat /\ a \in 1 .. n /\ n \in Nat
    BY <1>1
  <2>2. CASE x = b
    BY ONLY <2>0, <2>1, <2>2 DEF Origin
  <2>3. CASE x < b
    <3>1. new[x] = rest[x] /\ x \in 1 .. (n - 1)
      BY ONLY <2>0, <2>1, <2>3, <1>2
    <3>2. CASE x < a
      BY ONLY <2>0, <2>3, <3>1, <3>2, <1>2 DEF Origin
    <3>3. CASE x >= a
      BY ONLY <2>0, <2>3, <3>1, <3>3, <1>2 DEF Origin
    <3> QED
      BY ONLY <3>2, <3>3, <2>0
  <2>4. CASE x > b
    <3>1. new[x] = rest[x - 1] /\ x - 1 \in 1 .. (n - 1)
      BY ONLY <2>0, <2>1, <2>4, <1>2
    <3>2. CASE x - 1 < a
      BY ONLY <2>0, <2>4, <3>1, <3>2, <1>2 DEF Origin
    <3>3. CASE x - 1 >= a
      BY ONLY <2>0, <2>4, <3>1, <3>3, <1>2 DEF Origin
    <3> QED
      BY ONLY <3>2, <3>3, <2>0
  <2> QED
    BY ONLY <2>0, <2>2, <2>3, <2>4
<1> DEFINE p == [x \in 1 .. n |-> Origin(a, b, x)]
<1>6. DOMAIN s = 1 .. n /\ DOMAIN new = 1 .. n
  BY <1>4 DEF n
<1>7. p \in [DOMAIN new -> DOMAIN s] /\ \A x \in DOMAIN new : new[x] = s[p[x]]
  BY <1>5, <1>6
<1>8. \A x, y \in DOMAIN new : p[x] = p[y] => x = y
  BY <1>1, <1>6 DEF Origin
<1>9. ASSUME NEW i \in DOMAIN s PROVE \E x \in DOMAIN new : p[x] = i
  <2>1. i \in 1 .. n
    BY <1>6
  <2>2. CASE i = a
    BY <2>2, <1>1, <1>6 DEF Origin
  <2>3. CASE i < a
    <3> DEFINE x == IF i < b THEN i ELSE i + 1
    <3>1. x \in 1 .. n /\ Origin(a, b, x) = i
      BY <2>1, <2>3, <1>1 DEF Origin
    <3> QED
      BY <3>1, <1>6
  <2>4. CASE i > a
    <3> DEFINE x == IF i - 1 < b THEN i - 1 ELSE i
    <3>1. x \in 1 .. n /\ Origin(a, b, x) = i
      BY <2>1, <2>4, <1>1 DEF Origin
    <3> QED
      BY <3>1, <1>6
  <2> QED
    BY <2>1, <2>2, <2>3, <2>4, <1>1
<1>10. Permuted(new, s)
  <2> HIDE DEF p
  <2> QED
    BY <1>7, <1>8, <1>9 DEF Permuted
<1> QED
  BY <1>4, <1>5, <1>10 DEF n, Moved

-----------------------------------------------------------------------------
(* The rows of the model                                                   *)

RowType == [shown : Copies, threads : Seq(Copies) \ {<<>>}]

\* A row shows one of its threads.
RowsOK(gs) ==
    /\ gs \in Seq(RowType)
    /\ \A i \in DOMAIN gs : gs[i].shown.thread \in ThreadsIn(gs[i].threads)

LEMMA FirstOf ==
    ASSUME NEW rows, rows \subseteq Nat, rows # {}
    PROVE  First(rows) \in rows /\ \A j \in rows : First(rows) <= j
BY LeastElement DEF First

LEMMA CopiesAre ==
    ASSUME NEW copies \in Seq(Copies)
    PROVE  /\ Len(copies) \in Nat /\ DOMAIN copies = 1 .. Len(copies)
           /\ \A i \in DOMAIN copies : /\ copies[i] \in Copies /\ copies[i].thread \in Threads
                                       /\ copies[i].time \in Nat
                                       /\ copies[i] = [thread |-> copies[i].thread, time |-> copies[i].time,
                                                       people |-> copies[i].people]
           /\ CopiesAmong(copies) \subseteq Copies /\ ThreadsIn(copies) \subseteq Threads
           /\ copies = <<>> <=> ThreadsIn(copies) = {}
<1>1. Stamps \cup {0} \subseteq Nat
  BY CacheAssumption
<1>2. Len(copies) \in Nat /\ DOMAIN copies = 1 .. Len(copies)
  OBVIOUS
<1>3. \A i \in DOMAIN copies : copies[i] \in Copies
  OBVIOUS
<1>4. \A copy \in Copies : /\ copy.thread \in Threads /\ copy.time \in Stamps \cup {0}
                           /\ copy = [thread |-> copy.thread, time |-> copy.time, people |-> copy.people]
  BY DEF Copies
<1>5. copies = <<>> <=> ThreadsIn(copies) = {}
  <2>1. copies = <<>> => DOMAIN copies = {}
    OBVIOUS
  <2>2. copies # <<>> => 1 \in DOMAIN copies
    OBVIOUS
  <2> QED
    BY <2>1, <2>2 DEF ThreadsIn
<1> QED
  BY <1>1, <1>2, <1>3, <1>4, <1>5 DEF CopiesAmong, ThreadsIn

LEMMA RowsAre ==
    ASSUME NEW gs \in Seq(RowType)
    PROVE  /\ Len(gs) \in Nat /\ DOMAIN gs = 1 .. Len(gs)
           /\ \A i \in DOMAIN gs :
                /\ gs[i] \in RowType /\ gs[i].shown \in Copies /\ gs[i].shown.time \in Nat
                /\ gs[i].threads \in Seq(Copies) /\ gs[i].threads # <<>>
                /\ gs[i] = [shown |-> gs[i].shown, threads |-> gs[i].threads]
           /\ Times(gs) \in Seq(Nat) /\ Len(Times(gs)) = Len(gs)
           /\ \A i \in DOMAIN gs : Times(gs)[i] = gs[i].shown.time
<1>1. Len(gs) \in Nat /\ DOMAIN gs = 1 .. Len(gs) /\ \A i \in DOMAIN gs : gs[i] \in RowType
  OBVIOUS
<1>2. \A row \in RowType : /\ row.shown \in Copies /\ row.threads \in Seq(Copies) /\ row.threads # <<>>
                           /\ row = [shown |-> row.shown, threads |-> row.threads]
  BY DEF RowType
<1>3. \A copy \in Copies : copy.time \in Nat
  <2>1. Stamps \cup {0} \subseteq Nat
    BY CacheAssumption
  <2> QED
    BY <2>1 DEF Copies
<1>4. Times(gs) = [i \in 1 .. Len(gs) |-> gs[i].shown.time]
  BY <1>1 DEF Times
<1>5. \A i \in 1 .. Len(gs) : gs[i].shown.time \in Nat
  BY <1>1, <1>2, <1>3
<1>6. Times(gs) \in Seq(Nat) /\ Len(Times(gs)) = Len(gs)
  BY <1>1, <1>4, <1>5
<1> QED
  BY <1>1, <1>2, <1>3, <1>4, <1>6

\* What the rows become when they change places.
LEMMA PermutedRows ==
    ASSUME NEW old \in Seq(RowType), NEW new \in Seq(RowType), Permuted(new, old)
    PROVE  RowsOK(old) => RowsOK(new)
BY DEF Permuted, RowsOK

\* What updateDisplayedThread makes of the rows.
LEMMA ShowNewestDoes ==
    ASSUME NEW gs \in Seq(RowType), NEW i \in DOMAIN gs
    PROVE  \E newest, shown, target :
              /\ newest = gs[i].threads[Newest(gs[i].threads)]
              /\ shown = [gs EXCEPT ![i].shown = newest]
              /\ target = IF PositionForItem(Times(gs), newest.time) + 1 > IndexOf(gs, i)
                          THEN PositionForItem(Times(gs), newest.time)
                          ELSE PositionForItem(Times(gs), newest.time) + 1
              /\ newest \in CopiesAmong(gs[i].threads) /\ newest.time \in Nat
              /\ shown \in Seq(RowType) /\ target \in DOMAIN gs
              /\ ShowNewest(gs, i) \in Seq(RowType) /\ Permuted(ShowNewest(gs, i), shown)
              /\ Moved(ShowNewest(gs, i), shown, IndexOf(gs, i), target)
<1> PICK newest : newest = gs[i].threads[Newest(gs[i].threads)]
  OBVIOUS
<1> PICK shown : shown = [gs EXCEPT ![i].shown = newest]
  OBVIOUS
<1> PICK from : from = IndexOf(gs, i)
  OBVIOUS
<1> PICK position : position = PositionForItem(Times(gs), newest.time) + 1
  OBVIOUS
<1> PICK target : target = IF position > from THEN position - 1 ELSE position
  OBVIOUS
<1> DEFINE copies == gs[i].threads
           same == {j \in DOMAIN gs : gs[j].shown.thread = gs[i].shown.thread}
<1>1. /\ Len(gs) \in Nat /\ DOMAIN gs = 1 .. Len(gs)
      /\ copies \in Seq(Copies) /\ copies # <<>>
  BY RowsAre
<1>2. newest \in CopiesAmong(copies) /\ newest \in Copies /\ newest.time \in Nat
  <2> HIDE DEF copies
  <2>1. Newest(copies) \in DOMAIN copies
    BY <1>1, CopiesAre, NewestOf DEF IsNewest
  <2>2. newest = copies[Newest(copies)]
    BY DEF copies
  <2> QED
    BY <2>1, <2>2, <1>1, CopiesAre DEF CopiesAmong
<1>3. shown \in Seq(RowType) /\ DOMAIN shown = DOMAIN gs
  <2>1. [gs[i] EXCEPT !.shown = newest] \in RowType
    <3>1. gs[i] \in RowType /\ newest \in Copies
      BY <1>2, RowsAre
    <3> QED
      BY ONLY <3>1 DEF RowType
  <2>2. shown = [gs EXCEPT ![i] = [gs[i] EXCEPT !.shown = newest]]
    OBVIOUS
  <2> QED
    BY <2>1, <2>2
<1>4. from \in DOMAIN gs /\ from <= i /\ gs[from].shown.thread = gs[i].shown.thread
  <2>1. same \subseteq Nat /\ i \in same
    BY <1>1
  <2>2. from = First(same)
    BY DEF IndexOf
  <2> HIDE DEF same
  <2>3. from \in same /\ from <= i
    BY <2>1, <2>2, FirstOf
  <2> QED
    BY <2>3 DEF same
<1>5. target \in DOMAIN gs
  <2>1. PositionForItem(Times(gs), newest.time) \in 0 .. Len(gs)
    BY <1>2, RowsAre, PositionKeepsOrder
  <2> QED
    BY <2>1, <1>1, <1>4
<1>6. ShowNewest(gs, i) = InsertAt(RemoveAt(shown, from), target, shown[from])
  BY DEF ShowNewest
<1> HIDE DEF copies, same
<1>7. from \in 1 .. Len(shown) /\ target \in 1 .. Len(shown)
  BY <1>1, <1>3, <1>4, <1>5
<1>8. /\ ShowNewest(gs, i) \in Seq(RowType) /\ Permuted(ShowNewest(gs, i), shown)
      /\ Moved(ShowNewest(gs, i), shown, from, target)
  <2>1. /\ InsertAt(RemoveAt(shown, from), target, shown[from]) \in Seq(RowType)
        /\ Moved(InsertAt(RemoveAt(shown, from), target, shown[from]), shown, from, target)
    BY ONLY <1>3, <1>7, MovedRow
  <2> QED
    BY <2>1, <1>6 DEF Moved
<1>9. target = IF PositionForItem(Times(gs), newest.time) + 1 > IndexOf(gs, i)
               THEN PositionForItem(Times(gs), newest.time)
               ELSE PositionForItem(Times(gs), newest.time) + 1
  <2>1. PositionForItem(Times(gs), newest.time) \in Nat
    BY <1>2, RowsAre, PositionKeepsOrder
  <2> QED
    BY <2>1
<1> QED
  BY <1>2, <1>3, <1>4, <1>5, <1>8, <1>9 DEF copies

\* The copies of the other threads, and no others.
LEMMA OthersLeft ==
    ASSUME NEW copies \in Seq(Copies), NEW t, NEW rest, rest = RemoveAll(copies, t)
    PROVE  /\ rest \in Seq(Copies)
           /\ CopiesAmong(rest) = {copy \in CopiesAmong(copies) : copy.thread # t}
           /\ ThreadsIn(rest) = ThreadsIn(copies) \ {t}
           /\ Distinct(copies) => Distinct(rest)
<1>1. rest \in Seq(Copies) /\ \E at : OthersKept(copies, t, rest, at)
  BY OthersStay
<1>2. PICK at : OthersKept(copies, t, rest, at)
  BY <1>1
<1>3. CopiesAmong(rest) = {copy \in CopiesAmong(copies) : copy.thread # t}
  BY <1>2 DEF OthersKept, CopiesAmong
<1>4. ThreadsIn(rest) = ThreadsIn(copies) \ {t}
  <2>1. \A x \in ThreadsIn(rest) : x \in ThreadsIn(copies) \ {t}
    BY <1>2 DEF OthersKept, ThreadsIn
  <2>2. \A x \in ThreadsIn(copies) \ {t} : x \in ThreadsIn(rest)
    BY <1>2 DEF OthersKept, ThreadsIn
  <2> QED
    BY <2>1, <2>2
<1>5. Distinct(copies) => Distinct(rest)
  <2> SUFFICES ASSUME Distinct(copies), NEW m \in DOMAIN rest, NEW n \in DOMAIN rest, m # n
               PROVE  rest[m].thread # rest[n].thread
    BY DEF Distinct
  <2>1. at[m] # at[n]
    <3>1. DOMAIN rest = 1 .. Len(rest) /\ Len(rest) \in Nat /\ DOMAIN copies = 1 .. Len(copies)
      BY <1>1
    <3>2. at[m] \in 1 .. Len(copies) /\ at[n] \in 1 .. Len(copies) /\ m \in Int /\ n \in Int
      BY <3>1, <1>2 DEF OthersKept
    <3>3. (m < n => at[m] < at[n]) /\ (n < m => at[n] < at[m])
      BY <1>2 DEF OthersKept
    <3> QED
      BY <3>2, <3>3
  <2> QED
    BY <2>1, <1>2 DEF OthersKept, Distinct
<1> QED
  BY <1>1, <1>3, <1>4, <1>5

\* A copy as the service knows it.
Bare(copy) == [thread |-> copy.thread, time |-> copy.time]
BareIn(copies) == {Bare(copy) : copy \in CopiesAmong(copies)}

\* Copies that were taken for new ones: the same but for the people, which are
\* those of the old copy of the thread, if there was one.
Restored(copies, old, new) ==
    /\ copies \in Seq(Copies) /\ DOMAIN copies = DOMAIN new
    /\ \A i \in DOMAIN copies :
          /\ copies[i].thread = new[i].thread /\ copies[i].time = new[i].time
          /\ copies[i].thread \in ThreadsIn(old) =>
                \E copy \in CopiesAmong(old) :
                    copy.thread = copies[i].thread /\ copy.people = copies[i].people
          /\ copies[i].thread \notin ThreadsIn(old) => copies[i] = new[i]

LEMMA RestoreEffect ==
    ASSUME NEW old \in Seq(Copies), NEW new \in Seq(Copies)
    PROVE  Restored(RestoreParticipants(old, new), old, new)
<1> DEFINE Known(i) == {j \in DOMAIN old : old[j].thread = new[i].thread}
           Copied(i) == IF Known(i) = {} THEN new[i]
                        ELSE [new[i] EXCEPT !.people = old[First(Known(i))].people]
<1> PICK copies : copies = RestoreParticipants(old, new)
  OBVIOUS
<1>1. copies = [i \in 1 .. Len(new) |-> Copied(i)] /\ DOMAIN new = 1 .. Len(new) /\ Len(new) \in Nat
  <2>1. DOMAIN new = 1 .. Len(new)
    OBVIOUS
  <2> QED
    BY <2>1 DEF RestoreParticipants
<1>2. ASSUME NEW i \in DOMAIN new
      PROVE  /\ Copied(i) \in Copies
             /\ Copied(i).thread = new[i].thread /\ Copied(i).time = new[i].time
             /\ Copied(i).thread \in ThreadsIn(old) =>
                   \E copy \in CopiesAmong(old) :
                       copy.thread = Copied(i).thread /\ copy.people = Copied(i).people
             /\ Copied(i).thread \notin ThreadsIn(old) => Copied(i) = new[i]
  <2>1. new[i] \in Copies
    OBVIOUS
  <2>2. CASE Known(i) = {}
    <3>1. Copied(i) = new[i]
      BY <2>2
    <3>2. new[i].thread \notin ThreadsIn(old)
      BY <2>2 DEF ThreadsIn
    <3> QED
      BY <2>1, <3>1, <3>2
  <2>3. CASE Known(i) # {}
    <3> DEFINE k == First(Known(i))
    <3>1. k \in DOMAIN old /\ old[k].thread = new[i].thread
      <4>1. Known(i) \subseteq Nat
        OBVIOUS
      <4>2. k \in Known(i)
        <5> HIDE DEF Known
        <5> QED
          BY <4>1, <2>3, FirstOf
      <4> HIDE DEF k
      <4> QED
        BY <4>2
    <3>2. Copied(i) = [new[i] EXCEPT !.people = old[k].people]
      BY <2>3
    <3> HIDE DEF k, Known, Copied
    <3>3. old[k] \in CopiesAmong(old) /\ old[k] \in Copies
      BY <3>1 DEF CopiesAmong
    <3>4. /\ Copied(i) \in Copies /\ Copied(i).thread = new[i].thread /\ Copied(i).time = new[i].time
          /\ Copied(i).people = old[k].people
      BY <2>1, <3>2, <3>3 DEF Copies
    <3>5. Copied(i).thread \in ThreadsIn(old)
      BY <3>1, <3>4 DEF ThreadsIn
    <3> QED
      BY <3>1, <3>3, <3>4, <3>5
  <2> QED
    BY <2>2, <2>3
<1> HIDE DEF Copied
<1>3. \A i \in DOMAIN new : copies[i] = Copied(i)
  BY <1>1
<1>4. copies \in Seq(Copies) /\ DOMAIN copies = DOMAIN new
  <2>1. copies \in [1 .. Len(new) -> Copies]
    BY <1>1, <1>2
  <2> QED
    BY <2>1, <1>1
<1>5. Restored(copies, old, new)
  BY <1>2, <1>3, <1>4 DEF Restored
<1> QED
  BY <1>5

LEMMA RestoredAre ==
    ASSUME NEW old \in Seq(Copies), NEW new \in Seq(Copies), NEW copies, Restored(copies, old, new)
    PROVE  /\ copies \in Seq(Copies) /\ (new # <<>> => copies # <<>>)
           /\ ThreadsIn(copies) = ThreadsIn(new) /\ BareIn(copies) = BareIn(new)
           /\ Distinct(new) => Distinct(copies)
<1>1. copies \in Seq(Copies) /\ DOMAIN copies = DOMAIN new
      /\ \A i \in DOMAIN copies : copies[i].thread = new[i].thread /\ copies[i].time = new[i].time
  BY DEF Restored
<1>2. ThreadsIn(copies) = ThreadsIn(new)
  BY <1>1 DEF ThreadsIn
<1>3. BareIn(copies) = BareIn(new)
  <2>1. \A i \in DOMAIN copies : Bare(copies[i]) = Bare(new[i])
    BY <1>1 DEF Bare
  <2>2. \A list : BareIn(list) = {Bare(list[i]) : i \in DOMAIN list}
    BY DEF BareIn, CopiesAmong
  <2> QED
    BY <1>1, <2>1, <2>2
<1>4. new # <<>> => copies # <<>>
  BY <1>1
<1>5. Distinct(new) => Distinct(copies)
  BY <1>1 DEF Distinct
<1> QED
  BY <1>1, <1>2, <1>3, <1>4, <1>5

\* Rows that have lost nothing but copies of the threads ts: row x was row p[x].
LessBy(new, gs, ts, p) ==
    /\ p \in [DOMAIN new -> DOMAIN gs]
    /\ \A x, y \in DOMAIN new : p[x] = p[y] => x = y
    /\ \A x \in DOMAIN new :
          /\ CopiesAmong(new[x].threads) \subseteq CopiesAmong(gs[p[x]].threads)
          /\ \A copy \in CopiesAmong(gs[p[x]].threads) :
                 copy.thread \notin ts => copy \in CopiesAmong(new[x].threads)
          /\ Distinct(gs[p[x]].threads) => Distinct(new[x].threads)
    /\ \A y \in DOMAIN gs : (\E x \in DOMAIN new : p[x] = y) \/ ThreadsIn(gs[y].threads) \subseteq ts

Less(new, gs, ts) == \E p : LessBy(new, gs, ts, p)

OneRow(gs, t) ==
    \A i, j \in DOMAIN gs :
        t \in ThreadsIn(gs[i].threads) /\ t \in ThreadsIn(gs[j].threads) => i = j

LEMMA ThreadsOfCopies ==
    ASSUME NEW copies
    PROVE  ThreadsIn(copies) = {copy.thread : copy \in CopiesAmong(copies)}
BY DEF ThreadsIn, CopiesAmong

LEMMA LessOfNothing ==
    ASSUME NEW gs, NEW ts
    PROVE  Less(gs, gs, ts)
<1> DEFINE p == [x \in DOMAIN gs |-> x]
<1>1. LessBy(gs, gs, ts, p)
  BY DEF LessBy
<1> QED
  BY <1>1 DEF Less

LEMMA LessAgain ==
    ASSUME NEW a, NEW b, NEW c, NEW ts, NEW us, Less(a, b, ts), Less(b, c, us)
    PROVE  Less(a, c, ts \cup us)
<1>1. PICK p : LessBy(a, b, ts, p)
  BY DEF Less
<1>2. PICK q : LessBy(b, c, us, q)
  BY DEF Less
<1> DEFINE r == [x \in DOMAIN a |-> q[p[x]]]
<1>3. r \in [DOMAIN a -> DOMAIN c] /\ \A x \in DOMAIN a : r[x] = q[p[x]] /\ p[x] \in DOMAIN b
  BY <1>1, <1>2 DEF LessBy
<1> HIDE DEF r
<1>4. \A x, y \in DOMAIN a : r[x] = r[y] => x = y
  BY <1>1, <1>2, <1>3 DEF LessBy
<1>5. ASSUME NEW x \in DOMAIN a
      PROVE  /\ CopiesAmong(a[x].threads) \subseteq CopiesAmong(c[r[x]].threads)
             /\ \A copy \in CopiesAmong(c[r[x]].threads) :
                    copy.thread \notin ts \cup us => copy \in CopiesAmong(a[x].threads)
             /\ Distinct(c[r[x]].threads) => Distinct(a[x].threads)
  <2>1. /\ CopiesAmong(a[x].threads) \subseteq CopiesAmong(b[p[x]].threads)
        /\ \A copy \in CopiesAmong(b[p[x]].threads) :
               copy.thread \notin ts => copy \in CopiesAmong(a[x].threads)
        /\ Distinct(b[p[x]].threads) => Distinct(a[x].threads)
    BY <1>1 DEF LessBy
  <2>2. /\ CopiesAmong(b[p[x]].threads) \subseteq CopiesAmong(c[q[p[x]]].threads)
        /\ \A copy \in CopiesAmong(c[q[p[x]]].threads) :
               copy.thread \notin us => copy \in CopiesAmong(b[p[x]].threads)
        /\ Distinct(c[q[p[x]]].threads) => Distinct(b[p[x]].threads)
    BY <1>2, <1>3 DEF LessBy
  <2> QED
    BY <2>1, <2>2, <1>3
<1>6. ASSUME NEW y \in DOMAIN c
      PROVE  (\E x \in DOMAIN a : r[x] = y) \/ ThreadsIn(c[y].threads) \subseteq ts \cup us
  <2>1. CASE ThreadsIn(c[y].threads) \subseteq us
    BY <2>1
  <2>2. CASE \E z \in DOMAIN b : q[z] = y
    <3>1. PICK z \in DOMAIN b : q[z] = y
      BY <2>2
    <3>2. CASE \E x \in DOMAIN a : p[x] = z
      BY <3>1, <3>2, <1>3
    <3>3. CASE ThreadsIn(b[z].threads) \subseteq ts
      <4>1. \A copy \in CopiesAmong(c[y].threads) :
                copy.thread \notin us => copy \in CopiesAmong(b[z].threads)
        BY <3>1, <1>2 DEF LessBy
      <4>2. ThreadsIn(c[y].threads) \subseteq ts \cup us
        BY <4>1, <3>3, ThreadsOfCopies
      <4> QED
        BY <4>2
    <3> QED
      BY <3>1, <3>2, <3>3, <1>1 DEF LessBy
  <2> QED
    BY <2>1, <2>2, <1>2 DEF LessBy
<1>7. LessBy(a, c, ts \cup us, r)
  BY <1>3, <1>4, <1>5, <1>6 DEF LessBy
<1> QED
  BY <1>7 DEF Less

\* What Less says about the threads on the model.
LEMMA LessOnModel ==
    ASSUME NEW new, NEW gs, NEW ts, Less(new, gs, ts)
    PROVE  /\ OnModel(new) \subseteq OnModel(gs) /\ OnModel(gs) \ ts \subseteq OnModel(new)
           /\ \A t : OneRow(gs, t) => OneRow(new, t)
<1>1. PICK p : LessBy(new, gs, ts, p)
  BY DEF Less
<1>2. \A x \in DOMAIN new : /\ p[x] \in DOMAIN gs
                            /\ ThreadsIn(new[x].threads) \subseteq ThreadsIn(gs[p[x]].threads)
                            /\ ThreadsIn(gs[p[x]].threads) \ ts \subseteq ThreadsIn(new[x].threads)
  BY <1>1, ThreadsOfCopies DEF LessBy
<1>3. OnModel(new) \subseteq OnModel(gs)
  BY <1>2 DEF OnModel
<1>4. OnModel(gs) \ ts \subseteq OnModel(new)
  <2> SUFFICES ASSUME NEW y \in DOMAIN gs, NEW t \in ThreadsIn(gs[y].threads), t \notin ts
               PROVE  t \in OnModel(new)
    BY DEF OnModel
  <2>1. PICK x \in DOMAIN new : p[x] = y
    BY <1>1 DEF LessBy
  <2> QED
    BY <1>2, <2>1 DEF OnModel
<1>5. ASSUME NEW t, OneRow(gs, t) PROVE OneRow(new, t)
  <2> SUFFICES ASSUME NEW i \in DOMAIN new, NEW j \in DOMAIN new,
                      t \in ThreadsIn(new[i].threads), t \in ThreadsIn(new[j].threads)
               PROVE  i = j
    BY DEF OneRow
  <2>1. p[i] = p[j]
    BY <1>2, <1>5 DEF OneRow
  <2> QED
    BY <2>1, <1>1 DEF LessBy
<1> QED
  BY <1>3, <1>4, <1>5

LEMMA IndexIs ==
    ASSUME NEW gs \in Seq(RowType), NEW i \in DOMAIN gs
    PROVE  /\ IndexOf(gs, i) \in DOMAIN gs /\ IndexOf(gs, i) <= i
           /\ gs[IndexOf(gs, i)].shown.thread = gs[i].shown.thread
<1> DEFINE same == {j \in DOMAIN gs : gs[j].shown.thread = gs[i].shown.thread}
<1>1. same \subseteq Nat /\ i \in same
  BY RowsAre
<1>2. IndexOf(gs, i) = First(same)
  BY DEF IndexOf
<1> HIDE DEF same
<1>3. IndexOf(gs, i) \in same /\ IndexOf(gs, i) <= i
  BY <1>1, <1>2, FirstOf
<1> QED
  BY <1>3 DEF same

LEMMA LessARow ==
    ASSUME NEW gs, RowsOK(gs), NEW i \in DOMAIN gs, NEW ts, ThreadsIn(gs[i].threads) \subseteq ts,
           NEW new, new = RemoveAt(gs, i)
    PROVE  /\ RowsOK(new)
           /\ \E p : LessBy(new, gs, ts, p) /\ \A x \in DOMAIN new : p[x] # i
<1> DEFINE n == Len(gs)
           p == [x \in 1 .. (n - 1) |-> IF x < i THEN x ELSE x + 1]
<1>1. gs \in Seq(RowType) /\ n \in Nat /\ i \in 1 .. n /\ DOMAIN gs = 1 .. n /\ i \in 1 .. Len(gs)
  BY DEF RowsOK
<1>2. /\ RemoveAt(gs, i) \in Seq(RowType)
      /\ Len(RemoveAt(gs, i)) = Len(gs) - 1
      /\ \A j \in 1 .. (i - 1) : RemoveAt(gs, i)[j] = gs[j]
      /\ \A j \in i .. (Len(gs) - 1) : RemoveAt(gs, i)[j] = gs[j + 1]
  BY ONLY <1>1, RemovedAt
<1>3. /\ new \in Seq(RowType) /\ DOMAIN new = 1 .. (n - 1)
      /\ \A j \in 1 .. (i - 1) : new[j] = gs[j]
      /\ \A j \in i .. (n - 1) : new[j] = gs[j + 1]
  BY <1>2
<1> HIDE DEF n
<1>4. p \in [DOMAIN new -> DOMAIN gs]
  BY <1>1, <1>3
<1>5. \A x \in DOMAIN new : new[x] = gs[p[x]] /\ p[x] # i
  BY <1>1, <1>3
<1>6. \A x, y \in DOMAIN new : p[x] = p[y] => x = y
  BY <1>1, <1>3
<1>7. ASSUME NEW y \in DOMAIN gs PROVE (\E x \in DOMAIN new : p[x] = y) \/ y = i
  <2> DEFINE x == IF y < i THEN y ELSE y - 1
  <2>1. y # i => x \in DOMAIN new /\ p[x] = y
    BY <1>1, <1>3
  <2> QED
    BY <2>1
<1> HIDE DEF p
<1>8. LessBy(new, gs, ts, p)
  BY <1>4, <1>5, <1>6, <1>7 DEF LessBy
<1>9. RowsOK(new)
  BY <1>3, <1>4, <1>5 DEF RowsOK
<1> QED
  BY <1>5, <1>8, <1>9

-----------------------------------------------------------------------------
(* The order of the rows                                                   *)

InDescent(gs) == Descending(Times(gs))
Apart(gs) == \A t : OneRow(gs, t)

LEMMA DescentIs ==
    ASSUME NEW gs \in Seq(RowType)
    PROVE  InDescent(gs) <=> \A x, y \in 1 .. Len(gs) : x < y => gs[x].shown.time >= gs[y].shown.time
<1>1. /\ DOMAIN Times(gs) = 1 .. Len(gs)
      /\ \A x \in 1 .. Len(gs) : Times(gs)[x] = gs[x].shown.time
  BY DEF Times
<1> QED
  BY <1>1 DEF InDescent, Descending

\* A row is found by what it shows, if no other shows the same.
LEMMA IndexIsOwn ==
    ASSUME NEW gs \in Seq(RowType), NEW i \in DOMAIN gs,
           \A j \in DOMAIN gs : gs[j].shown.thread = gs[i].shown.thread => j = i
    PROVE  IndexOf(gs, i) = i
BY IndexIs

LEMMA ShowNewestSorts ==
    ASSUME NEW gs \in Seq(RowType), NEW i \in DOMAIN gs, IndexOf(gs, i) = i, InDescent(gs)
    PROVE  InDescent(ShowNewest(gs, i))
<1> PICK newest, shown, b :
       /\ newest = gs[i].threads[Newest(gs[i].threads)]
       /\ shown = [gs EXCEPT ![i].shown = newest]
       /\ b = IF PositionForItem(Times(gs), newest.time) + 1 > IndexOf(gs, i)
              THEN PositionForItem(Times(gs), newest.time)
              ELSE PositionForItem(Times(gs), newest.time) + 1
       /\ newest \in CopiesAmong(gs[i].threads) /\ newest.time \in Nat
       /\ shown \in Seq(RowType) /\ b \in DOMAIN gs
       /\ ShowNewest(gs, i) \in Seq(RowType) /\ Permuted(ShowNewest(gs, i), shown)
       /\ Moved(ShowNewest(gs, i), shown, IndexOf(gs, i), b)
  BY ShowNewestDoes
<1>0. newest.time \in Nat /\ gs \in Seq(RowType) /\ i \in DOMAIN gs /\ b \in DOMAIN gs
  OBVIOUS
<1> PICK q : q = PositionForItem(Times(gs), newest.time)
  OBVIOUS
<1> PICK new : new = ShowNewest(gs, i)
  OBVIOUS
<1> DEFINE n == Len(gs)
<1>1. /\ newest.time \in Nat /\ shown \in Seq(RowType) /\ b \in DOMAIN gs
      /\ new \in Seq(RowType) /\ Moved(new, shown, i, b) /\ shown = [gs EXCEPT ![i].shown = newest]
      /\ b = IF q + 1 > i THEN q ELSE q + 1
  OBVIOUS
<1>2. /\ n \in Nat /\ DOMAIN gs = 1 .. n /\ i \in 1 .. n /\ b \in 1 .. n
      /\ Times(gs) \in Seq(Nat) /\ Len(Times(gs)) = n
      /\ \A x \in 1 .. n : Times(gs)[x] = gs[x].shown.time /\ gs[x].shown.time \in Nat
  BY ONLY <1>0, RowsAre
<1>3. FitsAt(q, Times(gs), newest.time)
  <2> PICK times, time : times = Times(gs) /\ time = newest.time
    OBVIOUS
  <2>1. times \in Seq(Nat) /\ time \in Nat /\ Descending(times) /\ q = PositionForItem(times, time)
    BY <1>1, <1>2 DEF InDescent
  <2>2. FitsAt(q, times, time)
    BY ONLY <2>1, PositionKeepsOrder
  <2> QED
    BY <2>2
<1>4. /\ q \in 0 .. n
      /\ \A x \in 1 .. q : gs[x].shown.time >= newest.time
      /\ \A x \in (q + 1) .. n : gs[x].shown.time <= newest.time
  <2>1. /\ q \in 0 .. n
        /\ \A x \in 1 .. q : Times(gs)[x] >= newest.time
        /\ \A x \in (q + 1) .. n : Times(gs)[x] <= newest.time
    BY ONLY <1>2, <1>3 DEF FitsAt
  <2>2. \A x \in 1 .. q : x \in 1 .. n
    BY ONLY <2>1, <1>2
  <2>3. \A x \in (q + 1) .. n : x \in 1 .. n
    BY ONLY <2>1, <1>2
  <2> QED
    BY ONLY <2>1, <2>2, <2>3, <1>2
<1>5. b = IF q + 1 > i THEN q ELSE q + 1
  BY <1>1
<1>6. \A x, y \in 1 .. n : x < y => gs[x].shown.time >= gs[y].shown.time
  BY DescentIs
<1>7. /\ Len(shown) = n /\ shown[i].shown = newest
      /\ \A x \in 1 .. n : x # i => shown[x] = gs[x]
  <2>1. gs[i] \in RowType
    BY ONLY <1>0
  <2>2. shown = [gs EXCEPT ![i].shown = newest] /\ shown \in Seq(RowType) /\ gs \in Seq(RowType)
    BY <1>1
  <2>3. DOMAIN shown = DOMAIN gs /\ \A x \in DOMAIN gs : x # i => shown[x] = gs[x]
    BY ONLY <2>2
  <2>4. shown[i] = [gs[i] EXCEPT !.shown = newest]
    BY ONLY <2>2, <1>2
  <2>5. shown[i].shown = newest
    BY ONLY <2>1, <2>4 DEF RowType
  <2>6. Len(shown) = n
    BY ONLY <2>2, <2>3, <1>2
  <2> QED
    BY ONLY <2>3, <2>5, <2>6, <1>2
<1>8. Len(new) = n /\ \A x \in 1 .. n : Origin(i, b, x) \in 1 .. n /\ new[x] = shown[Origin(i, b, x)]
  <2>1. Moved(new, shown, i, b) /\ Len(shown) = n
    BY <1>1, <1>7
  <2> QED
    BY ONLY <2>1 DEF Moved
<1> HIDE DEF n
<1> DEFINE Before(x) == Origin(i, b, x)
<1>12. \A x \in 1 .. n :
        /\ Before(x) \in 1 .. n
        /\ x = b => Before(x) = i
        /\ x < b => Before(x) <= q /\ Before(x) # i
        /\ x > b => Before(x) > q /\ Before(x) # i
        /\ \A y \in 1 .. n : x < y /\ x # b /\ y # b => Before(x) < Before(y)
  <2>0. n \in Nat /\ q \in 0 .. n /\ i \in 1 .. n /\ b \in 1 .. n
    BY ONLY <1>2, <1>4
  <2>1. \A x \in 1 .. n :
          /\ Origin(i, b, x) \in 1 .. n
          /\ x = b => Origin(i, b, x) = i
          /\ x < b => Origin(i, b, x) <= q /\ Origin(i, b, x) # i
          /\ x > b => Origin(i, b, x) > q /\ Origin(i, b, x) # i
          /\ \A y \in 1 .. n : x < y /\ x # b /\ y # b => Origin(i, b, x) < Origin(i, b, y)
    BY ONLY <2>0, <1>5 DEF Origin
  <2> QED
    BY ONLY <2>1
<1>13. \A x \in 1 .. n : new[x] = shown[Before(x)]
  BY ONLY <1>8
<1> HIDE DEF Before
<1>9. \A x \in 1 .. n : /\ x = b => new[x].shown = newest
                        /\ x < b => new[x].shown.time >= newest.time
                        /\ x > b => new[x].shown.time <= newest.time
  <2> SUFFICES ASSUME NEW x \in 1 .. n
               PROVE  /\ x = b => new[x].shown = newest
                      /\ x < b => new[x].shown.time >= newest.time
                      /\ x > b => new[x].shown.time <= newest.time
    OBVIOUS
  <2> PICK o : o = Before(x)
    OBVIOUS
  <2>1. /\ o \in 1 .. n
        /\ x = b => o = i
        /\ x < b => o <= q /\ o # i
        /\ x > b => o > q /\ o # i
    BY ONLY <1>12, o = Before(x), x \in 1 .. n
  <2>2. new[x] = shown[o]
    BY ONLY <1>13, o = Before(x), x \in 1 .. n
  <2>3. x < b => o \in 1 .. q /\ new[x] = gs[o]
    BY ONLY <2>1, <2>2, <1>4, <1>7, <1>2, x \in 1 .. n
  <2>4. x > b => o \in (q + 1) .. n /\ new[x] = gs[o]
    BY ONLY <2>1, <2>2, <1>4, <1>7, <1>2, x \in 1 .. n
  <2> QED
    BY ONLY <2>1, <2>2, <2>3, <2>4, <1>4, <1>7
<1>10. ASSUME NEW x \in 1 .. n, NEW y \in 1 .. n, x < y
       PROVE  new[x].shown.time >= new[y].shown.time
  <2>0. x \in 1 .. n /\ y \in 1 .. n /\ x < y /\ b \in 1 .. n /\ n \in Nat
    BY <1>10, <1>2
  <2>1. new[x].shown.time \in Nat /\ new[y].shown.time \in Nat
    <3>1. new \in Seq(RowType)
      BY <1>1
    <3>2. \A k \in DOMAIN new : new[k].shown.time \in Nat
      BY ONLY <3>1, RowsAre
    <3>3. DOMAIN new = 1 .. Len(new)
      BY ONLY <3>1
    <3> QED
      BY ONLY <2>0, <3>2, <3>3, <1>8
  <2>2. CASE x = b \/ y = b
    BY ONLY <2>2, <1>9, <2>0
  <2>3. CASE x # b /\ y # b
    <3> PICK ox : ox = Before(x)
      OBVIOUS
    <3> PICK oy : oy = Before(y)
      OBVIOUS
    <3>1. ox \in 1 .. n /\ oy \in 1 .. n /\ ox # i /\ oy # i
      <4>1. (x < b \/ x > b) /\ (y < b \/ y > b)
        BY ONLY <2>0, <2>3
      <4> QED
        BY ONLY <2>0, <4>1, <1>12, ox = Before(x), oy = Before(y)
    <3>2. ox < oy
      BY ONLY <2>0, <2>3, <1>12, ox = Before(x), oy = Before(y)
    <3>3. new[x] = gs[ox] /\ new[y] = gs[oy]
      BY ONLY <2>0, <3>1, <1>7, <1>13, ox = Before(x), oy = Before(y)
    <3> QED
      BY ONLY <3>1, <3>2, <3>3, <1>6
  <2> QED
    BY ONLY <2>2, <2>3
<1>11. InDescent(new)
  <2>1. new \in Seq(RowType) /\ \A x, y \in 1 .. Len(new) : x < y => new[x].shown.time >= new[y].shown.time
    BY ONLY <1>1, <1>8, <1>10
  <2> QED
    BY ONLY <2>1, DescentIs
<1> QED
  BY <1>11

\* What removeThreadFromGroup makes of the rows.
LeftWithout(new, gs, t) ==
    /\ RowsOK(new)
    /\ Less(new, gs, {t})
    /\ Apart(gs) /\ InDescent(gs) => InDescent(new)

LEMMA RowGoes ==
    ASSUME NEW gs, RowsOK(gs), NEW t, NEW i \in DOMAIN gs, ThreadsIn(gs[i].threads) \subseteq {t}
    PROVE  LeftWithout(RemoveAt(gs, i), gs, t) /\ (OneRow(gs, t) => t \notin OnModel(RemoveAt(gs, i)))
<1> PICK new : new = RemoveAt(gs, i)
  OBVIOUS
<1>1. gs \in Seq(RowType) /\ i \in 1 .. Len(gs) /\ Len(gs) \in Nat
  BY DEF RowsOK
<1>2. RowsOK(new) /\ \E p : LessBy(new, gs, {t}, p) /\ \A x \in DOMAIN new : p[x] # i
  BY LessARow
<1>3. PICK p : LessBy(new, gs, {t}, p) /\ \A x \in DOMAIN new : p[x] # i
  BY <1>2
<1>4. Less(new, gs, {t})
  BY <1>3 DEF Less
<1>5. /\ new \in Seq(RowType)
      /\ Len(new) = Len(gs) - 1
      /\ \A j \in 1 .. (i - 1) : new[j] = gs[j]
      /\ \A j \in i .. (Len(gs) - 1) : new[j] = gs[j + 1]
  <2>1. /\ RemoveAt(gs, i) \in Seq(RowType)
        /\ Len(RemoveAt(gs, i)) = Len(gs) - 1
        /\ \A j \in 1 .. (i - 1) : RemoveAt(gs, i)[j] = gs[j]
        /\ \A j \in i .. (Len(gs) - 1) : RemoveAt(gs, i)[j] = gs[j + 1]
    BY ONLY <1>1, RemovedAt
  <2> QED
    BY <2>1
<1>6. ASSUME InDescent(gs) PROVE InDescent(new)
  <2>1. \A x, y \in 1 .. Len(gs) : x < y => gs[x].shown.time >= gs[y].shown.time
    BY <1>1, <1>6, DescentIs
  <2> DEFINE From(x) == IF x < i THEN x ELSE x + 1
  <2>2. \A x \in 1 .. Len(new) : From(x) \in 1 .. Len(gs) /\ new[x] = gs[From(x)]
    BY <1>1, <1>5
  <2>3. \A x, y \in 1 .. Len(new) : x < y => From(x) < From(y)
    BY <1>1, <1>5
  <2> HIDE DEF From
  <2>4. \A x, y \in 1 .. Len(new) : x < y => new[x].shown.time >= new[y].shown.time
    BY <2>1, <2>2, <2>3
  <2> QED
    BY <2>4, <1>5, DescentIs
<1>7. ASSUME OneRow(gs, t) PROVE t \notin OnModel(new)
  <2> SUFFICES ASSUME NEW x \in DOMAIN new, t \in ThreadsIn(new[x].threads) PROVE FALSE
    BY DEF OnModel
  <2>1. p[x] \in DOMAIN gs /\ p[x] # i /\ t \in ThreadsIn(gs[p[x]].threads)
    BY <1>3, ThreadsOfCopies DEF LessBy
  <2>2. t \in ThreadsIn(gs[i].threads)
    <3>1. gs[i].threads # <<>> /\ gs[i].threads \in Seq(Copies)
      BY <1>1, RowsAre
    <3>2. ThreadsIn(gs[i].threads) # {}
      BY <3>1, CopiesAre
    <3> QED
      BY <3>2
  <2> QED
    BY <2>1, <2>2, <1>7 DEF OneRow
<1> QED
  BY <1>2, <1>4, <1>6, <1>7 DEF LeftWithout

\* A row has got other threads, and shows the newest of them now.
Reshown(new, gs, i, copies) ==
    /\ RowsOK(new)
    /\ \E p \in [DOMAIN new -> DOMAIN gs] :
          /\ \A x \in DOMAIN new :
                IF p[x] = i THEN new[x].threads = copies ELSE new[x].threads = gs[p[x]].threads
          /\ \A x, y \in DOMAIN new : p[x] = p[y] => x = y
          /\ \A y \in DOMAIN gs : \E x \in DOMAIN new : p[x] = y
    /\ Apart(gs) /\ InDescent(gs) => InDescent(new)

LEMMA RowIsReshown ==
    ASSUME NEW gs, RowsOK(gs), NEW i \in DOMAIN gs,
           NEW rest \in Seq(Copies), rest # <<>>,
           NEW old, old = [gs EXCEPT ![i].threads = rest]
    PROVE  Reshown(ShowNewest(old, i), gs, i, rest)
<1>1. gs \in Seq(RowType) /\ i \in 1 .. Len(gs) /\ Len(gs) \in Nat
  BY DEF RowsOK
<1>2. gs[i].threads \in Seq(Copies) /\ gs[i] \in RowType
  BY <1>1, RowsAre
<1>4. /\ old \in Seq(RowType) /\ DOMAIN old = DOMAIN gs /\ old[i].threads = rest
      /\ \A j \in DOMAIN gs : j # i => old[j] = gs[j]
      /\ \A j \in DOMAIN gs : old[j].shown = gs[j].shown
  <2>1. [gs[i] EXCEPT !.threads = rest] \in RowType
    BY <1>2 DEF RowType
  <2>2. old = [gs EXCEPT ![i] = [gs[i] EXCEPT !.threads = rest]]
    OBVIOUS
  <2> QED
    BY <2>1, <2>2, <1>1, <1>2 DEF RowType
<1>5. PICK newest, shown :
         /\ newest = old[i].threads[Newest(old[i].threads)]
         /\ shown = [old EXCEPT ![i].shown = newest]
         /\ newest \in CopiesAmong(old[i].threads)
         /\ shown \in Seq(RowType)
         /\ ShowNewest(old, i) \in Seq(RowType) /\ Permuted(ShowNewest(old, i), shown)
  BY ONLY <1>1, <1>4, ShowNewestDoes
<1> PICK new : new = ShowNewest(old, i)
  OBVIOUS
<1>6. /\ DOMAIN shown = DOMAIN gs /\ shown[i].shown = newest /\ shown[i].threads = rest
      /\ \A j \in DOMAIN gs : j # i => shown[j] = gs[j]
  <2>1. old[i] \in RowType
    BY <1>1, <1>4
  <2> QED
    BY <2>1, <1>4, <1>5 DEF RowType
<1>7. RowsOK(shown)
  <2>1. shown[i].shown.thread \in ThreadsIn(shown[i].threads)
    BY <1>4, <1>5, <1>6, ThreadsOfCopies
  <2> QED
    BY <2>1, <1>5, <1>6 DEF RowsOK
<1>8. RowsOK(new) /\ new \in Seq(RowType)
  BY <1>5, <1>7, PermutedRows
<1>9. PICK p \in [DOMAIN new -> DOMAIN gs] :
        /\ \A x \in DOMAIN new : new[x] = shown[p[x]]
        /\ \A x, y \in DOMAIN new : p[x] = p[y] => x = y
        /\ \A y \in DOMAIN gs : \E x \in DOMAIN new : p[x] = y
  <2>1. Permuted(new, shown) /\ DOMAIN shown = DOMAIN gs
    BY <1>5, <1>6
  <2> QED
    BY ONLY <2>1 DEF Permuted
<1>10. \A x \in DOMAIN new : IF p[x] = i THEN new[x].threads = rest ELSE new[x].threads = gs[p[x]].threads
  BY ONLY <1>6, <1>9
<1>13. ASSUME Apart(gs), InDescent(gs) PROVE InDescent(new)
  <2>1. ASSUME NEW j \in DOMAIN gs, old[j].shown.thread = old[i].shown.thread PROVE j = i
    <3>1. gs[j].shown.thread \in ThreadsIn(gs[j].threads) /\ gs[i].shown.thread \in ThreadsIn(gs[i].threads)
      BY DEF RowsOK
    <3>2. gs[j].shown.thread = gs[i].shown.thread
      BY <2>1, <1>4
    <3> QED
      BY <3>1, <3>2, <1>13 DEF Apart, OneRow
  <2>2. IndexOf(old, i) = i
    BY <2>1, <1>4, IndexIsOwn
  <2>3. InDescent(old)
    <3>1. \A x, y \in 1 .. Len(gs) : x < y => gs[x].shown.time >= gs[y].shown.time
      BY <1>1, <1>13, DescentIs
    <3>2. Len(old) = Len(gs)
      BY <1>1, <1>4
    <3>3. \A x \in 1 .. Len(gs) : old[x].shown = gs[x].shown
      BY <1>1, <1>4
    <3>4. \A x, y \in 1 .. Len(old) : x < y => old[x].shown.time >= old[y].shown.time
      BY <3>1, <3>2, <3>3
    <3> QED
      BY <3>4, <1>4, DescentIs
  <2> QED
    BY <2>2, <2>3, <1>4, ShowNewestSorts
<1>11. Reshown(new, gs, i, rest)
  BY ONLY <1>8, <1>9, <1>10, <1>13 DEF Reshown
<1> QED
  BY <1>11

LEMMA RowShrinks ==
    ASSUME NEW gs, RowsOK(gs), NEW t, NEW i \in DOMAIN gs,
           NEW rest, rest = RemoveAll(gs[i].threads, t), rest # <<>>,
           NEW old, old = [gs EXCEPT ![i].threads = rest]
    PROVE  LeftWithout(ShowNewest(old, i), gs, t)
           /\ (OneRow(gs, t) /\ t \in ThreadsIn(gs[i].threads) => t \notin OnModel(ShowNewest(old, i)))
<1> PICK new : new = ShowNewest(old, i)
  OBVIOUS
<1>1. gs[i].threads \in Seq(Copies)
  BY RowsAre DEF RowsOK
<1>2. /\ rest \in Seq(Copies)
      /\ CopiesAmong(rest) = {copy \in CopiesAmong(gs[i].threads) : copy.thread # t}
      /\ ThreadsIn(rest) = ThreadsIn(gs[i].threads) \ {t}
      /\ Distinct(gs[i].threads) => Distinct(rest)
  BY <1>1, OthersLeft
<1>3. Reshown(new, gs, i, rest)
  BY <1>2, RowIsReshown
<1>4. PICK p \in [DOMAIN new -> DOMAIN gs] :
        /\ \A x \in DOMAIN new :
              IF p[x] = i THEN new[x].threads = rest ELSE new[x].threads = gs[p[x]].threads
        /\ \A x, y \in DOMAIN new : p[x] = p[y] => x = y
        /\ \A y \in DOMAIN gs : \E x \in DOMAIN new : p[x] = y
  BY <1>3 DEF Reshown
<1>5. LessBy(new, gs, {t}, p)
  <2>1. ASSUME NEW x \in DOMAIN new
        PROVE  /\ CopiesAmong(new[x].threads) \subseteq CopiesAmong(gs[p[x]].threads)
               /\ \A copy \in CopiesAmong(gs[p[x]].threads) :
                      copy.thread \notin {t} => copy \in CopiesAmong(new[x].threads)
               /\ Distinct(gs[p[x]].threads) => Distinct(new[x].threads)
    <3>1. CASE p[x] = i
      BY ONLY <3>1, <2>1, <1>2, <1>4
    <3>2. CASE p[x] # i
      BY ONLY <3>2, <2>1, <1>4
    <3> QED
      BY <3>1, <3>2
  <2> QED
    BY ONLY <2>1, <1>4 DEF LessBy
<1>6. LeftWithout(new, gs, t)
  BY <1>3, <1>5 DEF Less, Reshown, LeftWithout
<1>7. ASSUME OneRow(gs, t), t \in ThreadsIn(gs[i].threads) PROVE t \notin OnModel(new)
  <2> SUFFICES ASSUME NEW x \in DOMAIN new, t \in ThreadsIn(new[x].threads) PROVE FALSE
    BY DEF OnModel
  <2>1. p[x] # i
    BY <1>2, <1>4
  <2>2. t \in ThreadsIn(gs[p[x]].threads) /\ p[x] \in DOMAIN gs
    BY <2>1, <1>4
  <2> QED
    BY <2>1, <2>2, <1>7 DEF OneRow
<1> QED
  BY <1>6, <1>7

LEMMA RemoveFromGroupDoes ==
    ASSUME NEW gs, RowsOK(gs), NEW related, NEW t \in related,
           NEW new, new = RemoveFromGroup(gs, t, related)
    PROVE  /\ LeftWithout(new, gs, t)
           /\ related = {t} /\ OneRow(gs, t) => t \notin OnModel(new)
<1> PICK rows : rows = Rows(gs, related)
  OBVIOUS
<1>1. rows = {j \in DOMAIN gs : ThreadsIn(gs[j].threads) \cap related # {}}
  BY DEF Rows
<1>2. gs \in Seq(RowType) /\ DOMAIN gs \subseteq Nat
  BY DEF RowsOK
<1>3. CASE rows = {}
  <2>1. new = gs
    BY <1>3 DEF RemoveFromGroup
  <2>2. LeftWithout(new, gs, t)
    BY <2>1, LessOfNothing DEF LeftWithout
  <2>3. t \notin OnModel(gs)
    BY <1>1, <1>3 DEF OnModel
  <2> QED
    BY <2>1, <2>2, <2>3
<1>4. CASE rows # {}
  <2> PICK i : i = First(rows)
    OBVIOUS
  <2>1. i \in rows /\ \A j \in rows : i <= j
    BY <1>1, <1>2, <1>4, FirstOf
  <2>2. i \in DOMAIN gs /\ gs[i].threads \in Seq(Copies)
    BY <2>1, <1>1, <1>2, RowsAre
  <2> PICK rest : rest = RemoveAll(gs[i].threads, t)
    OBVIOUS
  <2>3. related = {t} => t \in ThreadsIn(gs[i].threads)
    BY <2>1, <1>1
  <2>4. CASE rest = <<>>
    <3>1. ThreadsIn(rest) = ThreadsIn(gs[i].threads) \ {t}
      BY <2>2, OthersLeft
    <3>2. ThreadsIn(gs[i].threads) \subseteq {t}
      BY <3>1, <2>4 DEF ThreadsIn
    <3>3. \A j \in DOMAIN gs : gs[j].shown.thread \in ThreadsIn(gs[j].threads)
      BY DEF RowsOK
    <3>4. IndexOf(gs, i) = i
      <4>1. IndexOf(gs, i) \in DOMAIN gs /\ IndexOf(gs, i) <= i
            /\ gs[IndexOf(gs, i)].shown.thread = gs[i].shown.thread
        BY <2>2, <1>2, IndexIs
      <4>2. t \in ThreadsIn(gs[IndexOf(gs, i)].threads)
        BY <4>1, <3>2, <3>3, <2>2
      <4>3. IndexOf(gs, i) \in rows
        BY <4>1, <4>2, <1>1
      <4>4. i <= IndexOf(gs, i)
        BY <4>3, <2>1
      <4> QED
        BY <4>1, <4>4, <2>2, <1>2
    <3>5. new = RemoveAt(gs, i)
      BY <3>4, <2>4, <1>4 DEF RemoveFromGroup
    <3> QED
      BY <3>2, <3>5, <2>2, RowGoes
  <2>5. CASE rest # <<>>
    <3> PICK old : old = [gs EXCEPT ![i].threads = rest]
      OBVIOUS
    <3>1. new = ShowNewest(old, i)
      BY <2>5, <1>4 DEF RemoveFromGroup
    <3>2. LeftWithout(ShowNewest(old, i), gs, t)
          /\ (OneRow(gs, t) /\ t \in ThreadsIn(gs[i].threads) => t \notin OnModel(ShowNewest(old, i)))
      BY <2>2, <2>5, RowShrinks
    <3> QED
      BY <3>1, <3>2, <2>3
  <2> QED
    BY <2>4, <2>5
<1> QED
  BY <1>3, <1>4

-----------------------------------------------------------------------------
(* The rows after the removals of a signal                                 *)

\* What the first m removals of a signal make of the rows, step by step.
IsCourse(after, gs, removed, m) ==
    after = [k \in 0 .. m |-> IF k = 0 THEN gs
                              ELSE RemoveFromGroup(after[k - 1], removed[k], {removed[k]})]

Stepwise(after, gs, removed, m) ==
    /\ after[0] = gs
    /\ \A k \in 1 .. m : after[k] = RemoveFromGroup(after[k - 1], removed[k], {removed[k]})

LEMMA CourseSteps ==
    ASSUME NEW after, NEW gs, NEW removed, NEW m \in Nat, IsCourse(after, gs, removed, m)
    PROVE  Stepwise(after, gs, removed, m)
<1> DEFINE Value(k) == IF k = 0 THEN gs ELSE RemoveFromGroup(after[k - 1], removed[k], {removed[k]})
<1>1. after = [k \in 0 .. m |-> Value(k)]
  BY DEF IsCourse
<1>2. \A k \in 0 .. m : after[k] = Value(k)
  <2> HIDE DEF Value
  <2> QED
    BY <1>1
<1>3. 0 \in 0 .. m /\ \A k \in 1 .. m : k \in 0 .. m /\ k # 0
  OBVIOUS
<1> QED
  BY <1>2, <1>3 DEF Stepwise

\* The recursion of RemoveEach is defined for lists of any length.
LEMMA CourseExists ==
    ASSUME NEW gs, NEW removed, NEW n \in Nat
    PROVE  \E after : IsCourse(after, gs, removed, n)
<1> DEFINE T == {m \in Nat : \E after : IsCourse(after, gs, removed, m)}
<1>1. 0 \in T
  <2> DEFINE a == [k \in 0 .. 0 |-> gs]
  <2>1. a = [k \in 0 .. 0 |-> IF k = 0 THEN gs ELSE RemoveFromGroup(a[k - 1], removed[k], {removed[k]})]
    OBVIOUS
  <2>2. IsCourse(a, gs, removed, 0)
    BY <2>1 DEF IsCourse
  <2> QED
    BY <2>2
<1>2. ASSUME NEW m \in 1 .. n, m - 1 \in T PROVE m \in T
  <2>1. PICK a : IsCourse(a, gs, removed, m - 1)
    BY <1>2
  <2> DEFINE Latest == RemoveFromGroup(a[m - 1], removed[m], {removed[m]})
             b == [k \in 0 .. m |-> IF k < m THEN a[k] ELSE Latest]
             Value(f, k) == IF k = 0 THEN gs ELSE RemoveFromGroup(f[k - 1], removed[k], {removed[k]})
  <2>2. \A k \in 0 .. (m - 1) : a[k] = Value(a, k)
    <3>1. a = [k \in 0 .. (m - 1) |-> Value(a, k)]
      BY <2>1 DEF IsCourse
    <3> HIDE DEF Value
    <3> QED
      BY <3>1
  <2>3. ASSUME NEW k \in 0 .. m PROVE b[k] = Value(b, k)
    <3>1. CASE k = 0
      <4>1. 0 \in 0 .. (m - 1) /\ 0 < m
        OBVIOUS
      <4>2. a[0] = gs
        BY <4>1, <2>2
      <4>3. b[0] = a[0]
        BY <4>1
      <4> HIDE DEF b
      <4> QED
        BY <3>1, <4>2, <4>3
    <3>2. CASE k # 0
      <4>1. k - 1 \in 0 .. m /\ k - 1 < m /\ k \in Int /\ m \in Int
        BY <3>2
      <4>2. b[k - 1] = a[k - 1]
        BY <4>1
      <4>3. CASE k = m
        <5>1. b[k] = RemoveFromGroup(a[k - 1], removed[k], {removed[k]})
          BY <4>3
        <5> HIDE DEF b
        <5> QED
          BY <5>1, <4>2, <3>2
      <4>4. CASE k # m
        <5>1. k \in 0 .. (m - 1) /\ k < m
          BY <4>1, <4>4
        <5>2. b[k] = a[k]
          BY <5>1
        <5>3. a[k] = RemoveFromGroup(a[k - 1], removed[k], {removed[k]})
          BY <5>1, <3>2, <2>2
        <5> HIDE DEF b
        <5> QED
          BY <5>2, <5>3, <4>2, <3>2
      <4> QED
        BY <4>3, <4>4
    <3> QED
      BY <3>1, <3>2
  <2>4. b = [k \in 0 .. m |-> Value(b, k)]
    <3> DEFINE f == [k \in 0 .. m |-> Value(b, k)]
    <3>1. \A k \in 0 .. m : b[k] = f[k]
      <4> HIDE DEF b, Value
      <4> QED
        BY <2>3
    <3> QED
      BY <3>1
  <2>5. IsCourse(b, gs, removed, m)
    BY <2>4 DEF IsCourse
  <2> QED
    BY <2>5
<1> HIDE DEF T
<1>3. n \in T
  BY <1>1, <1>2, Climb
<1> QED
  BY <1>3 DEF T

\* RemoveEach as a sequence of lists, each one removal further.
LEMMA RemoveEachSteps ==
    ASSUME NEW gs, NEW removed, Len(removed) \in Nat
    PROVE  \E after : /\ Stepwise(after, gs, removed, Len(removed))
                      /\ RemoveEach(gs, removed) = after[Len(removed)]
<1> DEFINE after == CHOOSE f : IsCourse(f, gs, removed, Len(removed))
<1>1. IsCourse(after, gs, removed, Len(removed))
  BY CourseExists
<1>2. RemoveEach(gs, removed) = after[Len(removed)]
  BY DEF RemoveEach, IsCourse
<1> HIDE DEF after
<1>3. Stepwise(after, gs, removed, Len(removed))
  BY <1>1, CourseSteps
<1> QED
  BY <1>2, <1>3

LEMMA LessIsApart ==
    ASSUME NEW new, NEW gs, NEW ts, Less(new, gs, ts), Apart(gs)
    PROVE  Apart(new)
BY LessOnModel DEF Apart

LEMMA RemoveEachDoes ==
    ASSUME NEW gs, RowsOK(gs), NEW removed, Len(removed) \in Nat,
           NEW new, new = RemoveEach(gs, removed), NEW ts, ts = {removed[k] : k \in 1 .. Len(removed)}
    PROVE  /\ RowsOK(new)
           /\ Less(new, gs, ts)
           /\ \A t \in ts : OneRow(gs, t) => t \notin OnModel(new)
           /\ Apart(gs) /\ InDescent(gs) => InDescent(new)
<1> DEFINE n == Len(removed)
<1>1. PICK after : /\ after[0] = gs
                   /\ \A k \in 1 .. n : after[k] = RemoveFromGroup(after[k - 1], removed[k], {removed[k]})
                   /\ new = after[n]
  <2>1. PICK after : /\ Stepwise(after, gs, removed, Len(removed))
                     /\ RemoveEach(gs, removed) = after[Len(removed)]
    BY RemoveEachSteps
  <2>2. Stepwise(after, gs, removed, n) /\ new = after[n]
    BY <2>1
  <2> QED
    BY <2>2 DEF Stepwise
<1> DEFINE Fine(k) == /\ RowsOK(after[k])
                      /\ Less(after[k], gs, ts)
                      /\ \A j \in 1 .. k : OneRow(gs, removed[j]) => removed[j] \notin OnModel(after[k])
                      /\ Apart(gs) /\ InDescent(gs) => InDescent(after[k])
           T == {k \in 0 .. n : Fine(k)}
<1>2. 0 \in T
  BY <1>1, LessOfNothing
<1>3. ASSUME NEW k \in 1 .. n, k - 1 \in T PROVE k \in T
  <2> PICK a : a = after[k - 1]
    OBVIOUS
  <2> PICK b : b = after[k]
    OBVIOUS
  <2> PICK t : t = removed[k]
    OBVIOUS
  <2>1. /\ RowsOK(a) /\ Less(a, gs, ts)
        /\ \A j \in 1 .. (k - 1) : OneRow(gs, removed[j]) => removed[j] \notin OnModel(a)
        /\ Apart(gs) /\ InDescent(gs) => InDescent(a)
    BY <1>3
  <2>2. b = RemoveFromGroup(a, t, {t}) /\ t \in ts /\ k \in Nat /\ k \in 0 .. n
    <3> HIDE DEF T, Fine
    <3>1. b = RemoveFromGroup(a, t, {t})
      BY <1>1
    <3>2. t \in ts
      OBVIOUS
    <3>3. k \in Nat /\ k \in 0 .. n
      OBVIOUS
    <3> QED
      BY <3>1, <3>2, <3>3
  <2> HIDE DEF T, Fine, n
  <2>3. LeftWithout(b, a, t) /\ (OneRow(a, t) => t \notin OnModel(b))
    BY <2>1, <2>2, RemoveFromGroupDoes
  <2>4. RowsOK(b) /\ Less(b, a, {t}) /\ (Apart(a) /\ InDescent(a) => InDescent(b))
    BY <2>3 DEF LeftWithout
  <2>5. Less(b, gs, ts)
    <3>1. Less(b, gs, {t} \cup ts)
      BY <2>1, <2>4, LessAgain
    <3>2. {t} \cup ts = ts
      BY <2>2
    <3> QED
      BY <3>1, <3>2
  <2>6. ASSUME NEW j \in 1 .. k, OneRow(gs, removed[j]) PROVE removed[j] \notin OnModel(b)
    <3>1. CASE j = k
      <4>1. OneRow(a, t)
        BY <3>1, <2>1, <2>6, LessOnModel
      <4> QED
        BY <4>1, <3>1, <2>3
    <3>2. CASE j # k
      <4>1. j \in 1 .. (k - 1)
        BY <3>2, <2>2
      <4>2. removed[j] \notin OnModel(a)
        BY <4>1, <2>1, <2>6
      <4>3. OnModel(b) \subseteq OnModel(a)
        BY <2>4, LessOnModel
      <4> QED
        BY <4>2, <4>3
    <3> QED
      BY <3>1, <3>2
  <2>7. Apart(gs) /\ InDescent(gs) => InDescent(b)
    BY <2>1, <2>4, LessIsApart
  <2>8. Fine(k)
    BY <2>4, <2>5, <2>6, <2>7 DEF Fine
  <2> QED
    BY <2>2, <2>8 DEF T
<1>4. n \in T
  <2> HIDE DEF T
  <2> QED
    BY <1>2, <1>3, Climb
<1> QED
  BY <1>1, <1>4

-----------------------------------------------------------------------------
(* The row of a conversation                                               *)

(* A list of copies has become row k; every other row x was row p[x]. Row  *)
(* p[k] was replaced, or none if p[k] is 0.                                *)
PlacedAt(new, gs, copies, k, p) ==
    /\ k \in DOMAIN new
    /\ p \in [DOMAIN new -> Nat]
    /\ \A x, y \in DOMAIN new : p[x] = p[y] => x = y
    /\ \A x \in DOMAIN new \ {k} : p[x] \in DOMAIN gs /\ new[x].threads = gs[p[x]].threads
    /\ \A y \in DOMAIN gs : \E x \in DOMAIN new : p[x] = y
    /\ new[k].threads \in Seq(Copies)
    /\ ThreadsIn(new[k].threads) = ThreadsIn(copies) /\ BareIn(new[k].threads) = BareIn(copies)
    /\ Distinct(copies) => Distinct(new[k].threads)
    /\ \/ Rows(gs, ThreadsIn(copies)) = {} /\ p[k] = 0 /\ new[k].threads = copies
       \/ /\ p[k] \in Rows(gs, ThreadsIn(copies))
          /\ Restored(new[k].threads, gs[p[k]].threads, copies)

Placed(new, gs, copies) == \E k, p : PlacedAt(new, gs, copies, k, p)

LEMMA RowAppears ==
    ASSUME NEW gs, RowsOK(gs), NEW copies \in Seq(Copies), NEW asked \in CopiesAmong(copies),
           Rows(gs, ThreadsIn(copies)) = {},
           NEW new, new = InsertAt(gs, PositionForItem(Times(gs), asked.time) + 1,
                                   [shown |-> asked, threads |-> copies])
    PROVE  /\ RowsOK(new) /\ Placed(new, gs, copies)
           /\ InDescent(gs) => InDescent(new)
<1> DEFINE n == Len(gs)
<1> PICK row : row = [shown |-> asked, threads |-> copies]
  OBVIOUS
<1> PICK q : q = PositionForItem(Times(gs), asked.time) + 1
  OBVIOUS
<1>1. /\ gs \in Seq(RowType) /\ n \in Nat /\ DOMAIN gs = 1 .. n
      /\ \A x \in 1 .. n : Times(gs)[x] = gs[x].shown.time /\ gs[x].shown.time \in Nat
      /\ Times(gs) \in Seq(Nat) /\ Len(Times(gs)) = n
  BY RowsAre DEF RowsOK
<1>2. asked \in Copies /\ asked.time \in Nat /\ asked.thread \in ThreadsIn(copies) /\ copies # <<>>
  <2>1. CopiesAmong(copies) \subseteq Copies
    BY CopiesAre
  <2>2. asked.thread \in ThreadsIn(copies)
    BY ThreadsOfCopies
  <2>3. copies # <<>>
    BY <2>2 DEF ThreadsIn
  <2>4. \A copy \in CopiesAmong(copies) : copy.time \in Nat
    BY CopiesAre DEF CopiesAmong
  <2> QED
    BY <2>1, <2>2, <2>3, <2>4
<1>3. row \in RowType /\ row.shown = asked /\ row.threads = copies
  BY <1>2 DEF RowType
<1>4. q - 1 \in 0 .. n /\ q \in 1 .. (n + 1) /\ (InDescent(gs) => FitsAt(q - 1, Times(gs), asked.time))
  <2>1. PositionForItem(Times(gs), asked.time) \in 0 .. n
    BY <1>1, <1>2, PositionKeepsOrder
  <2>2. InDescent(gs) => FitsAt(PositionForItem(Times(gs), asked.time), Times(gs), asked.time)
    BY <1>1, <1>2, PositionKeepsOrder DEF InDescent
  <2>3. q - 1 = PositionForItem(Times(gs), asked.time)
    BY <2>1
  <2> QED
    BY <2>1, <2>2, <2>3, <1>1
<1>5. new = InsertAt(gs, q, row)
  OBVIOUS
<1>6. new \in Seq(RowType) /\ Permuted(new, Append(gs, row))
  <2>1. q \in 1 .. (Len(gs) + 1)
    BY <1>4
  <2>2. InsertAt(gs, q, row) \in Seq(RowType) /\ Permuted(InsertAt(gs, q, row), Append(gs, row))
    BY ONLY <1>1, <1>3, <2>1, InsertedRow
  <2> QED
    BY <2>2, <1>5
<1> PICK longer : longer = Append(gs, row)
  OBVIOUS
<1>7. /\ DOMAIN longer = 1 .. (n + 1) /\ longer[n + 1] = row /\ (\A x \in 1 .. n : longer[x] = gs[x])
      /\ longer \in Seq(RowType)
  BY <1>1, <1>3
<1>8. RowsOK(new)
  <2>1. RowsOK(longer)
    BY <1>1, <1>2, <1>3, <1>7 DEF RowsOK
  <2> QED
    BY <2>1, <1>6, <1>7, PermutedRows
<1>9. PICK p \in [DOMAIN new -> 1 .. (n + 1)] :
        /\ \A x \in DOMAIN new : new[x] = longer[p[x]]
        /\ \A x, y \in DOMAIN new : p[x] = p[y] => x = y
        /\ \A i \in 1 .. (n + 1) : \E x \in DOMAIN new : p[x] = i
  <2>1. Permuted(new, longer) /\ DOMAIN longer = 1 .. (n + 1)
    BY <1>6, <1>7
  <2> QED
    BY ONLY <2>1 DEF Permuted
<1>10. PICK k \in DOMAIN new : p[k] = n + 1
  BY <1>1, <1>9
<1> DEFINE r == [x \in DOMAIN new |-> IF x = k THEN 0 ELSE p[x]]
<1> HIDE DEF n
<1>11. \A x \in DOMAIN new \ {k} : r[x] = p[x] /\ p[x] \in 1 .. n
  BY <1>1, <1>9, <1>10
<1>12. r \in [DOMAIN new -> Nat] /\ r[k] = 0
  BY <1>1, <1>9, <1>10
<1> HIDE DEF r
<1>13. PlacedAt(new, gs, copies, k, r)
  <2>1. \A x, y \in DOMAIN new : r[x] = r[y] => x = y
    BY ONLY <1>9, <1>11, <1>12, <1>1
  <2>2. \A x \in DOMAIN new \ {k} : r[x] \in DOMAIN gs /\ new[x].threads = gs[r[x]].threads
    BY <1>9, <1>11, <1>1, <1>7
  <2>3. ASSUME NEW y \in DOMAIN gs PROVE \E x \in DOMAIN new : r[x] = y
    <3>1. PICK x \in DOMAIN new : p[x] = y
      BY <1>1, <1>9
    <3>2. x # k
      BY <3>1, <1>1, <1>10
    <3> QED
      BY <3>1, <3>2, <1>11
  <2>4. new[k].threads = copies
    BY <1>9, <1>10, <1>7, <1>3
  <2> QED
    BY <2>1, <2>2, <2>3, <2>4, <1>10, <1>12 DEF PlacedAt
<1>14. ASSUME InDescent(gs) PROVE InDescent(new)
  <2>1. /\ \A x \in 1 .. (q - 1) : gs[x].shown.time >= asked.time
        /\ \A x \in q .. n : gs[x].shown.time <= asked.time
    <3>1. /\ \A x \in 1 .. (q - 1) : Times(gs)[x] >= asked.time
          /\ \A x \in (q - 1 + 1) .. n : Times(gs)[x] <= asked.time
      BY <1>1, <1>4, <1>14 DEF FitsAt
    <3>2. q - 1 + 1 = q /\ 1 .. (q - 1) \subseteq 1 .. n /\ q .. n \subseteq 1 .. n
      BY <1>1, <1>4
    <3> QED
      BY <3>1, <3>2, <1>1
  <2>2. \A x, y \in 1 .. n : x < y => gs[x].shown.time >= gs[y].shown.time
    BY <1>1, <1>14, DescentIs DEF n
  <2>3. Len(new) = n + 1
    <3>1. q \in 1 .. (Len(gs) + 1)
      BY <1>4 DEF n
    <3>2. Inserted(RowType, InsertAt(gs, q, row), gs, q, row)
      BY ONLY <1>1, <1>3, <3>1, RowAfterInsertion
    <3> QED
      BY ONLY <3>2, <1>5 DEF n, Inserted
  <2>4. \A x \in 1 .. (n + 1) : \/ x < q /\ x \in 1 .. n /\ new[x] = gs[x]
                                \/ x = q /\ new[x] = row
                                \/ q < x /\ x - 1 \in 1 .. n /\ new[x] = gs[x - 1]
    <3>1. q \in 1 .. (Len(gs) + 1)
      BY <1>4 DEF n
    <3>2. \A x \in 1 .. (Len(gs) + 1) :
              \/ x < q /\ x \in 1 .. Len(gs) /\ InsertAt(gs, q, row)[x] = gs[x]
              \/ x = q /\ InsertAt(gs, q, row)[x] = row
              \/ q < x /\ x - 1 \in 1 .. Len(gs) /\ InsertAt(gs, q, row)[x] = gs[x - 1]
      <4>1. gs \in Seq(RowType) /\ row \in RowType
        BY <1>1, <1>3
      <4> QED
        BY ONLY <4>1, <3>1, AnInsertedRow
    <3> QED
      BY <3>2, <1>5 DEF n
  <2>5. ASSUME NEW x \in 1 .. (n + 1), NEW y \in 1 .. (n + 1), x < y
        PROVE  new[x].shown.time >= new[y].shown.time
    <3>2. n \in Nat /\ q \in Nat /\ q <= n + 1 /\ x \in Nat /\ y \in Nat /\ x < y /\ row.shown = asked
      BY <1>1, <1>3, <1>4, <2>5
    <3>3. \/ x < q /\ x \in 1 .. n /\ new[x] = gs[x]
          \/ x = q /\ new[x] = row
          \/ q < x /\ x - 1 \in 1 .. n /\ new[x] = gs[x - 1]
      BY <2>4
    <3>4. \/ y < q /\ y \in 1 .. n /\ new[y] = gs[y]
          \/ y = q /\ new[y] = row
          \/ q < y /\ y - 1 \in 1 .. n /\ new[y] = gs[y - 1]
      BY <2>4
    <3>5. CASE x < q /\ y < q
      BY ONLY <3>2, <3>3, <3>4, <3>5, <2>2
    <3>6. CASE x < q /\ y = q
      BY ONLY <3>2, <3>3, <3>4, <3>6, <2>1
    <3>7. CASE x < q /\ y > q
      BY ONLY <3>2, <3>3, <3>4, <3>7, <2>2
    <3>8. CASE x = q
      BY ONLY <3>2, <3>3, <3>4, <3>8, <2>1
    <3>9. CASE x > q
      BY ONLY <3>2, <3>3, <3>4, <3>9, <2>2
    <3> QED
      BY ONLY <3>2, <3>5, <3>6, <3>7, <3>8, <3>9
  <2> QED
    BY <2>3, <2>5, <1>6, DescentIs
<1> QED
  BY <1>8, <1>13, <1>14 DEF Placed

LEMMA RowIsReplaced ==
    ASSUME NEW gs, RowsOK(gs), NEW copies \in Seq(Copies), copies # <<>>,
           NEW i \in Rows(gs, ThreadsIn(copies)),
           NEW mine, mine = RestoreParticipants(gs[i].threads, copies),
           NEW new, new = ShowNewest([gs EXCEPT ![i].threads = mine], i)
    PROVE  /\ RowsOK(new) /\ Placed(new, gs, copies)
           /\ Apart(gs) /\ InDescent(gs) => InDescent(new)
<1>1. i \in DOMAIN gs /\ gs[i].threads \in Seq(Copies) /\ DOMAIN gs \subseteq Nat
  BY RowsAre DEF Rows, RowsOK
<1>2. Restored(mine, gs[i].threads, copies)
  BY <1>1, RestoreEffect
<1>3. /\ mine \in Seq(Copies) /\ mine # <<>>
      /\ ThreadsIn(mine) = ThreadsIn(copies) /\ BareIn(mine) = BareIn(copies)
      /\ Distinct(copies) => Distinct(mine)
  BY ONLY <1>1, <1>2, copies \in Seq(Copies), copies # <<>>, RestoredAre
<1> PICK old : old = [gs EXCEPT ![i].threads = mine]
  OBVIOUS
<1>4. Reshown(ShowNewest(old, i), gs, i, mine) /\ new = ShowNewest(old, i)
  BY <1>1, <1>3, RowIsReshown
<1>5. Reshown(new, gs, i, mine)
  BY <1>4
<1>6. PICK p \in [DOMAIN new -> DOMAIN gs] :
        /\ \A x \in DOMAIN new :
              IF p[x] = i THEN new[x].threads = mine ELSE new[x].threads = gs[p[x]].threads
        /\ \A x, y \in DOMAIN new : p[x] = p[y] => x = y
        /\ \A y \in DOMAIN gs : \E x \in DOMAIN new : p[x] = y
  BY <1>5 DEF Reshown
<1>7. PICK k \in DOMAIN new : p[k] = i
  BY <1>1, <1>6
<1>8. PlacedAt(new, gs, copies, k, p)
  <2>1. p \in [DOMAIN new -> Nat]
    BY <1>1, <1>6
  <2>2. \A x \in DOMAIN new \ {k} : p[x] \in DOMAIN gs /\ new[x].threads = gs[p[x]].threads
    BY <1>6, <1>7
  <2>3. new[k].threads = mine
    BY <1>6, <1>7
  <2> QED
    BY <2>1, <2>2, <2>3, <1>2, <1>3, <1>6, <1>7 DEF PlacedAt
<1> QED
  BY <1>5, <1>8 DEF Placed, Reshown

LEMMA PlaceDoes ==
    ASSUME NEW gs, RowsOK(gs), NEW copies \in Seq(Copies), NEW t \in ThreadsIn(copies),
           NEW new, new = Place(gs, t, copies)
    PROVE  /\ RowsOK(new) /\ Placed(new, gs, copies)
           /\ Apart(gs) /\ InDescent(gs) => InDescent(new)
<1> PICK rows : rows = Rows(gs, ThreadsIn(copies))
  OBVIOUS
<1>1. rows \subseteq Nat /\ copies # <<>>
  <2>1. DOMAIN gs \subseteq Nat
    BY DEF RowsOK
  <2>2. copies # <<>>
    BY DEF ThreadsIn
  <2> QED
    BY <2>1, <2>2 DEF Rows
<1>2. CASE rows = {}
  <2> PICK asked : asked = CHOOSE copy \in Range(copies) : copy.thread = t
    OBVIOUS
  <2>1. asked \in CopiesAmong(copies)
    <3>1. Range(copies) = CopiesAmong(copies)
      BY DEF Range, CopiesAmong
    <3>2. \E copy \in Range(copies) : copy.thread = t
      BY <3>1, ThreadsOfCopies
    <3> QED
      BY <3>1, <3>2
  <2>2. new = InsertAt(gs, PositionForItem(Times(gs), asked.time) + 1, [shown |-> asked, threads |-> copies])
    BY <1>2 DEF Place
  <2>3. Rows(gs, ThreadsIn(copies)) = {}
    BY <1>2
  <2> QED
    BY <2>1, <2>2, <2>3, RowAppears
<1>3. CASE rows # {}
  <2> PICK i : i = First(rows)
    OBVIOUS
  <2>1. i \in Rows(gs, ThreadsIn(copies))
    BY <1>1, <1>3, FirstOf
  <2>2. new = ShowNewest([gs EXCEPT ![i].threads = RestoreParticipants(gs[i].threads, copies)], i)
    BY <1>3 DEF Place
  <2> QED
    BY <2>1, <2>2, <1>1, RowIsReplaced
<1> QED
  BY <1>2, <1>3

-----------------------------------------------------------------------------
(* A change of participants                                                *)

\* What joins and leaves does not name the account, what the plugin finds does.
Changes == [thread : Rooms, added : SUBSET (Members \X {FALSE}),
            removed : SUBSET (Members \X {FALSE}), modified : SUBSET (Members \X {TRUE})]

\* The row of a thread with other people in it.
Peopled(new, gs, i, mine, change) ==
    /\ RowsOK(new)
    /\ DOMAIN new = DOMAIN gs
    /\ \A x \in DOMAIN gs \ {i} : new[x] = gs[x]
    /\ ThreadsIn(new[i].threads) = ThreadsIn(gs[i].threads)
    /\ Distinct(gs[i].threads) =>
          Distinct(new[i].threads) /\ BareIn(new[i].threads) = BareIn(gs[i].threads)
    /\ CopiesAmong(new[i].threads) =
          {copy \in CopiesAmong(gs[i].threads) : copy.thread # change.thread} \cup {Changed(mine, change)}
    /\ Times(new) = Times(gs)

LEMMA ChangedCopy ==
    ASSUME NEW copy \in Copies, NEW change \in Changes
    PROVE  /\ Changed(copy, change) \in Copies
           /\ Changed(copy, change).thread = copy.thread
           /\ Changed(copy, change).time = copy.time
           /\ copy.thread = change.thread =>
                Changed(copy, change).people =
                    ((copy.people \ change.removed) \ change.modified) \cup change.added \cup change.modified
<1>1. /\ copy = [thread |-> copy.thread, time |-> copy.time, people |-> copy.people]
      /\ copy.thread \in Threads /\ copy.time \in Stamps \cup {0}
      /\ copy.people \in SUBSET (Members \X BOOLEAN)
  BY DEF Copies
<1>2. /\ change.added \in SUBSET (Members \X BOOLEAN) /\ change.removed \in SUBSET (Members \X BOOLEAN)
      /\ change.modified \in SUBSET (Members \X BOOLEAN)
  BY DEF Changes
<1> DEFINE people == ((copy.people \ change.removed) \ change.modified) \cup change.added \cup change.modified
<1>3. people \in SUBSET (Members \X BOOLEAN)
  BY <1>1, <1>2
<1>4. CASE copy.thread = change.thread
  <2>1. Changed(copy, change) = [copy EXCEPT !.people = people]
    BY <1>4 DEF Changed
  <2> HIDE DEF people
  <2>2. Changed(copy, change) = [thread |-> copy.thread, time |-> copy.time, people |-> people]
    BY <1>1, <2>1
  <2> QED
    BY <1>1, <1>3, <2>2 DEF Copies, people
<1>5. CASE copy.thread # change.thread
  BY <1>5 DEF Changed
<1> QED
  BY <1>4, <1>5

CopyOf(t, copies) == CHOOSE copy \in Range(copies) : copy.thread = t
WithPeople(gs, i, mine, change) ==
    [gs EXCEPT ![i] = [shown |-> Changed(@.shown, change),
                       threads |-> Append(RemoveAll(gs[i].threads, change.thread), Changed(mine, change))]]

LEMMA RowIsPeopled ==
    ASSUME NEW gs, RowsOK(gs), NEW change \in Changes, NEW i \in DOMAIN gs,
           change.thread \in ThreadsIn(gs[i].threads),
           NEW mine, mine = CopyOf(change.thread, gs[i].threads),
           NEW new, new = WithPeople(gs, i, mine, change)
    PROVE  /\ mine \in CopiesAmong(gs[i].threads) /\ mine.thread = change.thread
           /\ Peopled(new, gs, i, mine, change)
<1> PICK t : t = change.thread
  OBVIOUS
<1> PICK old : old = gs[i].threads
  OBVIOUS
<1> PICK rest : rest = RemoveAll(old, t)
  OBVIOUS
<1> PICK one : one = Changed(mine, change)
  OBVIOUS
<1> PICK seen : seen = Changed(gs[i].shown, change)
  OBVIOUS
<1> PICK longer : longer = Append(rest, one)
  OBVIOUS
<1>1. /\ gs \in Seq(RowType) /\ Len(gs) \in Nat /\ DOMAIN gs = 1 .. Len(gs)
      /\ old \in Seq(Copies) /\ gs[i].shown \in Copies
      /\ gs[i].shown.thread \in ThreadsIn(old)
  BY RowsAre DEF RowsOK
<1>2. mine \in CopiesAmong(old) /\ mine.thread = t
  <2>1. Range(old) = CopiesAmong(old)
    BY DEF Range, CopiesAmong
  <2>2. \E copy \in Range(old) : copy.thread = t
    BY <2>1, ThreadsOfCopies
  <2>3. mine = CHOOSE copy \in Range(old) : copy.thread = t
    BY DEF CopyOf
  <2> QED
    BY <2>1, <2>2, <2>3
<1>3. mine \in Copies
  BY <1>1, <1>2, CopiesAre
<1>4. one \in Copies /\ one.thread = t /\ one.time = mine.time
  BY <1>2, <1>3, ChangedCopy
<1>5. seen \in Copies /\ seen.thread = gs[i].shown.thread /\ seen.time = gs[i].shown.time
  BY <1>1, ChangedCopy
<1>6. /\ rest \in Seq(Copies)
      /\ CopiesAmong(rest) = {copy \in CopiesAmong(old) : copy.thread # t}
      /\ ThreadsIn(rest) = ThreadsIn(old) \ {t}
      /\ Distinct(old) => Distinct(rest)
  BY <1>1, OthersLeft
<1>7. /\ longer \in Seq(Copies) /\ longer # <<>>
      /\ CopiesAmong(longer) = CopiesAmong(rest) \cup {one}
      /\ ThreadsIn(longer) = ThreadsIn(old)
      /\ Distinct(old) => Distinct(longer)
  <2>1. /\ longer \in Seq(Copies) /\ Len(longer) = Len(rest) + 1 /\ Len(rest) \in Nat
        /\ DOMAIN rest = 1 .. Len(rest) /\ DOMAIN longer = 1 .. (Len(rest) + 1)
        /\ \A n \in 1 .. Len(rest) : longer[n] = rest[n]
        /\ longer[Len(rest) + 1] = one
    BY <1>4, <1>6
  <2>2. \A n \in DOMAIN longer : n \in DOMAIN rest \/ n = Len(rest) + 1
    BY <2>1
  <2>3. Len(rest) + 1 \in DOMAIN longer /\ \A n \in DOMAIN rest : n \in DOMAIN longer
    BY <2>1
  <2>4. CopiesAmong(longer) = CopiesAmong(rest) \cup {one}
    <3>1. \A copy \in CopiesAmong(longer) : copy \in CopiesAmong(rest) \cup {one}
      BY <2>1, <2>2 DEF CopiesAmong
    <3>2. ASSUME NEW copy \in CopiesAmong(rest) PROVE copy \in CopiesAmong(longer)
      <4>1. PICK n \in DOMAIN rest : copy = rest[n]
        BY DEF CopiesAmong
      <4>2. n \in DOMAIN longer /\ longer[n] = copy
        BY <2>1, <2>3, <4>1
      <4> QED
        BY <4>2 DEF CopiesAmong
    <3>3. one \in CopiesAmong(longer)
      BY <2>1, <2>3 DEF CopiesAmong
    <3> QED
      BY <3>1, <3>2, <3>3
  <2>5. ThreadsIn(longer) = ThreadsIn(rest) \cup {t}
    <3>1. /\ ThreadsIn(longer) = {copy.thread : copy \in CopiesAmong(longer)}
          /\ ThreadsIn(rest) = {copy.thread : copy \in CopiesAmong(rest)}
      BY ThreadsOfCopies
    <3>2. {copy.thread : copy \in CopiesAmong(rest) \cup {one}} =
              {copy.thread : copy \in CopiesAmong(rest)} \cup {one.thread}
      OBVIOUS
    <3> QED
      BY ONLY <1>4, <2>4, <3>1, <3>2
  <2>6. ASSUME Distinct(old), NEW x \in DOMAIN longer, NEW y \in DOMAIN longer, x # y
        PROVE  longer[x].thread # longer[y].thread
    <3>1. \A n \in DOMAIN rest : rest[n].thread # t
      BY <1>6 DEF ThreadsIn
    <3> QED
      BY <1>4, <1>6, <2>1, <2>2, <2>6, <3>1 DEF Distinct
  <2>7. longer # <<>>
    BY <2>1
  <2>8. ThreadsIn(longer) = ThreadsIn(old)
    <3>1. t \in ThreadsIn(old)
      OBVIOUS
    <3> QED
      BY ONLY <1>6, <2>5, <3>1
  <2>9. Distinct(old) => Distinct(longer)
    BY <2>6 DEF Distinct
  <2> QED
    BY <2>1, <2>4, <2>7, <2>8, <2>9
<1>8. new = [gs EXCEPT ![i] = [shown |-> seen, threads |-> longer]]
  BY DEF WithPeople
<1>9. [shown |-> seen, threads |-> longer] \in RowType
  BY <1>5, <1>7 DEF RowType
<1>10. /\ new \in Seq(RowType) /\ Len(new) = Len(gs) /\ DOMAIN new = DOMAIN gs
       /\ new[i].shown = seen /\ new[i].threads = longer
       /\ \A x \in DOMAIN gs \ {i} : new[x] = gs[x]
  BY ONLY <1>1, <1>8, <1>9, i \in DOMAIN gs
<1>11. RowsOK(new)
  <2>1. ASSUME NEW x \in DOMAIN new PROVE new[x].shown.thread \in ThreadsIn(new[x].threads)
    <3>1. CASE x = i
      BY <3>1, <1>1, <1>5, <1>7, <1>10 DEF RowsOK
    <3>2. CASE x # i
      <4>1. x \in DOMAIN gs \ {i}
        BY ONLY <2>1, <3>2, <1>10
      <4> QED
        BY <4>1, <1>10 DEF RowsOK
    <3> QED
      BY <3>1, <3>2
  <2> QED
    BY ONLY <2>1, <1>10 DEF RowsOK
<1>12. Times(new) = Times(gs)
  BY <1>5, <1>10 DEF Times
<1>13. ASSUME Distinct(old) PROVE BareIn(longer) = BareIn(old)
  <2>1. Bare(one) = Bare(mine)
    BY <1>2, <1>4 DEF Bare
  <2>2. \A copy \in CopiesAmong(old) : copy.thread = t => copy = mine
    BY <1>2, <1>13 DEF Distinct, CopiesAmong
  <2>3. \A copy \in CopiesAmong(old) : copy \in CopiesAmong(rest) \/ copy = mine
    BY <1>6, <2>2
  <2>4. \A copy \in CopiesAmong(longer) : copy \in CopiesAmong(old) \/ copy = one
    BY <1>6, <1>7
  <2> QED
    BY <1>2, <1>7, <2>1, <2>3, <2>4 DEF BareIn
<1>14. /\ ThreadsIn(new[i].threads) = ThreadsIn(gs[i].threads)
       /\ Distinct(gs[i].threads) =>
             Distinct(new[i].threads) /\ BareIn(new[i].threads) = BareIn(gs[i].threads)
       /\ CopiesAmong(new[i].threads) =
             {copy \in CopiesAmong(gs[i].threads) : copy.thread # change.thread} \cup {Changed(mine, change)}
  BY <1>6, <1>7, <1>10, <1>13
<1> QED
  BY <1>2, <1>10, <1>11, <1>12, <1>14 DEF Peopled

-----------------------------------------------------------------------------
(* The messages of the bus                                                 *)

Bus == {"serviceRegistered", "serviceUnregistered"}
Messages == [signal : SignalNames, items : Seq(Threads)]
                \cup [signal : Bus, items : {<<>>}]
                \cup {[signal |-> "participantsChanged", items |-> <<change>>] : change \in Changes}

\* The threads that the signals with this name in a queue are about.
Told(queue, name) ==
    UNION {Range(queue[i].items) : i \in {j \in DOMAIN queue : queue[j].signal = name}}
ToldOf(message, name) == IF message.signal = name THEN Range(message.items) ELSE {}

\* The service neither comes nor goes.
Calm(queue) == \A i \in DOMAIN queue : queue[i].signal \notin Bus

LEMMA ToldIs ==
    ASSUME NEW queue, NEW name
    PROVE  Told(queue, name) = UNION {ToldOf(queue[i], name) : i \in DOMAIN queue}
  BY DEF Told, ToldOf

LEMMA AppendedMessage ==
    ASSUME NEW queue \in Seq(Messages), NEW message \in Messages
    PROVE  /\ Append(queue, message) \in Seq(Messages)
           /\ \A name : Told(Append(queue, message), name) = Told(queue, name) \cup ToldOf(message, name)
           /\ Calm(Append(queue, message)) <=> Calm(queue) /\ message.signal \notin Bus
<1> PICK longer : longer = Append(queue, message)
  OBVIOUS
<1>1. /\ longer \in Seq(Messages) /\ Len(queue) \in Nat /\ DOMAIN queue = 1 .. Len(queue)
      /\ DOMAIN longer = 1 .. (Len(queue) + 1) /\ longer[Len(queue) + 1] = message
      /\ \A n \in 1 .. Len(queue) : longer[n] = queue[n]
  OBVIOUS
<1>2. /\ \A n \in DOMAIN longer : (n \in DOMAIN queue /\ longer[n] = queue[n]) \/ longer[n] = message
      /\ \A n \in DOMAIN queue : n \in DOMAIN longer /\ longer[n] = queue[n]
      /\ Len(queue) + 1 \in DOMAIN longer /\ longer[Len(queue) + 1] = message
  BY ONLY <1>1
<1>3. ASSUME NEW name
      PROVE  Told(longer, name) = Told(queue, name) \cup ToldOf(message, name)
  <2>1. /\ Told(longer, name) = UNION {ToldOf(longer[i], name) : i \in DOMAIN longer}
        /\ Told(queue, name) = UNION {ToldOf(queue[i], name) : i \in DOMAIN queue}
    BY ToldIs
  <2> QED
    BY ONLY <1>2, <2>1
<1>4. Calm(longer) <=> Calm(queue) /\ message.signal \notin Bus
  BY ONLY <1>2 DEF Calm
<1> QED
  BY <1>1, <1>3, <1>4

LEMMA NextMessage ==
    ASSUME NEW queue \in Seq(Messages), queue # <<>>
    PROVE  /\ Tail(queue) \in Seq(Messages) /\ Head(queue) \in Messages
           /\ Len(Tail(queue)) = Len(queue) - 1 /\ Len(queue) \in Nat
           /\ \A n \in DOMAIN Tail(queue) : n + 1 \in DOMAIN queue /\ Tail(queue)[n] = queue[n + 1]
           /\ \A n \in DOMAIN queue : \/ n = 1 /\ queue[n] = Head(queue)
                                      \/ n - 1 \in DOMAIN Tail(queue) /\ Tail(queue)[n - 1] = queue[n]
           /\ \A name : Told(queue, name) = ToldOf(Head(queue), name) \cup Told(Tail(queue), name)
           /\ Calm(queue) <=> Head(queue).signal \notin Bus /\ Calm(Tail(queue))
<1> PICK rest : rest = Tail(queue)
  OBVIOUS
<1>1. /\ rest \in Seq(Messages) /\ Len(queue) \in Nat /\ DOMAIN queue = 1 .. Len(queue)
      /\ Len(queue) >= 1 /\ DOMAIN rest = 1 .. (Len(queue) - 1) /\ Head(queue) = queue[1]
      /\ \A n \in 1 .. (Len(queue) - 1) : rest[n] = queue[n + 1]
      /\ Len(rest) = Len(queue) - 1 /\ queue[1] \in Messages
  OBVIOUS
<1>2. /\ \A n \in DOMAIN rest : n + 1 \in DOMAIN queue /\ rest[n] = queue[n + 1]
      /\ 1 \in DOMAIN queue /\ queue[1] = Head(queue)
      /\ \A n \in DOMAIN queue : \/ n = 1 /\ queue[n] = Head(queue)
                                 \/ n - 1 \in DOMAIN rest /\ rest[n - 1] = queue[n]
  <2>1. \A n \in 1 .. (Len(queue) - 1) : n + 1 \in 1 .. Len(queue)
    BY <1>1
  <2>2. \A n \in 1 .. Len(queue) : n = 1 \/ n - 1 \in 1 .. (Len(queue) - 1)
    BY <1>1
  <2>3. \A n \in 1 .. Len(queue) : n - 1 \in 1 .. (Len(queue) - 1) => rest[n - 1] = queue[n]
    BY <1>1
  <2> QED
    BY ONLY <1>1, <2>1, <2>2, <2>3
<1>3. ASSUME NEW name
      PROVE  Told(queue, name) = ToldOf(Head(queue), name) \cup Told(rest, name)
  <2>1. /\ Told(rest, name) = UNION {ToldOf(rest[i], name) : i \in DOMAIN rest}
        /\ Told(queue, name) = UNION {ToldOf(queue[i], name) : i \in DOMAIN queue}
    BY ToldIs
  <2> QED
    BY ONLY <1>2, <2>1
<1>4. Calm(queue) <=> Head(queue).signal \notin Bus /\ Calm(rest)
  BY ONLY <1>2 DEF Calm
<1> QED
  BY <1>1, <1>2, <1>3, <1>4

LEMMA JoinedMessages ==
    ASSUME NEW a \in Seq(Messages), NEW b \in Seq(Messages)
    PROVE  /\ a \o b \in Seq(Messages)
           /\ Len(a \o b) = Len(a) + Len(b)
           /\ \A n \in DOMAIN a : n \in DOMAIN (a \o b) /\ (a \o b)[n] = a[n]
           /\ \A n \in DOMAIN (a \o b) : n \in DOMAIN a \/ \E i \in DOMAIN b : (a \o b)[n] = b[i]
           /\ \A name : Told(a \o b, name) = Told(a, name) \cup Told(b, name)
           /\ Calm(a \o b) <=> Calm(a) /\ Calm(b)
<1> PICK c : c = a \o b
  OBVIOUS
<1>1. /\ c \in Seq(Messages) /\ Len(a) \in Nat /\ DOMAIN a = 1 .. Len(a)
      /\ Len(b) \in Nat /\ DOMAIN b = 1 .. Len(b)
      /\ Len(c) = Len(a) + Len(b) /\ DOMAIN c = 1 .. (Len(a) + Len(b))
      /\ \A n \in 1 .. Len(a) : c[n] = a[n]
      /\ \A n \in (Len(a) + 1) .. (Len(a) + Len(b)) : c[n] = b[n - Len(a)]
  OBVIOUS
<1>2. /\ \A n \in DOMAIN a : n \in DOMAIN c /\ c[n] = a[n]
      /\ \A n \in DOMAIN c : (n \in DOMAIN a /\ c[n] = a[n]) \/ \E i \in DOMAIN b : c[n] = b[i]
      /\ \A i \in DOMAIN b : \E n \in DOMAIN c : c[n] = b[i]
  <2>1. \A n \in 1 .. Len(a) : n \in 1 .. (Len(a) + Len(b))
    BY <1>1
  <2>2. \A n \in 1 .. (Len(a) + Len(b)) : n \in 1 .. Len(a) \/
            (n \in (Len(a) + 1) .. (Len(a) + Len(b)) /\ n - Len(a) \in 1 .. Len(b))
    BY <1>1
  <2>3. \A i \in 1 .. Len(b) : /\ Len(a) + i \in (Len(a) + 1) .. (Len(a) + Len(b))
                               /\ Len(a) + i \in 1 .. (Len(a) + Len(b)) /\ (Len(a) + i) - Len(a) = i
    BY <1>1
  <2>4. \A n \in DOMAIN a : n \in DOMAIN c /\ c[n] = a[n]
    BY ONLY <1>1, <2>1
  <2>5. \A n \in DOMAIN c : (n \in DOMAIN a /\ c[n] = a[n]) \/ \E i \in DOMAIN b : c[n] = b[i]
    BY ONLY <1>1, <2>2
  <2>6. ASSUME NEW i \in DOMAIN b PROVE \E n \in DOMAIN c : c[n] = b[i]
    <3>1. Len(a) + i \in DOMAIN c /\ c[Len(a) + i] = b[i]
      BY ONLY <1>1, <2>3, i \in DOMAIN b
    <3> QED
      BY ONLY <3>1
  <2> QED
    BY <2>4, <2>5, <2>6
<1>3. ASSUME NEW name
      PROVE  Told(c, name) = Told(a, name) \cup Told(b, name)
  <2>1. /\ Told(a, name) = UNION {ToldOf(a[i], name) : i \in DOMAIN a}
        /\ Told(b, name) = UNION {ToldOf(b[i], name) : i \in DOMAIN b}
        /\ Told(c, name) = UNION {ToldOf(c[i], name) : i \in DOMAIN c}
    BY ToldIs
  <2>2. \A x : x \in Told(c, name) => x \in Told(a, name) \/ x \in Told(b, name)
    BY ONLY <1>2, <2>1
  <2>3. \A x : x \in Told(a, name) \/ x \in Told(b, name) => x \in Told(c, name)
    BY ONLY <1>2, <2>1
  <2> QED
    BY <2>2, <2>3
<1>4. Calm(c) <=> Calm(a) /\ Calm(b)
  BY ONLY <1>2 DEF Calm
<1> QED
  BY <1>1, <1>2, <1>3, <1>4

\* A queue of signals about threads.
Plain(queue) == \A i \in DOMAIN queue : queue[i].signal \in SignalNames

\* What processSignals sends is what was pending.
LEMMA EmittedMessages ==
    ASSUME pending \in [SignalNames -> Seq(Threads)]
    PROVE  /\ Emitted \in Seq(Messages)
           /\ Plain(Emitted) /\ Calm(Emitted)
           /\ \A name \in SignalNames : Told(Emitted, name) = Range(pending[name])
<1>1. ASSUME NEW name \in SignalNames
      PROVE  /\ SignalOf(name) \in Seq(Messages) /\ Plain(SignalOf(name))
             /\ \A other : Told(SignalOf(name), other) = IF other = name THEN Range(pending[name]) ELSE {}
  <2>1. CASE pending[name] = <<>>
    <3>1. SignalOf(name) = <<>> /\ DOMAIN SignalOf(name) = {}
      BY <2>1 DEF SignalOf
    <3>2. Range(pending[name]) = {}
      BY <2>1 DEF Range
    <3> QED
      BY <3>1, <3>2 DEF Plain, Told
  <2>2. CASE pending[name] # <<>>
    <3>1. PICK message : message = [signal |-> name, items |-> pending[name]]
      OBVIOUS
    <3>2. message \in Messages /\ message.signal = name /\ message.items = pending[name]
      <4>1. [signal |-> name, items |-> pending[name]] \in [signal : SignalNames, items : Seq(Threads)]
        OBVIOUS
      <4> QED
        BY <3>1, <4>1 DEF Messages
    <3>3. SignalOf(name) = <<message>>
      BY <2>2, <3>1 DEF SignalOf
    <3>4. DOMAIN SignalOf(name) = {1} /\ SignalOf(name)[1] = message /\ SignalOf(name) \in Seq(Messages)
      BY <3>2, <3>3
    <3> QED
      BY <3>2, <3>4 DEF Plain, Told
  <2> QED
    BY <2>1, <2>2
<1>2. ASSUME NEW a \in Seq(Messages), NEW b \in Seq(Messages), Plain(a), Plain(b)
      PROVE  a \o b \in Seq(Messages) /\ Plain(a \o b)
  <2>1. \A n \in DOMAIN (a \o b) : \/ n \in DOMAIN a /\ (a \o b)[n] = a[n]
                                   \/ \E i \in DOMAIN b : (a \o b)[n] = b[i]
    BY JoinedMessages
  <2> QED
    BY <1>2, <2>1, JoinedMessages DEF Plain
<1> DEFINE s1 == SignalOf("threadsAdded") \o SignalOf("threadsModified")
           s2 == s1 \o SignalOf("threadsRemoved")
           s3 == s2 \o SignalOf("eventsAdded")
           s4 == s3 \o SignalOf("eventsModified")
           s5 == s4 \o SignalOf("eventsRemoved")
<1>3. /\ "threadsAdded" \in SignalNames /\ "threadsModified" \in SignalNames
      /\ "threadsRemoved" \in SignalNames /\ "eventsAdded" \in SignalNames
      /\ "eventsModified" \in SignalNames /\ "eventsRemoved" \in SignalNames
  BY DEF SignalNames
<1>4. s1 \in Seq(Messages) /\ Plain(s1)
  BY <1>1, <1>2, <1>3
<1>5. s2 \in Seq(Messages) /\ Plain(s2)
  <2> HIDE DEF s1
  <2> QED
    BY <1>1, <1>2, <1>3, <1>4
<1>6. s3 \in Seq(Messages) /\ Plain(s3)
  <2> HIDE DEF s2
  <2> QED
    BY <1>1, <1>2, <1>3, <1>5
<1>7. s4 \in Seq(Messages) /\ Plain(s4)
  <2> HIDE DEF s3
  <2> QED
    BY <1>1, <1>2, <1>3, <1>6
<1>8. s5 \in Seq(Messages) /\ Plain(s5)
  <2> HIDE DEF s4
  <2> QED
    BY <1>1, <1>2, <1>3, <1>7
<1>9. Emitted = s5
  BY DEF Emitted
<1>10. Calm(s5)
  BY <1>8 DEF Plain, Calm, Bus, SignalNames
<1>11. ASSUME NEW name \in SignalNames
       PROVE  Told(s5, name) = Range(pending[name])
  <2>1. Told(s1, name) = Told(SignalOf("threadsAdded"), name) \cup Told(SignalOf("threadsModified"), name)
    BY <1>1, <1>3, JoinedMessages
  <2>2. Told(s2, name) = Told(s1, name) \cup Told(SignalOf("threadsRemoved"), name)
    <3> HIDE DEF s1
    <3> QED
      BY <1>1, <1>3, <1>4, JoinedMessages
  <2>3. Told(s3, name) = Told(s2, name) \cup Told(SignalOf("eventsAdded"), name)
    <3> HIDE DEF s2
    <3> QED
      BY <1>1, <1>3, <1>5, JoinedMessages
  <2>4. Told(s4, name) = Told(s3, name) \cup Told(SignalOf("eventsModified"), name)
    <3> HIDE DEF s3
    <3> QED
      BY <1>1, <1>3, <1>6, JoinedMessages
  <2>5. Told(s5, name) = Told(s4, name) \cup Told(SignalOf("eventsRemoved"), name)
    <3> HIDE DEF s4
    <3> QED
      BY <1>1, <1>3, <1>7, JoinedMessages
  <2> HIDE DEF s1, s2, s3, s4, s5
  <2>6. \A one \in SignalNames : Told(SignalOf(one), name) = IF name = one THEN Range(pending[one]) ELSE {}
    BY <1>1
  <2> QED
    BY ONLY <1>3, <2>1, <2>2, <2>3, <2>4, <2>5, <2>6, name \in SignalNames DEF SignalNames
<1> QED
  BY <1>8, <1>9, <1>10, <1>11

-----------------------------------------------------------------------------
(* The service: as the plugin's proofs have it, without rolled back        *)
(* batches and voice threads.                                              *)

ServiceInv ==
    /\ IInv
    /\ lost = {} /\ ~torn
    /\ members \in [Rooms -> SUBSET Members]
    /\ daemon \in {"up", "down", "starting"}
    /\ daemon # "starting" => Ready

\* A thread was written: it is in the table, and the cache of the others the same.
Wrote(t) ==
    /\ IInv' /\ lost' = {} /\ ~torn' /\ loading' = loading
    /\ Stored' = Stored \cup {t}
    /\ \A copy \in CopiesOf(Cache') : copy.thread = t \/ copy \in CopiesOf(Cache)
    /\ NumbersMatch => Elsewhere(Cache, Cache', t)

Removes(t) ==
    /\ IInv' /\ lost' = {} /\ ~torn' /\ loading' = loading
    /\ Stored' = Stored \ {t}
    /\ \A copy \in CopiesOf(Cache') : copy \in CopiesOf(Cache)
    /\ NumbersMatch => Elsewhere(Cache, Cache', t)

LEMMA ThreadIsWritten ==
    ASSUME ServiceInv, NEW t \in Threads, NEW time \in Stamps,
           CreateThread(t, time) \/ UpdateThread(t, time)
    PROVE  Wrote(t)
<1>0. stored \in [Threads -> Stamps \cup {0}] /\ 0 \notin Stamps /\ IInv /\ lost = {} /\ ~torn
  BY CacheAssumption DEF ServiceInv, IInv, HistoryTypes
<1> PICK written : written \in Stamps \cup {0} /\ written = IF t \in Stored THEN time ELSE 0
  OBVIOUS
<1>1. /\ Stored' = Stored \cup {t} /\ stored' \in [Threads -> Stamps \cup {0}]
      /\ \A u \in Threads \ {t} : stored'[u] = stored[u]
      /\ Becomes(Add(Cache, t, written)) /\ (t \in stale' \/ written = stored'[t])
  BY <1>0 DEF CreateThread, UpdateThread, Stored
<1>2. /\ stale' \subseteq Threads /\ stale \ {t} \subseteq stale'
      /\ loading' = loading \ {t} /\ lost' \subseteq Threads /\ lost \ {t} \subseteq lost'
      /\ before' = before /\ torn' = torn
      /\ lost' = {} /\ loading' = loading /\ ~torn'
  BY <1>0 DEF CreateThread, UpdateThread, Ready, IInv, HistoryTypes
<1>3. /\ IInv'
      /\ CopiesOf(Cache)' \subseteq {[thread |-> t, time |-> written]}
             \cup {copy \in CopiesOf(Cache) : copy.thread # t}
      /\ NumbersMatch => Elsewhere(Cache, Cache', t)
  BY <1>0, <1>1, <1>2, AddSteps
<1> QED
  BY <1>1, <1>2, <1>3 DEF Wrote

LEMMA ThreadIsRemoved ==
    ASSUME ServiceInv, NEW t \in Threads, RemoveThread(t)
    PROVE  Removes(t)
<1>0. stored \in [Threads -> Stamps \cup {0}] /\ 0 \notin Stamps /\ IInv /\ lost = {} /\ ~torn
  BY CacheAssumption DEF ServiceInv, IInv, HistoryTypes
<1>1. Becomes(RemoveCached(Cache, t)) /\ loading = {} /\ UNCHANGED <<loading, before, torn>>
      /\ stored' = [stored EXCEPT ![t] = 0] /\ lost' = lost \ {t} /\ stale' = stale \ {t}
  BY DEF RemoveThread, Ready
<1>2. /\ IInv'
      /\ CopiesOf(Cache)' \subseteq {copy \in CopiesOf(Cache) : copy.thread # t}
      /\ NumbersMatch => Elsewhere(Cache, Cache', t)
  BY <1>0, <1>1, RemoveSteps
<1>3. Stored' = Stored \ {t}
  BY <1>0, <1>1 DEF Stored
<1> QED
  BY <1>0, <1>1, <1>2, <1>3 DEF Removes

\* When the cache is loaded it has a conversation for each thread of the table.
ConversationFacts(t) ==
    /\ keys[t] \in Threads /\ keys[t] # NoKey /\ keys[t] \in Stored
    /\ conversations[keys[t]] # NoConversation
    /\ At(Cache, keys[t]) \in Seq(Copy) /\ t \in ThreadsIn(At(Cache, keys[t]))
    /\ ThreadsIn(At(Cache, keys[t])) \subseteq Stored
    /\ Together(ThreadsIn(At(Cache, keys[t])))
    /\ Distinct(At(Cache, keys[t]))
    /\ NumbersMatch =>
          /\ SameConversation(t, keys[t])
          /\ ThreadsIn(At(Cache, keys[t])) = {u \in Stored : SameConversation(t, u)}
          /\ CopiesAmong(At(Cache, keys[t])) =
                {copy \in CopiesOf(Cache) : SameConversation(t, copy.thread)}

LEMMA LoadedCache ==
    ASSUME ServiceInv, Ready
    PROVE  /\ KeysOf(Cache) = Stored
           /\ \A t \in Threads \ Stored : keys[t] = NoKey
           /\ {copy.thread : copy \in CopiesOf(Cache)} = Stored
           /\ CopiesOf(Cache) \subseteq Copy
           /\ \A t \in Stored : ConversationFacts(t)
<1>0. /\ Kept(Cache) /\ Agree(Cache) /\ Mirrored /\ lost = {} /\ loading = {} /\ Cache \in Caches
      /\ Cache.keys = keys /\ Cache.conversations = conversations
  BY DEF ServiceInv, IInv, Ready, Kept, Cache
<1>1. KeysOf(Cache) = Stored
  BY <1>0 DEF Mirrored
<1>2. \A t \in Threads \ Stored : keys[t] = NoKey
  BY <1>0, <1>1 DEF KeysOf
<1>3. CachedIn(Cache) = KeysOf(Cache) /\ CachedIn(Cache) = {copy.thread : copy \in CopiesOf(Cache)}
  BY <1>0, HeldThreads
<1>4. ASSUME NEW copy \in CopiesOf(Cache)
      PROVE  /\ copy \in Copy
             /\ \E k \in Threads : copy \in CopiesAmong(At(Cache, k))
  <2>1. PICK k \in Threads : copy \in CopiesAmong(At(Cache, k))
    BY DEF CopiesOf
  <2>2. At(Cache, k) \in Seq(Copy)
    BY <1>0, CacheTypes
  <2>3. CopiesAmong(At(Cache, k)) \subseteq Copy
    BY <2>2, ListsOfThreads
  <2> QED
    BY <2>1, <2>3
<1>5. ASSUME NEW t \in Stored
      PROVE  ConversationFacts(t)
  <2> PICK k : k = keys[t]
    OBVIOUS
  <2>1. t \in Threads /\ k \in Threads /\ k # NoKey
    <3>1. t \in Threads /\ keys[t] # NoKey
      BY <1>0, <1>1 DEF KeysOf
    <3>2. Cache.keys \in [Threads -> Threads \cup {NoKey}]
      BY <1>0, <3>1, CacheTypes
    <3> QED
      BY <1>0, <3>1, <3>2
  <2>2. Has(Cache, k) /\ t \in ThreadsIn(Cache.conversations[k])
    BY <1>0, <2>1 DEF Agree
  <2>3. At(Cache, k) = Cache.conversations[k] /\ At(Cache, k) \in Seq(Copy)
    BY <1>0, <2>1, <2>2, CacheTypes DEF Has
  <2>4. /\ k \in ThreadsIn(At(Cache, k)) /\ ThreadsIn(At(Cache, k)) \subseteq Threads
        /\ \A u \in ThreadsIn(At(Cache, k)) : keys[u] = k
        /\ Distinct(At(Cache, k))
    BY <1>0, <2>1, <2>2, <2>3, CacheFacts DEF Agree
  <2>5. ThreadsIn(At(Cache, k)) \subseteq Stored
    BY <1>0, <1>1, <2>1, <2>4 DEF KeysOf
  <2>6. Together(ThreadsIn(At(Cache, k)))
    BY <1>0, <2>1, <2>2, <2>3 DEF Kept, Solitary
  <2>7. ASSUME NumbersMatch
        PROVE  /\ SameConversation(t, k)
               /\ ThreadsIn(At(Cache, k)) = {u \in Stored : SameConversation(t, u)}
               /\ CopiesAmong(At(Cache, k)) =
                     {copy \in CopiesOf(Cache) : SameConversation(t, copy.thread)}
    <3>1. Alike(Cache) /\ Whole(Cache)
      BY <2>7 DEF ServiceInv, IInv
    <3>2. \A u \in ThreadsIn(At(Cache, k)) : SameConversation(t, u)
      BY <2>1, <2>2, <2>3, <3>1 DEF Alike
    <3>3. ASSUME NEW u \in Stored, SameConversation(t, u)
          PROVE  u \in ThreadsIn(At(Cache, k))
      <4>1. keys[u] = k /\ u \in Threads
        BY <1>0, <1>1, <3>1, <3>3 DEF Whole, KeysOf
      <4> QED
        BY <1>0, <2>1, <2>3, <4>1 DEF Agree
    <3>4. ThreadsIn(At(Cache, k)) = {u \in Stored : SameConversation(t, u)}
      BY <2>5, <3>2, <3>3
    <3>5. ThreadsIn(At(Cache, k)) = {copy.thread : copy \in CopiesAmong(At(Cache, k))}
      BY <2>3, ListsOfThreads
    <3>6. ASSUME NEW copy \in CopiesAmong(At(Cache, k))
          PROVE  copy \in CopiesOf(Cache) /\ SameConversation(t, copy.thread)
      BY <2>1, <3>2, <3>5 DEF CopiesOf
    <3>7. ASSUME NEW copy \in CopiesOf(Cache), SameConversation(t, copy.thread)
          PROVE  copy \in CopiesAmong(At(Cache, k))
      <4>1. PICK l \in Threads : copy \in CopiesAmong(At(Cache, l))
        BY <1>4
      <4>2. At(Cache, l) \in Seq(Copy)
        BY <1>0, CacheTypes
      <4>3. copy.thread \in ThreadsIn(At(Cache, l))
        BY <4>1, <4>2, ListsOfThreads
      <4>4. Has(Cache, l)
        <5>1. ThreadsIn(<<>>) = {}
          BY DEF ThreadsIn
        <5> QED
          BY <4>3, <5>1 DEF At, Has
      <4>5. keys[copy.thread] = l
        BY <1>0, <4>3, <4>4 DEF Agree, At, Has
      <4>6. copy.thread \in Stored
        BY <1>1, <1>3
      <4>7. copy.thread \in ThreadsIn(At(Cache, k))
        BY <3>3, <3>7, <4>6
      <4> QED
        BY <2>4, <4>1, <4>5, <4>7
    <3> QED
      BY <2>4, <3>2, <3>4, <3>6, <3>7
  <2>8. k \in Stored /\ conversations[k] # NoConversation
    BY <1>0, <2>2, <2>4, <2>5 DEF Has
  <2> QED
    BY <2>1, <2>2, <2>3, <2>4, <2>5, <2>6, <2>7, <2>8 DEF ConversationFacts
<1> QED
  BY <1>1, <1>2, <1>3, <1>4, <1>5

LEMMA StoredIsFinite == IsFiniteSet(Stored) /\ Cardinality(Stored) \in Nat
<1>1. /\ KeyOrder \in Seq(Threads) /\ Len(KeyOrder) \in Nat
      /\ KeyOrder \in [1 .. Len(KeyOrder) -> Threads]
      /\ \A t \in Threads : \E i \in 1 .. Len(KeyOrder) : KeyOrder[i] = t
  BY CacheAssumption
<1>2. KeyOrder \in Surjection(1 .. Len(KeyOrder), Threads)
  BY <1>1 DEF Surjection
<1>3. IsFiniteSet(1 .. Len(KeyOrder))
  BY <1>1, FS_Interval
<1>4. IsFiniteSet(Threads)
  BY <1>2, <1>3, FS_Surjection
<1>5. Stored \in SUBSET Threads
  BY DEF Stored
<1>6. IsFiniteSet(Stored)
  BY <1>4, <1>5, FS_Subset
<1> QED
  BY <1>6, FS_CardinalityType

\* What the view's query finds: every thread of the table.
LEMMA SnapshotHasAll ==
    ASSUME NEW snapshot \in Snapshots
    PROVE  snapshot \in Seq(Stored) /\ Range(snapshot) = Stored
<1> PICK n : n = Cardinality(Stored)
  OBVIOUS
<1>1. n \in Nat /\ IsFiniteSet(Stored)
  BY StoredIsFinite
<1>2. snapshot \in [1 .. n -> Stored] /\ DOMAIN snapshot = 1 .. n
      /\ \A i, j \in DOMAIN snapshot : i < j => snapshot[i] # snapshot[j]
  BY DEF Snapshots
<1>3. \A i, j \in 1 .. n : snapshot[i] = snapshot[j] => i = j
  <2>1. \A i, j \in 1 .. n : i # j => i < j \/ j < i
    BY <1>1
  <2> QED
    BY <1>2, <2>1
<1>4. snapshot \in Injection(1 .. n, Stored)
  BY <1>2, <1>3 DEF Injection, IsInjective
<1>5. IsFiniteSet(1 .. n) /\ Cardinality(1 .. n) = n
  <2>1. 1 \in Int /\ n \in Int
    BY <1>1
  <2>2. IsFiniteSet(1 .. n) /\ Cardinality(1 .. n) = IF 1 > n THEN 0 ELSE n - 1 + 1
    BY ONLY <2>1, FS_Interval
  <2> QED
    BY <1>1, <2>2
<1>6. snapshot \in Surjection(1 .. n, Stored)
  BY <1>1, <1>4, <1>5, FS_Injection
<1>7. \A t \in Stored : \E i \in 1 .. n : snapshot[i] = t
  BY <1>6 DEF Surjection
<1>8. Range(snapshot) = Stored
  BY <1>2, <1>7 DEF Range
<1>9. snapshot \in Seq(Stored)
  BY <1>1, <1>2
<1> QED
  BY <1>8, <1>9

-----------------------------------------------------------------------------
(* The types                                                               *)

QueueInv ==
    /\ pending \in [SignalNames -> Seq(Threads)]
    /\ inbox \in Seq(Messages)
    /\ requests \in Seq(Rooms)
    /\ operations \in 0 .. MaxOperations
    /\ returned \subseteq Threads /\ skipped \subseteq Threads

AskedFor == {call \in [thread : Threads, related : SUBSET Threads] : call.thread \in call.related}
Views == [connected : BOOLEAN, valid : BOOLEAN, alive : BOOLEAN, rest : Seq(Threads)]

\* Without a view the model is empty and asks for nothing.
ModelInv ==
    /\ view \in Views
    /\ RowsOK(groups)
    /\ \A i \in DOMAIN groups : Distinct(groups[i].threads)
    /\ calls \in Seq(AskedFor)
    /\ paging => calls = <<>>
    /\ view.valid => view.connected
    /\ ~view.connected => groups = <<>> /\ calls = <<>>
    /\ {running, more, update, paging} \subseteq BOOLEAN
    /\ fetched \subseteq Rooms \cap OnModel(groups)

TInv == ServiceInv /\ QueueInv /\ ModelInv

LEMMA AnnouncedIs ==
    ASSUME NEW name
    PROVE  /\ Announced(name) = Range(pending[name]) \cup Told(inbox, name)
           /\ Announced(name)' = Range(pending'[name]) \cup Told(inbox', name)
  BY DEF Announced, Told

\* One thread more is pending under one name.
LEMMA NotifiedOf ==
    ASSUME QueueInv, NEW name \in SignalNames, NEW t \in Threads, Notify(Lists(name, t))
    PROVE  /\ pending' \in [SignalNames -> Seq(Threads)] /\ inbox' = inbox
           /\ \A one \in SignalNames :
                 Announced(one)' = Announced(one) \cup (IF one = name THEN {t} ELSE {})
<1>1. Lists(name, t) \in [SignalNames -> Seq(Threads)]
      /\ \A one \in SignalNames : Lists(name, t)[one] = IF one = name THEN <<t>> ELSE <<>>
  <2>1. <<t>> \in Seq(Threads) /\ <<>> \in Seq(Threads)
    OBVIOUS
  <2>2. NothingPending \in [SignalNames -> Seq(Threads)]
        /\ \A one \in SignalNames : NothingPending[one] = <<>>
    BY <2>1 DEF NothingPending
  <2>3. Lists(name, t) = [NothingPending EXCEPT ![name] = <<t>>]
    BY DEF Lists
  <2> QED
    BY ONLY <2>1, <2>2, <2>3, name \in SignalNames
<1>2. /\ inbox' = inbox /\ pending \in [SignalNames -> Seq(Threads)]
      /\ pending' = [one \in SignalNames |-> pending[one] \o Lists(name, t)[one]]
  BY DEF Notify, QueueInv
<1>3. ASSUME NEW one \in SignalNames
      PROVE  /\ pending'[one] \in Seq(Threads)
             /\ Range(pending'[one]) = Range(pending[one]) \cup (IF one = name THEN {t} ELSE {})
  <2> PICK old : old = pending[one]
    OBVIOUS
  <2>1. old \in Seq(Threads)
    BY <1>2
  <2>2. CASE one = name
    <3>1. pending'[one] = old \o <<t>>
      BY <1>1, <1>2, <2>2
    <3>2. /\ old \o <<t>> \in Seq(Threads) /\ DOMAIN old = 1 .. Len(old) /\ Len(old) \in Nat
          /\ DOMAIN (old \o <<t>>) = 1 .. (Len(old) + 1) /\ (old \o <<t>>)[Len(old) + 1] = t
          /\ \A n \in 1 .. Len(old) : (old \o <<t>>)[n] = old[n]
      BY <2>1
    <3>3. \A x : x \in Range(old \o <<t>>) <=> x \in Range(old) \cup {t}
      BY ONLY <3>2 DEF Range
    <3> QED
      BY <2>2, <3>1, <3>2, <3>3
  <2>3. CASE one # name
    <3>1. pending'[one] = old \o <<>>
      BY <1>1, <1>2, <2>3
    <3>2. old \o <<>> = old
      BY <2>1
    <3> QED
      BY <2>1, <2>3, <3>1, <3>2
  <2> QED
    BY <2>2, <2>3
<1>4. pending' \in [SignalNames -> Seq(Threads)]
  BY <1>2, <1>3
<1>5. ASSUME NEW one \in SignalNames
      PROVE  Announced(one)' = Announced(one) \cup (IF one = name THEN {t} ELSE {})
  <2>1. /\ Announced(one) = Range(pending[one]) \cup Told(inbox, one)
        /\ Announced(one)' = Range(pending'[one]) \cup Told(inbox', one)
    BY AnnouncedIs
  <2>2. Range(pending'[one]) = Range(pending[one]) \cup (IF one = name THEN {t} ELSE {})
    BY <1>3
  <2> QED
    BY ONLY <1>2, <2>1, <2>2
<1> QED
  BY <1>2, <1>4, <1>5

LEMMA NothingIsPending ==
    /\ NothingPending \in [SignalNames -> Seq(Threads)]
    /\ \A name \in SignalNames : Range(NothingPending[name]) = {}
<1>1. \A name \in SignalNames : NothingPending[name] = <<>>
  BY DEF NothingPending
<1>2. Range(<<>>) = {}
  BY DEF Range
<1>3. NothingPending \in [SignalNames -> Seq(Threads)]
  BY DEF NothingPending
<1> QED
  BY <1>1, <1>2, <1>3

\* What is sent is announced still.
LEMMA SignalsAreSent ==
    ASSUME QueueInv, ProcessSignals
    PROVE  /\ pending' \in [SignalNames -> Seq(Threads)] /\ inbox' \in Seq(Messages)
           /\ inbox' = inbox \o Emitted /\ Emitted \in Seq(Messages) /\ Plain(Emitted)
           /\ \A name \in SignalNames : Announced(name)' = Announced(name)
           /\ Calm(inbox') <=> Calm(inbox)
<1>1. /\ pending \in [SignalNames -> Seq(Threads)] /\ inbox \in Seq(Messages)
      /\ pending' = NothingPending /\ inbox' = inbox \o Emitted
  BY DEF QueueInv, ProcessSignals
<1>2. /\ Emitted \in Seq(Messages) /\ Plain(Emitted) /\ Calm(Emitted)
      /\ \A name \in SignalNames : Told(Emitted, name) = Range(pending[name])
  BY <1>1, EmittedMessages
<1>3. /\ inbox \o Emitted \in Seq(Messages)
      /\ \A name : Told(inbox \o Emitted, name) = Told(inbox, name) \cup Told(Emitted, name)
      /\ Calm(inbox \o Emitted) <=> Calm(inbox) /\ Calm(Emitted)
  BY ONLY <1>1, <1>2, JoinedMessages
<1>4. ASSUME NEW name \in SignalNames PROVE Announced(name)' = Announced(name)
  <2>1. /\ Announced(name) = Range(pending[name]) \cup Told(inbox, name)
        /\ Announced(name)' = Range(pending'[name]) \cup Told(inbox', name)
    BY AnnouncedIs
  <2>2. Range(pending'[name]) = {}
    BY <1>1, NothingIsPending
  <2> QED
    BY ONLY <1>1, <1>2, <1>3, <2>1, <2>2, name \in SignalNames
<1> QED
  BY <1>1, <1>2, <1>3, <1>4, NothingIsPending

\* Messages that are no signals of the service.
LEMMA OtherMessages ==
    /\ \A change \in Changes :
          [signal |-> "participantsChanged", items |-> <<change>>] \in Messages
    /\ \A name \in Bus : [signal |-> name, items |-> <<>>] \in Messages
    /\ "participantsChanged" \notin SignalNames \cup Bus /\ Bus \cap SignalNames = {}
<1>1. \A name \in Bus : [signal |-> name, items |-> <<>>] \in [signal : Bus, items : {<<>>}]
  OBVIOUS
<1> QED
  BY <1>1 DEF Messages, SignalNames, Bus

\* Changes and answers are messages.
Says(message, t, added, removed, modified) ==
    /\ message \in Messages /\ message.signal = "participantsChanged"
    /\ message.items[1] \in Changes
    /\ message.items[1].thread = t /\ message.items[1].added = added
    /\ message.items[1].removed = removed /\ message.items[1].modified = modified

LEMMA ChangeIs ==
    ASSUME NEW t \in Rooms, NEW added, added \subseteq Members \X {FALSE},
           NEW removed, removed \subseteq Members \X {FALSE},
           NEW modified, modified \subseteq Members \X {TRUE}
    PROVE  Says(Change(t, added, removed, modified), t, added, removed, modified)
<1> PICK change : change = Change(t, added, removed, modified)
  OBVIOUS
<1> PICK one : one = [thread |-> t, added |-> added, removed |-> removed, modified |-> modified]
  OBVIOUS
<1>1. one \in Changes
  BY DEF Changes
<1>2. change = [signal |-> "participantsChanged", items |-> <<one>>]
  BY DEF Change
<1>3. change \in Messages
  BY <1>1, <1>2, OtherMessages
<1> QED
  BY <1>1, <1>2, <1>3 DEF Says

LEMMA MemberChangeIs ==
    ASSUME NEW t \in Rooms, NEW m \in Members
    PROVE  /\ Says(Change(t, {<<m, FALSE>>}, {}, {}), t, {<<m, FALSE>>}, {}, {})
           /\ Says(Change(t, {}, {<<m, FALSE>>}, {}), t, {}, {<<m, FALSE>>}, {})
<1>1. <<m, FALSE>> \in Members \X {FALSE}
  OBVIOUS
<1>2. PICK one : one = {<<m, FALSE>>}
  OBVIOUS
<1>3. PICK none : none = {}
  OBVIOUS
<1>4. /\ one \subseteq Members \X {FALSE}
      /\ none \subseteq Members \X {FALSE} /\ none \subseteq Members \X {TRUE}
  BY <1>1, <1>2, <1>3
<1>5. Says(Change(t, one, none, none), t, one, none, none)
  BY ONLY <1>4, ChangeIs, t \in Rooms
<1>6. Says(Change(t, none, one, none), t, none, one, none)
  BY ONLY <1>4, ChangeIs, t \in Rooms
<1> QED
  BY <1>2, <1>3, <1>5, <1>6

\* A message that is not about threads changes nothing that is announced.
LEMMA MessageIsAppended ==
    ASSUME QueueInv, NEW message \in Messages, message.signal \notin SignalNames,
           inbox' = Append(inbox, message), pending' = pending
    PROVE  /\ inbox' \in Seq(Messages)
           /\ \A name \in SignalNames : Announced(name)' = Announced(name)
           /\ Calm(inbox') <=> Calm(inbox) /\ message.signal \notin Bus
<1>1. /\ Append(inbox, message) \in Seq(Messages)
      /\ \A name : Told(Append(inbox, message), name) = Told(inbox, name) \cup ToldOf(message, name)
      /\ Calm(Append(inbox, message)) <=> Calm(inbox) /\ message.signal \notin Bus
  BY AppendedMessage DEF QueueInv
<1>2. ASSUME NEW name \in SignalNames PROVE Announced(name)' = Announced(name)
  <2>1. /\ Announced(name) = Range(pending[name]) \cup Told(inbox, name)
        /\ Announced(name)' = Range(pending'[name]) \cup Told(inbox', name)
    BY AnnouncedIs
  <2>2. ToldOf(message, name) = {}
    BY DEF ToldOf
  <2> QED
    BY <1>1, <2>1, <2>2
<1> QED
  BY <1>1, <1>2

\* A message is received: what it was about is not announced any longer, unless
\* it is again.
LEMMA MessageIsReceived ==
    ASSUME QueueInv, inbox # <<>>, inbox' = Tail(inbox), pending' = pending
    PROVE  /\ inbox' \in Seq(Messages) /\ Head(inbox) \in Messages
           /\ \A name : Announced(name) = Announced(name)' \cup ToldOf(Head(inbox), name)
           /\ Calm(inbox) <=> Calm(inbox') /\ Head(inbox).signal \notin Bus
<1>1. /\ Tail(inbox) \in Seq(Messages) /\ Head(inbox) \in Messages
      /\ \A name : Told(inbox, name) = ToldOf(Head(inbox), name) \cup Told(Tail(inbox), name)
      /\ Calm(inbox) <=> Head(inbox).signal \notin Bus /\ Calm(Tail(inbox))
  BY NextMessage DEF QueueInv
<1>2. ASSUME NEW name
      PROVE  Announced(name) = Announced(name)' \cup ToldOf(Head(inbox), name)
  <2>1. /\ Announced(name) = Range(pending[name]) \cup Told(inbox, name)
        /\ Announced(name)' = Range(pending'[name]) \cup Told(inbox', name)
    BY AnnouncedIs
  <2> QED
    BY <1>1, <2>1
<1> QED
  BY <1>1, <1>2

LEMMA SameService ==
    ASSUME UNCHANGED service
    PROVE  /\ ServiceInv => ServiceInv'
           /\ Stored' = Stored /\ Cache' = Cache /\ keys' = keys /\ conversations' = conversations
           /\ daemon' = daemon /\ members' = members /\ Ready' = Ready
<1>1. UNCHANGED vars /\ UNCHANGED <<members, daemon>>
  BY DEF service
<1>2. IInv => IInv'
  BY <1>1, StepKeeps
<1> QED
  BY <1>1, <1>2 DEF vars, ServiceInv, Stored, Cache, Ready

LEMMA ServiceInitially == GroupedInit => ServiceInv
<1> SUFFICES ASSUME GroupedInit PROVE ServiceInv
  OBVIOUS
<1>1. /\ stored \in [Threads -> Stamps \cup {0}]
      /\ conversations = [t \in Threads |-> NoConversation] /\ keys = [t \in Threads |-> NoKey]
      /\ loading = Stored /\ lost = {} /\ stale = {} /\ before = {} /\ torn = FALSE
      /\ members = [t \in Rooms |-> IF stored[t] = 0 THEN {} ELSE Members] /\ daemon = "starting"
  BY GroupedThreadsAssumption DEF GroupedInit
<1>2. Cache = Empty
  BY <1>1 DEF Cache, Empty
<1>3. HistoryTypes
  BY <1>1 DEF HistoryTypes, Stored
<1>4. Mirrored
  BY <1>1, <1>2, EmptyIsKept DEF Mirrored
<1>5. IInv
  BY <1>1, <1>2, <1>3, <1>4, EmptyIsKept DEF IInv
<1>6. members \in [Rooms -> SUBSET Members]
  BY <1>1
<1> QED
  BY <1>1, <1>5, <1>6 DEF ServiceInv

LEMMA ServiceKeeps ==
    ASSUME ServiceInv, GroupedNext
    PROVE  ServiceInv'
<1>0. /\ IInv /\ lost = {} /\ ~torn /\ members \in [Rooms -> SUBSET Members]
      /\ daemon \in {"up", "down", "starting"} /\ (daemon # "starting" => Ready)
  BY DEF ServiceInv
<1>1. ASSUME NEW t \in Threads, NEW time \in Stamps, Create(t, time) \/ Update(t, time)
      PROVE  ServiceInv'
  <2>1. Wrote(t)
    BY <1>1, ThreadIsWritten DEF Create, Update
  <2>2. daemon = "up" /\ daemon' = daemon /\ members' = members
    BY <1>1 DEF Create, Update, Works
  <2> QED
    BY <1>0, <2>1, <2>2 DEF Wrote, ServiceInv, Ready
<1>2. ASSUME NEW t \in Threads, Delete(t) PROVE ServiceInv'
  <2>1. Removes(t)
    BY <1>2, ThreadIsRemoved DEF Delete
  <2>2. daemon = "up" /\ daemon' = daemon
        /\ members' = IF t \in Rooms THEN [members EXCEPT ![t] = {}] ELSE members
    BY <1>2 DEF Delete, Works
  <2>3. members' \in [Rooms -> SUBSET Members]
    BY <1>0, <2>2
  <2> QED
    BY <1>0, <2>1, <2>2, <2>3 DEF Removes, ServiceInv, Ready
<1>3. ASSUME NEW t \in Rooms, NEW m \in Members, JoinRoom(t, m) \/ LeaveRoom(t, m)
      PROVE  ServiceInv'
  <2>1. UNCHANGED vars /\ daemon' = daemon
        /\ (members' = [members EXCEPT ![t] = @ \cup {m}] \/ members' = [members EXCEPT ![t] = @ \ {m}])
    BY <1>3 DEF JoinRoom, LeaveRoom, Works
  <2>2. members' \in [Rooms -> SUBSET Members]
    BY <1>0, <2>1
  <2>3. IInv'
    BY <1>0, <2>1, StepKeeps
  <2> QED
    BY <1>0, <2>1, <2>2, <2>3 DEF ServiceInv, Ready, vars
<1>4. ASSUME NEW t \in Threads, Load(t) PROVE ServiceInv'
  <2>1. LoadThread(t) /\ daemon = "starting" /\ daemon' = daemon /\ members' = members
    BY <1>4 DEF Load
  <2>2. IInv'
    <3>1. Next
      BY <2>1 DEF Next
    <3> QED
      BY <1>0, <3>1, StepKeeps
  <2> QED
    BY <1>0, <2>1, <2>2 DEF ServiceInv, LoadThread
<1>5. CASE Kill
  <2>1. UNCHANGED vars /\ daemon = "up" /\ daemon' = "down" /\ members' = members
    BY <1>5 DEF Kill
  <2>2. IInv'
    BY <1>0, <2>1, StepKeeps
  <2> QED
    BY <1>0, <2>1, <2>2 DEF ServiceInv, Ready, vars
<1>6. CASE Start
  <2>1. Restart /\ daemon' = "starting" /\ members' = members
    BY <1>6 DEF Start
  <2>2. IInv'
    <3>1. Next
      BY <2>1 DEF Next
    <3> QED
      BY <1>0, <3>1, StepKeeps
  <2> QED
    BY <1>0, <2>1, <2>2 DEF ServiceInv, Restart
<1>7. CASE Register
  <2>1. UNCHANGED vars /\ daemon' = "up" /\ members' = members /\ Ready
    BY <1>7 DEF Register
  <2>2. IInv'
    BY <1>0, <2>1, StepKeeps
  <2> QED
    BY <1>0, <2>1, <2>2 DEF ServiceInv, Ready, vars
<1>8. ASSUME UNCHANGED service PROVE ServiceInv'
  BY <1>8, SameService
<1>9. CASE \E t \in Rooms : RequestParticipants(t)
  BY <1>8, <1>9 DEF RequestParticipants
<1>10. CASE AnswerParticipants \/ SendSignals \/ FetchMore
  BY <1>8, <1>10 DEF AnswerParticipants, SendSignals, FetchMore, Undisturbed
<1>11. CASE UpdateQuery \/ NextPage \/ ProcessThreadGrouping \/ ChangeQuery
  BY <1>8, <1>11 DEF UpdateQuery, NextPage, ProcessThreadGrouping, ChangeQuery, Undisturbed
<1>12. CASE OnThreadsChanged \/ OnThreadsRemoved \/ OnThreadParticipantsChanged \/ OnServiceRunningChanged
  BY <1>8, <1>12 DEF OnThreadsChanged, OnThreadsRemoved, OnThreadParticipantsChanged,
                     OnServiceRunningChanged, Receive, Undisturbed
<1> QED
  BY <1>1, <1>2, <1>3, <1>4, <1>5, <1>6, <1>7, <1>9, <1>10, <1>11, <1>12 DEF GroupedNext

LEMMA QueueInitially == GroupedInit => QueueInv
<1> SUFFICES ASSUME GroupedInit PROVE QueueInv
  OBVIOUS
<1>1. /\ pending = NothingPending /\ inbox = <<>> /\ requests = <<>> /\ operations = 0
      /\ returned = {} /\ skipped = {}
  BY DEF GroupedInit, SignalQueueInit
<1>2. <<>> \in Seq(Messages) /\ <<>> \in Seq(Rooms)
  OBVIOUS
<1>3. 0 \in 0 .. MaxOperations
  BY GroupedThreadsAssumption
<1> QED
  BY <1>1, <1>2, <1>3, NothingIsPending DEF QueueInv

\* Where no message is received or sent, and nothing is history.
LEMMA SameQueue ==
    ASSUME QueueInv, pending' = pending, inbox' = inbox, requests' = requests,
           operations' = operations \/ Operate,
           returned' \subseteq returned, skipped' \subseteq skipped
    PROVE  QueueInv'
<1>1. operations' \in 0 .. MaxOperations
  BY GroupedThreadsAssumption DEF QueueInv, Operate
<1> QED
  BY <1>1 DEF QueueInv

LEMMA QueueKeeps ==
    ASSUME TInv, GroupedNext
    PROVE  QueueInv'
<1>0. /\ QueueInv /\ ServiceInv /\ ModelInv
      /\ pending \in [SignalNames -> Seq(Threads)] /\ inbox \in Seq(Messages)
      /\ requests \in Seq(Rooms) /\ operations \in 0 .. MaxOperations
      /\ returned \subseteq Threads /\ skipped \subseteq Threads
      /\ MaxOperations \in Nat
  BY GroupedThreadsAssumption DEF TInv, QueueInv
<1>1. ASSUME Operate PROVE operations' \in 0 .. MaxOperations
  BY <1>0, <1>1 DEF Operate
<1>2. ASSUME NEW t \in Threads, NEW time \in Stamps, Create(t, time) \/ Update(t, time)
      PROVE  QueueInv'
  <2>1. /\ Operate /\ requests' = requests /\ skipped' = skipped /\ returned' \subseteq returned \cup {t}
        /\ (Notify(Lists("threadsAdded", t)) \/ Notify(Lists("threadsModified", t)))
    BY <1>2 DEF Create, Update, Works
  <2>2. pending' \in [SignalNames -> Seq(Threads)] /\ inbox' = inbox
    BY <1>0, <2>1, NotifiedOf DEF SignalNames
  <2> QED
    BY <1>0, <1>1, <2>1, <2>2 DEF QueueInv
<1>3. ASSUME NEW t \in Threads, Delete(t) PROVE QueueInv'
  <2>1. /\ Operate /\ requests' = requests /\ returned' = returned /\ RemoveThread(t)
        /\ skipped' \subseteq skipped \cup ThreadsIn(conversations[keys[t]])
        /\ Notify(Lists("threadsRemoved", t)) /\ daemon = "up"
    BY <1>3 DEF Delete, Works
  <2>2. pending' \in [SignalNames -> Seq(Threads)] /\ inbox' = inbox
    BY <1>0, <2>1, NotifiedOf DEF SignalNames
  <2>3. ConversationFacts(t)
    BY <1>0, <2>1, LoadedCache DEF RemoveThread
  <2>4. ThreadsIn(conversations[keys[t]]) \subseteq Threads
    BY <2>3 DEF ConversationFacts, At, Cache, Stored
  <2> QED
    BY <1>0, <1>1, <2>1, <2>2, <2>4 DEF QueueInv
<1>4. ASSUME NEW t \in Rooms, NEW m \in Members, JoinRoom(t, m) \/ LeaveRoom(t, m)
      PROVE  QueueInv'
  <2>1. PICK message : /\ inbox' = Append(inbox, message)
                       /\ \/ message = Change(t, {<<m, FALSE>>}, {}, {})
                          \/ message = Change(t, {}, {<<m, FALSE>>}, {})
    BY <1>4 DEF JoinRoom, LeaveRoom
  <2>2. message \in Messages /\ message.signal = "participantsChanged"
    <3>1. /\ Says(Change(t, {<<m, FALSE>>}, {}, {}), t, {<<m, FALSE>>}, {}, {})
          /\ Says(Change(t, {}, {<<m, FALSE>>}, {}), t, {}, {<<m, FALSE>>}, {})
      BY MemberChangeIs
    <3>2. \/ Says(message, t, {<<m, FALSE>>}, {}, {})
          \/ Says(message, t, {}, {<<m, FALSE>>}, {})
      BY ONLY <2>1, <3>1
    <3> QED
      BY ONLY <3>2 DEF Says
  <2>3. /\ Operate /\ requests' = requests /\ skipped' = skipped /\ returned' = returned
        /\ pending' = pending
    BY <1>4 DEF JoinRoom, LeaveRoom, Works
  <2>4. inbox' \in Seq(Messages)
    BY <1>0, <2>1, <2>2
  <2> QED
    BY <1>0, <1>1, <2>3, <2>4 DEF QueueInv
<1>5. CASE AnswerParticipants
  <2>1. /\ requests # <<>> /\ requests' = Tail(requests)
        /\ inbox' = Append(inbox, Change(Head(requests), {}, {}, members[Head(requests)] \X {TRUE}))
        /\ pending' = pending /\ operations' = operations /\ skipped' = skipped /\ returned' = returned
    BY <1>5 DEF AnswerParticipants
  <2>2. Head(requests) \in Rooms /\ Tail(requests) \in Seq(Rooms)
    BY <1>0, <2>1
  <2>3. members[Head(requests)] \X {TRUE} \subseteq Members \X {TRUE}
    BY <1>0, <2>2 DEF ServiceInv
  <2>4. PICK message : message = Change(Head(requests), {}, {}, members[Head(requests)] \X {TRUE})
    OBVIOUS
  <2>5. message \in Messages
    BY <2>2, <2>3, <2>4, ChangeIs DEF Says
  <2>6. inbox' \in Seq(Messages)
    BY <1>0, <2>1, <2>4, <2>5
  <2> QED
    BY <1>0, <2>1, <2>2, <2>6 DEF QueueInv
<1>6. CASE Kill
  <2>1. /\ Operate /\ requests' = <<>> /\ pending' = NothingPending
        /\ inbox' = Append(inbox, [signal |-> "serviceUnregistered", items |-> <<>>])
        /\ skipped' = skipped /\ returned' = returned
    BY <1>6 DEF Kill, LoseSignals
  <2>2. [signal |-> "serviceUnregistered", items |-> <<>>] \in Messages
    BY OtherMessages DEF Bus
  <2>3. inbox' \in Seq(Messages) /\ requests' \in Seq(Rooms)
    BY <1>0, <2>1, <2>2
  <2> QED
    BY <1>0, <1>1, <2>1, <2>3, NothingIsPending DEF QueueInv
<1>7. CASE Register
  <2>1. /\ operations' = operations /\ requests' = requests /\ pending' = pending
        /\ inbox' = Append(inbox, [signal |-> "serviceRegistered", items |-> <<>>])
        /\ skipped' = skipped /\ returned' = returned
    BY <1>7 DEF Register, RegisterService
  <2>2. [signal |-> "serviceRegistered", items |-> <<>>] \in Messages
    BY OtherMessages DEF Bus
  <2>3. inbox' \in Seq(Messages)
    BY <1>0, <2>1, <2>2
  <2> QED
    BY <1>0, <2>1, <2>3 DEF QueueInv
<1>8. CASE SendSignals
  <2>1. UNCHANGED <<operations, requests, returned, skipped>> /\ (Expire \/ ProcessSignals)
    BY <1>8 DEF SendSignals
  <2>2. pending' \in [SignalNames -> Seq(Threads)] /\ inbox' \in Seq(Messages)
    BY <1>0, <2>1, SignalsAreSent DEF Expire
  <2> QED
    BY <1>0, <2>1, <2>2 DEF QueueInv
<1>9. ASSUME NEW t \in Rooms, RequestParticipants(t) PROVE QueueInv'
  <2>1. /\ Operate /\ requests' = Append(requests, t) /\ pending' = pending /\ inbox' = inbox
        /\ skipped' = skipped /\ returned' = returned
    BY <1>9 DEF RequestParticipants, signalQueue
  <2>2. requests' \in Seq(Rooms)
    BY <1>0, <2>1
  <2> QED
    BY <1>0, <1>1, <2>1, <2>2 DEF QueueInv
<1>10. CASE (\E t \in Threads : Load(t)) \/ Start
  BY <1>0, <1>10, SameQueue DEF Load, Start, signalQueue
<1>11. CASE UpdateQuery \/ FetchMore \/ NextPage \/ ProcessThreadGrouping \/ ChangeQuery
  <2>1. /\ pending' = pending /\ inbox' = inbox /\ requests' = requests
        /\ operations' = operations \/ Operate
        /\ returned' \subseteq returned /\ skipped' \subseteq skipped
    BY <1>11 DEF UpdateQuery, FetchMore, NextPage, ProcessThreadGrouping, ChangeQuery, Undisturbed
  <2> QED
    BY <1>0, <2>1, SameQueue
<1>12. CASE OnThreadsChanged \/ OnThreadsRemoved \/ OnThreadParticipantsChanged \/ OnServiceRunningChanged
  <2>1. /\ inbox # <<>> /\ inbox' = Tail(inbox) /\ pending' = pending /\ requests' = requests
        /\ operations' = operations /\ returned' = returned /\ skipped' = skipped
    BY <1>12 DEF OnThreadsChanged, OnThreadsRemoved, OnThreadParticipantsChanged,
                 OnServiceRunningChanged, Receive, Undisturbed
  <2>2. inbox' \in Seq(Messages)
    BY <1>0, <2>1
  <2> QED
    BY <1>0, <2>1, <2>2 DEF QueueInv
<1> QED
  BY <1>2, <1>3, <1>4, <1>5, <1>6, <1>7, <1>8, <1>9, <1>10, <1>11, <1>12 DEF GroupedNext

LEMMA SentIs ==
    ASSUME NEW copies \in Seq(Copy), NEW sent, sent = Sent(copies)
    PROVE  /\ sent \in Seq(Copies)
           /\ ThreadsIn(sent) = ThreadsIn(copies) /\ BareIn(sent) = CopiesAmong(copies)
           /\ Distinct(copies) => Distinct(sent)
           /\ sent = <<>> <=> copies = <<>>
           /\ \A copy \in CopiesAmong(sent) : copy.people = {}
<1>1. /\ Len(copies) \in Nat /\ DOMAIN copies = 1 .. Len(copies)
      /\ \A i \in DOMAIN copies : copies[i] \in Copy
  OBVIOUS
<1>2. /\ DOMAIN sent = DOMAIN copies
      /\ \A i \in DOMAIN copies :
            sent[i] = [thread |-> copies[i].thread, time |-> copies[i].time, people |-> {}]
  BY DEF Sent
<1>3. ASSUME NEW i \in DOMAIN copies
      PROVE  /\ sent[i] \in Copies /\ sent[i].thread = copies[i].thread /\ Bare(sent[i]) = copies[i]
             /\ sent[i].people = {}
  <2>1. /\ copies[i] = [thread |-> copies[i].thread, time |-> copies[i].time]
        /\ copies[i].thread \in Threads /\ copies[i].time \in Stamps \cup {0}
    BY <1>1 DEF Copy
  <2>2. {} \in SUBSET (Members \X BOOLEAN)
    OBVIOUS
  <2>3. [thread |-> copies[i].thread, time |-> copies[i].time, people |-> {}] \in Copies
    BY <2>1, <2>2 DEF Copies
  <2>4. sent[i] = [thread |-> copies[i].thread, time |-> copies[i].time, people |-> {}]
    BY <1>2
  <2>5. Bare(sent[i]) = copies[i]
    BY <2>1, <2>4 DEF Bare
  <2>6. sent[i] \in Copies
    BY ONLY <2>3, <2>4
  <2>7. sent[i].thread = copies[i].thread /\ sent[i].people = {}
    BY ONLY <2>4
  <2> QED
    BY <2>5, <2>6, <2>7
<1>4. sent \in Seq(Copies)
  <2>1. sent = [i \in 1 .. Len(copies) |-> sent[i]]
    BY <1>1, <1>2 DEF Sent
  <2> QED
    BY <1>1, <1>3, <2>1
<1>5. ThreadsIn(sent) = ThreadsIn(copies)
  BY <1>2, <1>3 DEF ThreadsIn
<1>6. BareIn(sent) = CopiesAmong(copies)
  <2>1. \A x : x \in BareIn(sent) <=> x \in CopiesAmong(copies)
    BY <1>2, <1>3 DEF BareIn, CopiesAmong
  <2> QED
    BY <2>1
<1>7. Distinct(copies) => Distinct(sent)
  BY <1>2, <1>3 DEF Distinct
<1>8. sent = <<>> <=> copies = <<>>
  BY <1>1, <1>2, <1>4
<1>9. \A copy \in CopiesAmong(sent) : copy.people = {}
  BY <1>2, <1>3 DEF CopiesAmong
<1> QED
  BY <1>4, <1>5, <1>6, <1>7, <1>8, <1>9

\* What GetSingleThread answers for t.
Answered(copies, t) ==
    /\ copies \in Seq(Copies) /\ t \in ThreadsIn(copies)
    /\ ThreadsIn(copies) \subseteq Stored /\ Together(ThreadsIn(copies))
    /\ Distinct(copies)
    /\ NumbersMatch =>
          /\ ThreadsIn(copies) = {u \in Stored : SameConversation(t, u)}
          /\ BareIn(copies) = {copy \in CopiesOf(Cache) : SameConversation(t, copy.thread)}

LEMMA AnswerIs ==
    ASSUME ServiceInv, Ready, NEW t \in Threads
    PROVE  IF t \in Stored THEN Answered(Conversation(t), t) ELSE Conversation(t) = <<>>
<1>1. CASE t \in Stored
  <2>1. ConversationFacts(t)
    BY <1>1, LoadedCache
  <2> PICK copies : copies = At(Cache, keys[t])
    OBVIOUS
  <2> PICK sent : sent = Sent(copies)
    OBVIOUS
  <2>2. Conversation(t) = sent
    BY <2>1 DEF Conversation, ConversationFacts
  <2>3. /\ copies \in Seq(Copy) /\ t \in ThreadsIn(copies) /\ ThreadsIn(copies) \subseteq Stored
        /\ Together(ThreadsIn(copies)) /\ Distinct(copies)
        /\ NumbersMatch =>
              /\ ThreadsIn(copies) = {u \in Stored : SameConversation(t, u)}
              /\ CopiesAmong(copies) = {copy \in CopiesOf(Cache) : SameConversation(t, copy.thread)}
    BY <2>1 DEF ConversationFacts
  <2>4. /\ sent \in Seq(Copies) /\ ThreadsIn(sent) = ThreadsIn(copies)
        /\ BareIn(sent) = CopiesAmong(copies) /\ (Distinct(copies) => Distinct(sent))
    BY <2>3, SentIs
  <2>5. Answered(sent, t)
    BY ONLY <2>3, <2>4 DEF Answered
  <2> QED
    BY <1>1, <2>2, <2>5
<1>2. CASE t \notin Stored
  <2>1. keys[t] = NoKey
    BY <1>2, LoadedCache
  <2>2. Conversation(t) = Sent(<<>>)
    BY <2>1 DEF Conversation
  <2>3. <<>> \in Seq(Copy)
    OBVIOUS
  <2>4. Sent(<<>>) = <<>>
    BY <2>3, SentIs
  <2> QED
    BY <1>2, <2>2, <2>4
<1> QED
  BY <1>1, <1>2

\* The answer is there just while the thread is stored.
LEMMA AnswerTells ==
    ASSUME ServiceInv, Ready, NEW t \in Threads
    PROVE  Conversation(t) # <<>> <=> t \in Stored
<1>1. Conversation(t) = <<>> => ThreadsIn(Conversation(t)) = {}
  BY DEF ThreadsIn
<1> QED
  BY <1>1, AnswerIs DEF Answered

LEMMA PartOf ==
    ASSUME NEW list \in Seq(Threads), NEW m \in Nat \ {0}, NEW n \in 0 .. Len(list)
    PROVE  /\ SubSeq(list, m, n) \in Seq(Threads)
           /\ Len(SubSeq(list, m, n)) = (IF m <= n THEN n - m + 1 ELSE 0)
           /\ \A i \in 1 .. (n - m + 1) : SubSeq(list, m, n)[i] = list[m + i - 1]
<1>1. Len(list) \in Nat /\ \A i \in 1 .. Len(list) : list[i] \in Threads
  OBVIOUS
<1>2. m \in Int /\ n \in Int /\ \A i \in m .. n : i \in 1 .. Len(list)
  BY <1>1
<1>3. \A i \in m .. n : list[i] \in Threads
  BY ONLY <1>1, <1>2
<1> QED
  BY ONLY <1>2, <1>3, SubSeqProperties

\* The keys are on the next page or come later.
Paged(rest, page, later) ==
    /\ page \in Seq(Threads) /\ later \in Seq(Threads)
    /\ \A n \in DOMAIN page : conversations[page[n]] # NoConversation
    /\ \A k \in Range(rest) :
          conversations[k] # NoConversation => k \in Range(page) \cup Range(later)

LEMMA PageIs ==
    ASSUME NEW rest \in Seq(Threads), NEW page, page = Page(rest),
           NEW later, later = SubSeq(rest, PageSize + 1, Len(rest))
    PROVE  Paged(rest, page, later)
<1> PICK size : size = IF Len(rest) < PageSize THEN Len(rest) ELSE PageSize
  OBVIOUS
<1> PICK first : first = FirstPage(rest)
  OBVIOUS
<1>1. /\ PageSize \in Nat \ {0} /\ Len(rest) \in Nat /\ DOMAIN rest = 1 .. Len(rest)
      /\ size \in Nat /\ size <= Len(rest) /\ size <= PageSize
  BY GroupedThreadsAssumption
<1>0. size = PageSize \/ size = Len(rest)
  OBVIOUS
<1>2. first = SubSeq(rest, 1, size)
  BY DEF FirstPage
<1>3. /\ first \in Seq(Threads) /\ Len(first) = size /\ DOMAIN first = 1 .. size
      /\ \A i \in 1 .. size : first[i] = rest[i]
  <2>1. 1 \in Nat \ {0} /\ size \in 0 .. Len(rest)
    BY ONLY <1>1
  <2>2. /\ SubSeq(rest, 1, size) \in Seq(Threads)
        /\ Len(SubSeq(rest, 1, size)) = (IF 1 <= size THEN size - 1 + 1 ELSE 0)
        /\ \A i \in 1 .. (size - 1 + 1) : SubSeq(rest, 1, size)[i] = rest[1 + i - 1]
    BY <2>1, PartOf
  <2>3. size - 1 + 1 = size /\ (IF 1 <= size THEN size - 1 + 1 ELSE 0) = size
        /\ \A i \in 1 .. size : 1 + i - 1 = i
    BY ONLY <1>1
  <2>4. /\ first \in Seq(Threads) /\ Len(first) = size
        /\ \A i \in 1 .. size : first[i] = rest[i]
    BY ONLY <1>2, <2>2, <2>3
  <2> QED
    BY <2>4
<1> PICK kept : kept = {i \in DOMAIN first : conversations[rest[i]] # NoConversation}
  OBVIOUS
<1>4. page = InOrder(first, kept) /\ kept \subseteq DOMAIN first
  BY DEF Page
<1>5. page \in Seq(Threads) /\ \E at : Keeps(first, kept, page, at)
  <2>1. first \in Seq(Threads) /\ kept \subseteq DOMAIN first
    BY <1>3, <1>4
  <2>2. /\ InOrder(first, kept) \in Seq(Threads)
        /\ \E at : Keeps(first, kept, InOrder(first, kept), at)
    BY ONLY <2>1, KeptInOrder
  <2> QED
    BY ONLY <1>4, <2>2
<1>6. PICK at : Keeps(first, kept, page, at)
  BY <1>5
<1>7. DOMAIN page = 1 .. Len(page) /\ DOMAIN first = 1 .. Len(first)
  BY <1>3, <1>5
<1>8. \A n \in DOMAIN page : at[n] \in kept /\ page[n] = rest[at[n]]
  BY <1>3, <1>4, <1>6, <1>7 DEF Keeps
<1>9. \A n \in DOMAIN page : conversations[page[n]] # NoConversation
  BY <1>8
<1>10. \A i \in kept : rest[i] \in Range(page)
  <2>1. ASSUME NEW i \in kept PROVE rest[i] \in Range(page)
    <3>1. PICK n \in 1 .. Len(page) : at[n] = i
      BY <1>6 DEF Keeps
    <3>2. n \in DOMAIN page /\ page[n] = rest[i]
      BY <1>7, <1>8, <3>1
    <3> QED
      BY <3>2 DEF Range
  <2> QED
    BY <2>1
<1>11. /\ later \in Seq(Threads)
       /\ \A i \in (PageSize + 1) .. Len(rest) : rest[i] \in Range(later)
  <2> PICK m, n : m = PageSize + 1 /\ n = Len(rest)
    OBVIOUS
  <2>1. m \in Nat \ {0} /\ n \in 0 .. Len(rest)
    BY <1>1
  <2>2. later = SubSeq(rest, m, n)
    OBVIOUS
  <2>3. /\ later \in Seq(Threads)
        /\ Len(later) = (IF m <= n THEN n - m + 1 ELSE 0)
        /\ \A i \in 1 .. (n - m + 1) : later[i] = rest[m + i - 1]
    BY ONLY rest \in Seq(Threads), <2>1, <2>2, PartOf
  <2>4. ASSUME NEW i \in m .. n PROVE rest[i] \in Range(later)
    <3>1. /\ (i - m) + 1 \in 1 .. (n - m + 1) /\ m + ((i - m) + 1) - 1 = i
          /\ m <= n /\ n - m + 1 \in Nat
      BY ONLY <2>1, <2>4
    <3>2. (i - m) + 1 \in DOMAIN later /\ later[(i - m) + 1] = rest[i]
      <4>1. DOMAIN later = 1 .. Len(later) /\ Len(later) = n - m + 1
        BY ONLY <2>3, <3>1
      <4> QED
        BY ONLY <2>3, <3>1, <4>1
    <3> QED
      BY <3>2 DEF Range
  <2> QED
    BY <2>3, <2>4
<1>12. ASSUME NEW k \in Range(rest), conversations[k] # NoConversation
       PROVE  k \in Range(page) \cup Range(later)
  <2>1. PICK i \in DOMAIN rest : k = rest[i]
    BY DEF Range
  <2>2. i \in 1 .. size \/ i \in (PageSize + 1) .. Len(rest)
    <3>1. i \in 1 .. Len(rest)
      BY <1>1
    <3>2. CASE size = PageSize
      BY ONLY <1>1, <3>1, <3>2
    <3>3. CASE size = Len(rest)
      BY ONLY <3>1, <3>3
    <3> QED
      BY <1>0, <3>2, <3>3
  <2>3. i \in 1 .. size => i \in kept
    BY <1>3, <1>12, <2>1
  <2> QED
    BY <1>10, <1>11, <2>1, <2>2, <2>3
<1> QED
  BY <1>5, <1>9, <1>11, <1>12 DEF Paged

\* The requests of a list of threads.
LEMMA CallsFor ==
    ASSUME NEW list \in Seq(Threads), NEW made,
           \/ made = [i \in DOMAIN list |-> [thread |-> list[i], related |-> {list[i]}]]
           \/ /\ made = [i \in DOMAIN list |->
                            [thread |-> list[i], related |-> ThreadsIn(conversations[list[i]])]]
              /\ \A i \in DOMAIN list : /\ list[i] \in ThreadsIn(conversations[list[i]])
                                        /\ ThreadsIn(conversations[list[i]]) \subseteq Threads
    PROVE  /\ made \in Seq(AskedFor)
           /\ {made[i].thread : i \in DOMAIN made} = Range(list)
<1>1. Len(list) \in Nat /\ DOMAIN list = 1 .. Len(list) /\ \A i \in DOMAIN list : list[i] \in Threads
  OBVIOUS
<1>2. /\ DOMAIN made = DOMAIN list
      /\ \A i \in DOMAIN list : made[i] \in AskedFor /\ made[i].thread = list[i]
  <2>1. CASE made = [i \in DOMAIN list |-> [thread |-> list[i], related |-> {list[i]}]]
    BY <1>1, <2>1 DEF AskedFor
  <2>2. CASE /\ made = [i \in DOMAIN list |->
                            [thread |-> list[i], related |-> ThreadsIn(conversations[list[i]])]]
             /\ \A i \in DOMAIN list : /\ list[i] \in ThreadsIn(conversations[list[i]])
                                       /\ ThreadsIn(conversations[list[i]]) \subseteq Threads
    BY <1>1, <2>2 DEF AskedFor
  <2> QED
    BY <2>1, <2>2
<1>3. made = [i \in 1 .. Len(list) |-> made[i]]
  BY <1>1, <1>2
<1>4. made \in Seq(AskedFor)
  BY <1>1, <1>2, <1>3
<1>5. {made[i].thread : i \in DOMAIN made} = Range(list)
  BY <1>2 DEF Range
<1> QED
  BY <1>4, <1>5

-----------------------------------------------------------------------------
(* The handlers of the model                                               *)

AllDistinct(gs) == \A i \in DOMAIN gs : Distinct(gs[i].threads)

\* The threads that are still to be asked for.
Asked == {calls[i].thread : i \in DOMAIN calls}

LEMMA LessKeepsDistinct ==
    ASSUME NEW new, NEW gs, NEW ts, Less(new, gs, ts), AllDistinct(gs)
    PROVE  AllDistinct(new)
BY DEF Less, LessBy, AllDistinct

LEMMA PlacedKeepsDistinct ==
    ASSUME NEW new, NEW gs, NEW copies, Placed(new, gs, copies), AllDistinct(gs), Distinct(copies)
    PROVE  AllDistinct(new)
<1>1. PICK k, p : PlacedAt(new, gs, copies, k, p)
  BY DEF Placed
<1>2. Distinct(new[k].threads)
  BY <1>1 DEF PlacedAt
<1>3. \A x \in DOMAIN new \ {k} : p[x] \in DOMAIN gs /\ new[x].threads = gs[p[x]].threads
  BY <1>1 DEF PlacedAt
<1> QED
  BY <1>2, <1>3 DEF AllDistinct

LEMMA NextCall ==
    ASSUME NEW list \in Seq(AskedFor), list # <<>>
    PROVE  /\ Head(list) \in AskedFor /\ Tail(list) \in Seq(AskedFor)
           /\ {list[i].thread : i \in DOMAIN list} =
                 {Head(list).thread} \cup {Tail(list)[i].thread : i \in DOMAIN Tail(list)}
<1> PICK rest : rest = Tail(list)
  OBVIOUS
<1>1. /\ Len(list) \in Nat /\ DOMAIN list = 1 .. Len(list) /\ Len(list) >= 1
      /\ rest \in Seq(AskedFor) /\ Len(rest) = Len(list) - 1 /\ DOMAIN rest = 1 .. (Len(list) - 1)
      /\ \A n \in 1 .. (Len(list) - 1) : rest[n] = list[n + 1]
      /\ Head(list) = list[1] /\ Head(list) \in AskedFor
  OBVIOUS
<1>2. /\ 1 \in DOMAIN list
      /\ \A n \in DOMAIN list : n = 1 \/ (n - 1 \in DOMAIN rest /\ rest[n - 1] = list[n])
      /\ \A n \in DOMAIN rest : n + 1 \in DOMAIN list /\ rest[n] = list[n + 1]
  BY ONLY <1>1
<1>3. {list[i].thread : i \in DOMAIN list} = {Head(list).thread} \cup {rest[i].thread : i \in DOMAIN rest}
  <2>1. ASSUME NEW n \in DOMAIN list
        PROVE  list[n].thread \in {Head(list).thread} \cup {rest[i].thread : i \in DOMAIN rest}
    BY <1>1, <1>2
  <2>2. ASSUME NEW n \in DOMAIN rest
        PROVE  rest[n].thread \in {list[i].thread : i \in DOMAIN list}
    BY <1>2
  <2>3. Head(list).thread \in {list[i].thread : i \in DOMAIN list}
    BY <1>1, <1>2
  <2> QED
    BY <2>1, <2>2, <2>3
<1> QED
  BY <1>1, <1>3

LEMMA SignalItems ==
    ASSUME NEW message \in Messages
    PROVE  /\ message.signal \in SignalNames => message.items \in Seq(Threads)
           /\ message.signal = "participantsChanged" => message.items[1] \in Changes
<1>1. CASE message \in [signal : SignalNames, items : Seq(Threads)]
  BY <1>1 DEF SignalNames
<1>2. CASE message \in [signal : Bus, items : {<<>>}]
  BY <1>2 DEF SignalNames, Bus
<1>3. CASE \E change \in Changes : message = [signal |-> "participantsChanged", items |-> <<change>>]
  BY <1>3 DEF SignalNames
<1> QED
  BY <1>1, <1>2, <1>3 DEF Messages

\* What processThreadGrouping does of the thread t.
Processes(t) ==
    /\ t \in Threads /\ view.connected
    /\ calls' \in Seq(AskedFor) /\ Asked = {t} \cup Asked'
    /\ RowsOK(groups') /\ AllDistinct(groups')
    /\ \/ /\ daemon = "up" /\ t \in Stored
          /\ \E copies : /\ Answered(copies, t) /\ Placed(groups', groups, copies)
                         /\ \A copy \in CopiesAmong(copies) : copy.people = {}
          /\ Apart(groups) /\ InDescent(groups) => InDescent(groups')
       \/ /\ daemon = "up" => t \notin Stored
          /\ LeftWithout(groups', groups, t)
    /\ fetched' = fetched \cap OnModel(groups')

LEMMA ConversationIsSent ==
    ASSUME ServiceInv, NEW t \in Threads
    PROVE  \A copy \in CopiesAmong(Conversation(t)) : copy.people = {}
<1>1. Cache \in Caches
  BY DEF ServiceInv, IInv, Kept
<1> PICK copies : copies = IF keys[t] = NoKey THEN <<>> ELSE At(Cache, keys[t])
  OBVIOUS
<1>2. copies \in Seq(Copy)
  <2>1. <<>> \in Seq(Copy)
    OBVIOUS
  <2>2. keys[t] # NoKey => keys[t] \in Threads
    BY <1>1, CacheTypes DEF Cache
  <2> QED
    BY <1>1, <2>1, <2>2, CacheTypes
<1>3. Conversation(t) = Sent(copies)
  BY DEF Conversation
<1> QED
  BY <1>2, <1>3, SentIs

LEMMA GroupingIsProcessed ==
    ASSUME TInv, ProcessThreadGrouping
    PROVE  \E t : Processes(t)
<1> PICK call : call = Head(calls)
  OBVIOUS
<1> PICK t, related : t = call.thread /\ related = call.related
  OBVIOUS
<1>1. /\ calls # <<>> /\ calls' = Tail(calls) /\ calls \in Seq(AskedFor) /\ view.connected
      /\ RowsOK(groups) /\ AllDistinct(groups) /\ ServiceInv
  BY DEF ProcessThreadGrouping, TInv, ModelInv, AllDistinct
<1>2. call \in AskedFor /\ calls' \in Seq(AskedFor) /\ Asked = {t} \cup Asked'
  <2>1. /\ Head(calls) \in AskedFor /\ Tail(calls) \in Seq(AskedFor)
        /\ {calls[i].thread : i \in DOMAIN calls} =
              {Head(calls).thread} \cup {Tail(calls)[i].thread : i \in DOMAIN Tail(calls)}
    BY ONLY <1>1, NextCall
  <2> QED
    BY <1>1, <2>1 DEF Asked
<1>3. t \in Threads /\ t \in related
  BY <1>2 DEF AskedFor
<1>4. CASE /\ daemon = "up" /\ Conversation(t) # <<>>
           /\ Show(Place(groups, t, Conversation(t)))
  <2>1. Ready /\ t \in Stored /\ Answered(Conversation(t), t)
        /\ \A copy \in CopiesAmong(Conversation(t)) : copy.people = {}
    BY <1>1, <1>3, <1>4, AnswerTells, AnswerIs, ConversationIsSent DEF ServiceInv
  <2> PICK copies : copies = Conversation(t)
    OBVIOUS
  <2>2. copies \in Seq(Copies) /\ t \in ThreadsIn(copies) /\ Distinct(copies)
    BY <2>1 DEF Answered
  <2>3. groups' = Place(groups, t, copies) /\ fetched' = fetched \cap OnModel(groups')
    BY <1>4 DEF Show
  <2>4. /\ RowsOK(groups') /\ Placed(groups', groups, copies)
        /\ Apart(groups) /\ InDescent(groups) => InDescent(groups')
    BY ONLY <1>1, <2>2, <2>3, PlaceDoes
  <2>5. AllDistinct(groups')
    BY ONLY <1>1, <2>2, <2>4, PlacedKeepsDistinct
  <2>6. Processes(t)
    BY <1>1, <1>2, <1>3, <1>4, <2>1, <2>3, <2>4, <2>5 DEF Processes
  <2> QED
    BY <2>6
<1>5. CASE /\ daemon # "up" \/ Conversation(t) = <<>>
           /\ Show(RemoveFromGroup(groups, t, related))
  <2>1. groups' = RemoveFromGroup(groups, t, related) /\ fetched' = fetched \cap OnModel(groups')
    BY <1>5 DEF Show
  <2>2. LeftWithout(groups', groups, t)
    BY ONLY <1>1, <1>3, <2>1, RemoveFromGroupDoes
  <2>3. RowsOK(groups') /\ AllDistinct(groups')
    BY <1>1, <2>2, LessKeepsDistinct DEF LeftWithout
  <2>4. daemon = "up" => t \notin Stored
    BY <1>1, <1>3, <1>5, AnswerTells DEF ServiceInv
  <2>5. Processes(t)
    BY <1>1, <1>2, <1>3, <2>1, <2>2, <2>3, <2>4 DEF Processes
  <2> QED
    BY <2>5
<1> QED
  BY <1>4, <1>5 DEF ProcessThreadGrouping

\* The rows have lost the threads ts.
RowsLeave(ts) ==
    /\ RowsOK(groups') /\ AllDistinct(groups')
    /\ Less(groups', groups, ts)
    /\ \A t \in ts : OneRow(groups, t) => t \notin OnModel(groups')
    /\ Apart(groups) /\ InDescent(groups) => InDescent(groups')
    /\ fetched' = fetched \cap OnModel(groups')

LEMMA RemovalIsHandled ==
    ASSUME TInv, OnThreadsRemoved
    PROVE  /\ Head(inbox).signal = "threadsRemoved" /\ Head(inbox).items \in Seq(Threads)
           /\ RowsLeave(Range(Head(inbox).items))
<1> PICK items : items = Head(inbox).items
  OBVIOUS
<1> PICK ts : ts = Range(items)
  OBVIOUS
<1>1. /\ inbox # <<>> /\ inbox \in Seq(Messages) /\ Head(inbox).signal = "threadsRemoved"
      /\ RowsOK(groups) /\ AllDistinct(groups)
      /\ ~view.connected => groups = <<>>
      /\ groups' = IF view.connected THEN RemoveEach(groups, items) ELSE groups
      /\ fetched' = fetched \cap OnModel(groups')
  BY DEF OnThreadsRemoved, Receive, Show, TInv, QueueInv, ModelInv, AllDistinct
<1>2. items \in Seq(Threads)
  <2>1. Head(inbox) \in Messages
    BY ONLY <1>1, NextMessage
  <2>2. "threadsRemoved" \in SignalNames
    BY DEF SignalNames
  <2> QED
    BY <1>1, <2>1, <2>2, SignalItems
<1>3. Len(items) \in Nat /\ ts = {items[k] : k \in 1 .. Len(items)}
  BY <1>2 DEF Range
<1>4. /\ RowsOK(groups') /\ Less(groups', groups, ts)
      /\ \A t \in ts : OneRow(groups, t) => t \notin OnModel(groups')
      /\ Apart(groups) /\ InDescent(groups) => InDescent(groups')
  <2>1. CASE view.connected
    <3>1. groups' = RemoveEach(groups, items)
      BY <1>1, <2>1
    <3> QED
      BY ONLY <1>1, <1>3, <3>1, RemoveEachDoes
  <2>2. CASE ~view.connected
    <3>1. groups' = groups /\ groups = <<>>
      BY <1>1, <2>2
    <3>2. OnModel(<<>>) = {}
      BY DEF OnModel
    <3>3. Less(groups, groups, ts)
      BY LessOfNothing
    <3> QED
      BY <1>1, <3>1, <3>2, <3>3
  <2> QED
    BY <2>1, <2>2
<1>5. AllDistinct(groups')
  BY <1>1, <1>4, LessKeepsDistinct
<1> QED
  BY <1>1, <1>2, <1>4, <1>5 DEF RowsLeave

\* A change of participants reaches the first row of its thread.
Peoples(change) ==
    \/ /\ Rows(groups, {change.thread}) = {} /\ groups' = groups /\ fetched' = fetched
    \/ \E i \in DOMAIN groups : \E mine \in CopiesAmong(groups[i].threads) :
          /\ mine.thread = change.thread
          /\ Peopled(groups', groups, i, mine, change)
          /\ fetched' = IF change.added = {} /\ change.removed = {}
                        THEN fetched \cup {change.thread} ELSE fetched

LEMMA ChangeIsHandled ==
    ASSUME TInv, OnThreadParticipantsChanged
    PROVE  /\ Head(inbox).signal = "participantsChanged" /\ Head(inbox).items[1] \in Changes
           /\ Peoples(Head(inbox).items[1])
<1> PICK change : change = Head(inbox).items[1]
  OBVIOUS
<1>1. /\ inbox # <<>> /\ inbox \in Seq(Messages) /\ Head(inbox).signal = "participantsChanged"
      /\ RowsOK(groups) /\ (~view.connected => groups = <<>>)
  BY DEF OnThreadParticipantsChanged, Receive, TInv, QueueInv, ModelInv
<1>2. change \in Changes
  <2>1. Head(inbox) \in Messages
    BY ONLY <1>1, NextMessage
  <2> QED
    BY <1>1, <2>1, SignalItems
<1>3. CASE view.connected /\ Rows(groups, {change.thread}) # {}
  <2> PICK i : i = First(Rows(groups, {change.thread}))
    OBVIOUS
  <2> PICK mine : mine = CHOOSE copy \in Range(groups[i].threads) : copy.thread = change.thread
    OBVIOUS
  <2>1. /\ groups' = [groups EXCEPT ![i] =
                         [shown |-> Changed(@.shown, change),
                          threads |-> Append(RemoveAll(groups[i].threads, change.thread),
                                             Changed(mine, change))]]
        /\ fetched' = IF change.added = {} /\ change.removed = {}
                      THEN fetched \cup {change.thread} ELSE fetched
    BY <1>3 DEF OnThreadParticipantsChanged
  <2>2. i \in DOMAIN groups /\ change.thread \in ThreadsIn(groups[i].threads)
    <3>1. Rows(groups, {change.thread}) \subseteq Nat
      BY <1>1, RowsAre DEF RowsOK, Rows
    <3>2. i \in Rows(groups, {change.thread})
      BY <1>3, <3>1, FirstOf
    <3> QED
      BY <3>2 DEF Rows
  <2>3. /\ mine \in CopiesAmong(groups[i].threads) /\ mine.thread = change.thread
        /\ Peopled(groups', groups, i, mine, change)
    <3>1. groups' = WithPeople(groups, i, mine, change)
      BY <2>1 DEF WithPeople
    <3>2. mine = CopyOf(change.thread, groups[i].threads)
      BY DEF CopyOf
    <3>3. RowsOK(groups)
      BY ONLY <1>1
    <3> QED
      BY ONLY <1>2, <2>2, <3>1, <3>2, <3>3, RowIsPeopled
  <2> QED
    BY <1>1, <1>2, <2>1, <2>2, <2>3 DEF Peoples
<1>4. CASE ~(view.connected /\ Rows(groups, {change.thread}) # {})
  <2>1. groups' = groups /\ fetched' = fetched
    BY <1>4 DEF OnThreadParticipantsChanged
  <2>2. Rows(<<>>, {change.thread}) = {}
    BY DEF Rows
  <2> QED
    BY <1>1, <1>2, <1>4, <2>1, <2>2 DEF Peoples
<1> QED
  BY <1>3, <1>4

\* The threads of a signal are asked for.
LEMMA ChangesAreHandled ==
    ASSUME TInv, OnThreadsChanged
    PROVE  /\ Head(inbox).signal \in {"threadsAdded", "threadsModified"}
           /\ Head(inbox).items \in Seq(Threads)
           /\ calls = <<>> /\ ~paging /\ calls' \in Seq(AskedFor)
           /\ Asked' = IF view.connected THEN Range(Head(inbox).items) ELSE {}
           /\ ~view.connected => calls' = <<>>
<1> PICK items : items = Head(inbox).items
  OBVIOUS
<1>1. /\ inbox # <<>> /\ inbox \in Seq(Messages) /\ Idle
      /\ Head(inbox).signal \in {"threadsAdded", "threadsModified"}
      /\ calls' = IF view.connected
                  THEN [i \in DOMAIN items |-> [thread |-> items[i], related |-> {items[i]}]]
                  ELSE <<>>
  BY DEF OnThreadsChanged, Receive, TInv, QueueInv
<1>2. items \in Seq(Threads)
  <2>1. Head(inbox) \in Messages
    BY ONLY <1>1, NextMessage
  <2>2. {"threadsAdded", "threadsModified"} \subseteq SignalNames
    BY DEF SignalNames
  <2> QED
    BY <1>1, <2>1, <2>2, SignalItems
<1>3. CASE view.connected
  <2>1. calls' = [i \in DOMAIN items |-> [thread |-> items[i], related |-> {items[i]}]]
    BY <1>1, <1>3
  <2>2. calls' \in Seq(AskedFor) /\ {calls'[i].thread : i \in DOMAIN calls'} = Range(items)
    BY ONLY <1>2, <2>1, CallsFor
  <2> QED
    BY <1>1, <1>2, <1>3, <2>2 DEF Idle, Asked
<1>4. CASE ~view.connected
  <2>1. calls' = <<>> /\ <<>> \in Seq(AskedFor)
    BY <1>1, <1>4
  <2>2. Asked' = {}
    BY <2>1 DEF Asked
  <2> QED
    BY <1>1, <1>2, <1>4, <2>1, <2>2 DEF Idle
<1> QED
  BY <1>3, <1>4

\* A page of threads is asked for, or there is no view any longer.
LEMMA PageIsHandled ==
    ASSUME TInv, NextPage
    PROVE  \/ /\ view.connected
              /\ view' \in Views /\ view'.connected = view.connected /\ view'.valid = view.valid
              /\ calls' \in Seq(AskedFor) /\ update' = update /\ more' \in BOOLEAN
              /\ \A k \in Range(view.rest) :
                     conversations[k] # NoConversation => k \in Asked' \cup Range(view'.rest)
           \/ /\ view' \in Views /\ view'.connected = view.connected /\ ~view'.valid
              /\ calls' = calls /\ calls = <<>> /\ view'.rest = view.rest
              /\ update' \in BOOLEAN /\ (view.connected /\ ~update' => ~update /\ ~view.valid)
              /\ more' \in BOOLEAN
<1>1. /\ view \in Views /\ (view.valid => view.connected) /\ calls = <<>>
      /\ ServiceInv /\ update \in BOOLEAN
  BY DEF NextPage, TInv, ModelInv
<1>2. CASE view.valid /\ view.alive
  <2> PICK rest : rest = view.rest
    OBVIOUS
  <2> PICK page : page = Page(rest)
    OBVIOUS
  <2> PICK later : later = SubSeq(rest, PageSize + 1, Len(rest))
    OBVIOUS
  <2>1. rest \in Seq(Threads)
    BY <1>1 DEF Views
  <2>0. Paged(rest, page, later)
    BY <2>1, PageIs
  <2>2. /\ page \in Seq(Threads) /\ later \in Seq(Threads)
        /\ \A n \in DOMAIN page : conversations[page[n]] # NoConversation
        /\ \A k \in Range(rest) :
              conversations[k] # NoConversation => k \in Range(page) \cup Range(later)
    BY ONLY <2>0 DEF Paged
  <2>3. /\ view' = [view EXCEPT !.rest = later]
        /\ calls' = [i \in DOMAIN page |->
                        [thread |-> page[i], related |-> ThreadsIn(conversations[page[i]])]]
        /\ more' = (page # <<>>) /\ update' = update
    BY <1>2, page = Page(rest), later = SubSeq(rest, PageSize + 1, Len(rest)) DEF NextPage
  <2>4. view' \in Views /\ view'.rest = later /\ view'.connected = view.connected /\ view'.valid = view.valid
    BY <1>1, <2>2, <2>3 DEF Views
  <2>5. ASSUME NEW i \in DOMAIN page
        PROVE  /\ page[i] \in ThreadsIn(conversations[page[i]])
               /\ ThreadsIn(conversations[page[i]]) \subseteq Threads
    <3>1. page[i] \in Threads /\ Has(Cache, page[i]) /\ Kept(Cache)
      BY <1>1, <2>2 DEF Has, Cache, ServiceInv, IInv
    <3> PICK k : k = page[i]
      OBVIOUS
    <3>2. k \in ThreadsIn(Cache.conversations[k]) /\ ThreadsIn(Cache.conversations[k]) \subseteq Threads
      BY <3>1, CacheFacts
    <3> QED
      BY <3>2 DEF Cache
  <2>6. calls' \in Seq(AskedFor) /\ {calls'[i].thread : i \in DOMAIN calls'} = Range(page)
    BY ONLY <2>2, <2>3, <2>5, CallsFor
  <2>7. Asked' = Range(page)
    BY <2>6 DEF Asked
  <2> QED
    BY <1>1, <1>2, <2>2, <2>3, <2>4, <2>6, <2>7
<1>3. CASE ~(view.valid /\ view.alive)
  <2>1. /\ view' = [view EXCEPT !.valid = FALSE] /\ more' = FALSE
        /\ update' = (update \/ view.valid) /\ calls' = calls
    BY <1>3 DEF NextPage
  <2>2. view' \in Views /\ view'.connected = view.connected /\ ~view'.valid /\ view'.rest = view.rest
        /\ view.valid \in BOOLEAN
    BY <1>1, <2>1 DEF Views
  <2> QED
    BY <1>1, <2>1, <2>2
<1> QED
  BY <1>2, <1>3

LEMMA SameModel ==
    ASSUME UNCHANGED model
    PROVE  (ModelInv => ModelInv') /\ Asked' = Asked
  BY DEF model, ModelInv, Asked

LEMMA NoRows ==
    RowsOK(<<>>) /\ AllDistinct(<<>>) /\ OnModel(<<>>) = {} /\ <<>> \in Seq(AskedFor)
<1>1. RowsOK(<<>>)
  BY DEF RowsOK
<1> QED
  BY <1>1 DEF AllDistinct, OnModel

LEMMA NoViewIs == NoView \in Views /\ ~NoView.connected /\ ~NoView.valid /\ NoView.rest = <<>>
  BY DEF NoView, Views

LEMMA ModelInitially == GroupedInit => ModelInv
<1> SUFFICES ASSUME GroupedInit PROVE ModelInv
  OBVIOUS
<1>1. /\ running = FALSE /\ view = NoView /\ groups = <<>> /\ more = TRUE /\ update = TRUE
      /\ paging = FALSE /\ calls = <<>> /\ fetched = {}
  BY DEF GroupedInit
<1>2. RowsOK(groups) /\ AllDistinct(groups) /\ calls \in Seq(AskedFor) /\ view \in Views
  BY <1>1, NoRows, NoViewIs
<1>3. {running, more, update, paging} \subseteq BOOLEAN /\ ~view.valid
  BY <1>1, NoViewIs
<1> QED
  BY <1>1, <1>2, <1>3 DEF ModelInv, AllDistinct

\* A new query: an empty model, and a view of all threads or none.
LEMMA QueryIsMade ==
    ASSUME ModelInv, UpdateQuery
    PROVE  /\ groups' = <<>> /\ calls' = <<>> /\ calls = <<>> /\ ~paging /\ ~update' /\ fetched' = {}
           /\ view' \in Views /\ (view'.valid => view'.connected)
           /\ more' \in BOOLEAN /\ paging' \in BOOLEAN
           /\ view'.connected => daemon = "up" /\ Range(view'.rest) = Stored
<1>1. /\ calls = <<>> /\ calls' = calls /\ ~paging /\ groups' = <<>> /\ ~update'
      /\ fetched' = fetched \cap OnModel(<<>>)
  BY DEF UpdateQuery, Idle, Show
<1>2. CASE /\ running /\ daemon = "up"
           /\ \E snapshot \in Snapshots :
                 view' = [connected |-> TRUE, valid |-> TRUE, alive |-> TRUE, rest |-> snapshot]
           /\ more' = TRUE
           /\ paging' = TRUE
  <2>1. PICK snapshot \in Snapshots :
               view' = [connected |-> TRUE, valid |-> TRUE, alive |-> TRUE, rest |-> snapshot]
    BY <1>2
  <2>2. snapshot \in Seq(Stored) /\ Range(snapshot) = Stored
    BY SnapshotHasAll
  <2>3. Stored \subseteq Threads
    BY DEF Stored
  <2>4. snapshot \in Seq(Threads)
    BY <2>2, <2>3
  <2>5. view' \in Views
    BY <2>1, <2>4 DEF Views
  <2> QED
    BY <1>1, <1>2, <2>1, <2>2, <2>5, NoRows
<1>3. CASE view' = NoView /\ more' = FALSE /\ paging' = paging
  <2>1. fetched' = {} /\ paging' \in BOOLEAN /\ more' \in BOOLEAN
    BY <1>1, <1>3, NoRows DEF ModelInv
  <2>2. view' \in Views /\ ~view'.connected /\ ~view'.valid
    BY <1>3, NoViewIs
  <2> QED
    BY <1>1, <2>1, <2>2
<1> QED
  BY <1>2, <1>3 DEF UpdateQuery

LEMMA ModelKeeps ==
    ASSUME TInv, GroupedNext
    PROVE  ModelInv'
<1>0. /\ ModelInv /\ view \in Views /\ RowsOK(groups) /\ AllDistinct(groups)
      /\ calls \in Seq(AskedFor) /\ (paging => calls = <<>>)
      /\ (view.valid => view.connected)
      /\ (~view.connected => groups = <<>> /\ calls = <<>>)
      /\ {running, more, update, paging} \subseteq BOOLEAN
      /\ fetched \subseteq Rooms \cap OnModel(groups)
  BY DEF TInv, ModelInv, AllDistinct
<1>1. ASSUME UNCHANGED model PROVE ModelInv'
  BY <1>0, <1>1, SameModel
<1>2. CASE \E t \in Threads : \/ \E time \in Stamps : Create(t, time) \/ Update(t, time)
                              \/ Delete(t) \/ Load(t)
  BY <1>1, <1>2 DEF Create, Update, Delete, Load, Works
<1>3. CASE \E t \in Rooms : \/ \E m \in Members : JoinRoom(t, m) \/ LeaveRoom(t, m)
                            \/ RequestParticipants(t)
  BY <1>1, <1>3 DEF JoinRoom, LeaveRoom, RequestParticipants, Works
<1>4. CASE AnswerParticipants \/ Start \/ Register \/ SendSignals
  BY <1>1, <1>4 DEF AnswerParticipants, Start, Register, SendSignals
<1>5. CASE Kill
  <2>1. /\ view' = [view EXCEPT !.alive = FALSE]
        /\ UNCHANGED <<running, groups, more, update, paging, calls, fetched>>
    BY <1>5 DEF Kill
  <2>2. view' \in Views /\ view'.valid = view.valid /\ view'.connected = view.connected
    BY <1>0, <2>1 DEF Views
  <2> QED
    BY <1>0, <2>1, <2>2 DEF ModelInv
<1>6. CASE UpdateQuery
  <2>1. running' = running
    BY <1>6 DEF UpdateQuery
  <2>2. /\ groups' = <<>> /\ calls' = <<>> /\ ~update' /\ fetched' = {}
        /\ view' \in Views /\ (view'.valid => view'.connected)
        /\ more' \in BOOLEAN /\ paging' \in BOOLEAN
    BY <1>0, <1>6, QueryIsMade
  <2>3. update' \in BOOLEAN
    BY <1>6 DEF UpdateQuery
  <2> QED
    BY <1>0, <2>1, <2>2, <2>3, NoRows DEF ModelInv, AllDistinct
<1>7. CASE FetchMore
  <2>1. calls = <<>> /\ paging' = TRUE /\ UNCHANGED <<running, view, groups, more, update, calls, fetched>>
    BY <1>7 DEF FetchMore, Idle
  <2> QED
    BY <1>0, <2>1 DEF ModelInv
<1>8. CASE NextPage
  <2>1. ~paging' /\ paging' \in BOOLEAN /\ UNCHANGED <<running, groups, fetched>>
    BY <1>8 DEF NextPage
  <2>2. /\ view' \in Views /\ view'.connected = view.connected /\ (view'.valid => view.valid)
        /\ calls' \in Seq(AskedFor) /\ {more', update'} \subseteq BOOLEAN
        /\ view.connected \/ calls' = calls
    BY <1>0, <1>8, PageIsHandled
  <2> QED
    BY <1>0, <2>1, <2>2 DEF ModelInv
<1>9. CASE ProcessThreadGrouping
  <2>1. PICK t : Processes(t)
    BY <1>9, GroupingIsProcessed
  <2>2. UNCHANGED <<running, view, more, update, paging>> /\ calls # <<>>
    BY <1>9 DEF ProcessThreadGrouping
  <2>3. /\ view.connected /\ RowsOK(groups') /\ AllDistinct(groups') /\ calls' \in Seq(AskedFor)
        /\ fetched' = fetched \cap OnModel(groups')
    BY <2>1 DEF Processes
  <2> QED
    BY <1>0, <2>2, <2>3 DEF ModelInv, AllDistinct
<1>10. CASE ChangeQuery
  BY <1>0, <1>10 DEF ChangeQuery, ModelInv
<1>11. CASE OnThreadsChanged
  <2>1. UNCHANGED <<running, view, groups, more, update, paging, fetched>>
    BY <1>11 DEF OnThreadsChanged, Receive
  <2>2. calls' \in Seq(AskedFor) /\ ~paging /\ (~view.connected => calls' = <<>>)
    BY <1>11, ChangesAreHandled
  <2> QED
    BY <1>0, <2>1, <2>2 DEF ModelInv
<1>12. CASE OnThreadsRemoved
  <2>1. UNCHANGED <<running, view, more, update, paging, calls>>
    BY <1>12 DEF OnThreadsRemoved, Receive
  <2>2. /\ RowsOK(groups') /\ AllDistinct(groups') /\ fetched' = fetched \cap OnModel(groups')
    BY <1>12, RemovalIsHandled DEF RowsLeave
  <2>3. ~view.connected => groups' = <<>>
    BY <1>0, <1>12 DEF OnThreadsRemoved, Show
  <2> QED
    BY <1>0, <2>1, <2>2, <2>3 DEF ModelInv, AllDistinct
<1>13. CASE OnThreadParticipantsChanged
  <2>1. UNCHANGED <<running, view, more, update, paging, calls>>
    BY <1>13 DEF OnThreadParticipantsChanged, Receive
  <2>2. PICK change : change \in Changes /\ Peoples(change)
    BY <1>13, ChangeIsHandled
  <2>3. /\ RowsOK(groups') /\ AllDistinct(groups') /\ (groups = <<>> => groups' = <<>>)
        /\ fetched' \subseteq Rooms \cap OnModel(groups')
    <3>1. CASE groups' = groups /\ fetched' = fetched
      BY <1>0, <3>1
    <3>2. CASE \E i \in DOMAIN groups : \E mine \in CopiesAmong(groups[i].threads) :
                  /\ mine.thread = change.thread
                  /\ Peopled(groups', groups, i, mine, change)
                  /\ fetched' = IF change.added = {} /\ change.removed = {}
                                THEN fetched \cup {change.thread} ELSE fetched
      <4>1. PICK i \in DOMAIN groups : \E mine \in CopiesAmong(groups[i].threads) :
                  /\ mine.thread = change.thread
                  /\ Peopled(groups', groups, i, mine, change)
                  /\ fetched' \subseteq fetched \cup {change.thread}
        BY <3>2
      <4>2. PICK mine \in CopiesAmong(groups[i].threads) :
                  /\ mine.thread = change.thread
                  /\ Peopled(groups', groups, i, mine, change)
                  /\ fetched' \subseteq fetched \cup {change.thread}
        BY <4>1
      <4>3. /\ RowsOK(groups') /\ DOMAIN groups' = DOMAIN groups
            /\ \A x \in DOMAIN groups \ {i} : groups'[x] = groups[x]
            /\ ThreadsIn(groups'[i].threads) = ThreadsIn(groups[i].threads)
            /\ Distinct(groups[i].threads) => Distinct(groups'[i].threads)
        BY <4>2 DEF Peopled
      <4>4. AllDistinct(groups')
        BY <1>0, <4>3 DEF AllDistinct
      <4>5. OnModel(groups') = OnModel(groups)
        <5>1. \A x \in DOMAIN groups : ThreadsIn(groups'[x].threads) = ThreadsIn(groups[x].threads)
          BY <4>3
        <5> QED
          BY ONLY <4>3, <5>1 DEF OnModel
      <4>6. change.thread \in OnModel(groups) /\ change.thread \in Rooms
        BY <2>2, <4>2, ThreadsOfCopies DEF OnModel, Changes
      <4>7. groups # <<>>
        OBVIOUS
      <4> QED
        BY <1>0, <4>2, <4>3, <4>4, <4>5, <4>6, <4>7
    <3> QED
      BY <2>2, <3>1, <3>2 DEF Peoples
  <2> QED
    BY <1>0, <2>1, <2>3 DEF ModelInv, AllDistinct
<1>14. CASE OnServiceRunningChanged
  <2>1. UNCHANGED <<view, groups, more, paging, calls, fetched>> /\ running' \in BOOLEAN /\ update' = TRUE
    BY <1>14 DEF OnServiceRunningChanged, Receive
  <2> QED
    BY <1>0, <2>1 DEF ModelInv
<1> QED
  BY <1>2, <1>3, <1>4, <1>5, <1>6, <1>7, <1>8, <1>9, <1>10, <1>11, <1>12, <1>13, <1>14 DEF GroupedNext

LEMMA NothingMoves ==
    ASSUME TInv, UNCHANGED groupedVars
    PROVE  TInv'
<1>1. UNCHANGED service /\ UNCHANGED model
      /\ UNCHANGED <<pending, inbox, operations, requests, returned, skipped>>
  BY DEF groupedVars, signalQueue
<1>2. ServiceInv'
  BY <1>1, SameService DEF TInv
<1>3. ModelInv'
  BY <1>1, SameModel DEF TInv
<1>4. QueueInv'
  BY <1>1 DEF QueueInv, TInv
<1> QED
  BY <1>2, <1>3, <1>4 DEF TInv

\* Types, the service's and the messages', and that a row is never without
\* threads, has each of them once and shows one of them, whatever
\* processThreadGrouping and removeThreadFromGroup were answered.
THEOREM GroupedTypeInvariant == GroupedSpec => []TInv
<1>1. GroupedInit => TInv
  BY ServiceInitially, QueueInitially, ModelInitially DEF TInv
<1>2. TInv /\ [GroupedNext]_groupedVars => TInv'
  BY ServiceKeeps, QueueKeeps, ModelKeeps, NothingMoves DEF TInv
<1> QED
  BY <1>1, <1>2, PTL DEF GroupedSpec

LEMMA TypesOfGroups == TInv => GroupedTypeOK
<1> SUFFICES ASSUME TInv PROVE GroupedTypeOK
  OBVIOUS
<1>1. TypeOK
  <2>1. IInv
    BY DEF TInv, ServiceInv
  <2>2. /\ conversations \in [Threads -> Seq(Copy) \cup {NoConversation}]
        /\ keys \in [Threads -> Threads \cup {NoKey}]
    BY <2>1 DEF IInv, Kept, Caches, Cache
  <2> QED
    BY <2>1, <2>2 DEF IInv, HistoryTypes, TypeOK, Stored
<1>2. /\ members \in [Rooms -> SUBSET Members] /\ daemon \in {"up", "down", "starting"}
      /\ operations \in 0 .. MaxOperations /\ requests \in Seq(Rooms)
      /\ returned \subseteq Threads /\ skipped \subseteq Threads
  BY DEF TInv, ServiceInv, QueueInv
<1>3. view.rest \in Seq(Threads) /\ {running, more, update, paging} \subseteq BOOLEAN
      /\ fetched \subseteq Rooms
  BY DEF TInv, ModelInv, Views
<1>4. /\ groups \in Seq([shown : Copies, threads : Seq(Copies) \ {<<>>}])
      /\ \A i \in DOMAIN groups : groups[i].shown.thread \in ThreadsIn(groups[i].threads)
  BY DEF TInv, ModelInv, RowsOK, RowType
<1> QED
  BY <1>1, <1>2, <1>3, <1>4 DEF GroupedTypeOK

-----------------------------------------------------------------------------
(* Lists of participants. Who is a member and not in the list the plugin   *)
(* found (where an entry names the account) joined after it was made: a    *)
(* message says so, or one has, and no later one takes it back.            *)

About(message, t) == message.signal = "participantsChanged" /\ message.items[1].thread = t
Joins(message, t, m) == About(message, t) /\ <<m, FALSE>> \in message.items[1].added
Leaves(message, t, m) == About(message, t) /\ <<m, FALSE>> \in message.items[1].removed
IsAnswer(message) ==
    /\ message.signal = "participantsChanged"
    /\ message.items[1].added = {} /\ message.items[1].removed = {}

\* A message after position p says that m joined, and none after it that m left.
JoinKept(queue, t, m, p) ==
    \E j \in DOMAIN queue : /\ j > p /\ Joins(queue[j], t, m)
                            /\ \A k \in DOMAIN queue : k > j => ~Leaves(queue[k], t, m)
NoLeave(queue, t, m) == \A k \in DOMAIN queue : ~Leaves(queue[k], t, m)

Known(queue, people, t, m) ==
    \/ <<m, TRUE>> \in people
    \/ JoinKept(queue, t, m, 0)
    \/ <<m, FALSE>> \in people /\ NoLeave(queue, t, m)

Listed(gs, rooms, queue, who) ==
    \A t \in rooms : \A i \in DOMAIN gs : \A copy \in CopiesAmong(gs[i].threads) :
        copy.thread = t => \A m \in who[t] : Known(queue, copy.people, t, m)

Answers(queue, who) ==
    \A p \in DOMAIN queue : IsAnswer(queue[p]) =>
        \A m \in who[queue[p].items[1].thread] :
            \/ <<m, TRUE>> \in queue[p].items[1].modified
            \/ JoinKept(queue, queue[p].items[1].thread, m, p)

FInv ==
    /\ \A t \in Rooms : OneRow(groups, t)
    /\ Listed(groups, fetched, inbox, members)
    /\ Answers(inbox, members)

\* A queue with more messages.
Longer(longer, queue) ==
    /\ DOMAIN queue \subseteq DOMAIN longer
    /\ \A n \in DOMAIN queue : longer[n] = queue[n]
NoneLeaves(longer, queue, t, m) == \A n \in DOMAIN longer \ DOMAIN queue : ~Leaves(longer[n], t, m)

LEMMA JoinsAreKept ==
    ASSUME NEW longer, NEW queue, Longer(longer, queue), NEW t, NEW m, NoneLeaves(longer, queue, t, m)
    PROVE  /\ \A p : JoinKept(queue, t, m, p) => JoinKept(longer, t, m, p)
           /\ NoLeave(queue, t, m) => NoLeave(longer, t, m)
<1>1. /\ \A n \in DOMAIN queue : n \in DOMAIN longer /\ longer[n] = queue[n]
      /\ \A n \in DOMAIN longer : n \in DOMAIN queue \/ ~Leaves(longer[n], t, m)
  BY DEF Longer, NoneLeaves
<1>2. ASSUME NEW p, JoinKept(queue, t, m, p) PROVE JoinKept(longer, t, m, p)
  <2>1. PICK j \in DOMAIN queue : /\ j > p /\ Joins(queue[j], t, m)
                                  /\ \A k \in DOMAIN queue : k > j => ~Leaves(queue[k], t, m)
    BY <1>2 DEF JoinKept
  <2>2. j \in DOMAIN longer /\ Joins(longer[j], t, m)
    BY <1>1, <2>1
  <2>3. \A k \in DOMAIN longer : k > j => ~Leaves(longer[k], t, m)
    BY <1>1, <2>1
  <2> QED
    BY <2>1, <2>2, <2>3 DEF JoinKept
<1>3. NoLeave(queue, t, m) => NoLeave(longer, t, m)
  BY <1>1 DEF NoLeave
<1> QED
  BY <1>2, <1>3

\* A member that was one before and does not leave, or who joins now.
StaysOrJoins(longer, queue, who, t, m) ==
    \/ m \in who[t] /\ NoneLeaves(longer, queue, t, m)
    \/ \A p \in DOMAIN queue \cup {0} : JoinKept(longer, t, m, p)

LEMMA ListsOutliveMessages ==
    ASSUME NEW queue \in Seq(Messages), NEW longer, Longer(longer, queue), NEW who, NEW now,
           \A t \in Rooms : \A m \in now[t] : StaysOrJoins(longer, queue, who, t, m),
           \A p \in DOMAIN longer \ DOMAIN queue : IsAnswer(longer[p]) =>
               \A m \in now[longer[p].items[1].thread] : <<m, TRUE>> \in longer[p].items[1].modified
    PROVE  /\ \A gs, rooms : (rooms \subseteq Rooms /\ Listed(gs, rooms, queue, who))
                             => Listed(gs, rooms, longer, now)
           /\ Answers(queue, who) => Answers(longer, now)
<1>1. ASSUME NEW t \in Rooms, NEW m \in now[t], NEW people, m \in who[t] => Known(queue, people, t, m)
      PROVE  Known(longer, people, t, m)
  <2>1. CASE m \in who[t] /\ NoneLeaves(longer, queue, t, m)
    BY <1>1, <2>1, JoinsAreKept DEF Known
  <2>2. CASE \A p \in DOMAIN queue \cup {0} : JoinKept(longer, t, m, p)
    BY <2>2 DEF Known
  <2> QED
    BY <2>1, <2>2 DEF StaysOrJoins
<1>2. ASSUME NEW gs, NEW rooms, rooms \subseteq Rooms, Listed(gs, rooms, queue, who)
      PROVE  Listed(gs, rooms, longer, now)
  <2>1. ASSUME NEW t \in rooms, NEW i \in DOMAIN gs, NEW copy \in CopiesAmong(gs[i].threads),
               copy.thread = t, NEW m \in now[t]
        PROVE  Known(longer, copy.people, t, m)
    <3>1. m \in who[t] => Known(queue, copy.people, t, m)
      BY <1>2, <2>1 DEF Listed
    <3>2. t \in Rooms
      BY <1>2
    <3> QED
      BY <1>1, <3>1, <3>2
  <2> QED
    BY <2>1 DEF Listed
<1>3. ASSUME Answers(queue, who), NEW p \in DOMAIN longer, IsAnswer(longer[p]),
             NEW t, t = longer[p].items[1].thread, NEW m \in now[t]
      PROVE  <<m, TRUE>> \in longer[p].items[1].modified \/ JoinKept(longer, t, m, p)
  <2>1. CASE p \notin DOMAIN queue
    BY <1>3, <2>1
  <2>2. CASE p \in DOMAIN queue
    <3>1. longer[p] = queue[p] /\ queue[p] \in Messages
      BY <2>2 DEF Longer
    <3>2. queue[p].items[1] \in Changes
      BY <1>3, <3>1, SignalItems DEF IsAnswer
    <3>3. t \in Rooms
      BY <1>3, <3>1, <3>2 DEF Changes
    <3>4. StaysOrJoins(longer, queue, who, t, m)
      BY <1>3, <3>3
    <3>5. m \in who[t] => <<m, TRUE>> \in queue[p].items[1].modified \/ JoinKept(queue, t, m, p)
      BY <1>3, <2>2, <3>1 DEF Answers
    <3>6. CASE m \in who[t] /\ NoneLeaves(longer, queue, t, m)
      BY <3>1, <3>5, <3>6, JoinsAreKept
    <3>7. CASE \A n \in DOMAIN queue \cup {0} : JoinKept(longer, t, m, n)
      BY <2>2, <3>7
    <3> QED
      BY <3>4, <3>6, <3>7 DEF StaysOrJoins
  <2> QED
    BY <2>1, <2>2
<1>4. Answers(queue, who) => Answers(longer, now)
  BY <1>3 DEF Answers
<1> QED
  BY <1>2, <1>4

\* The next message is received.
LEMMA ListsAfterMessage ==
    ASSUME NEW queue \in Seq(Messages), queue # <<>>, NEW rest, rest = Tail(queue),
           NEW next, next = Head(queue)
    PROVE  /\ \A t, m : NoLeave(queue, t, m) => NoLeave(rest, t, m) /\ ~Leaves(next, t, m)
           /\ \A t, m : JoinKept(queue, t, m, 0) =>
                  (Joins(next, t, m) /\ NoLeave(rest, t, m)) \/ JoinKept(rest, t, m, 0)
           /\ \A who : Answers(queue, who) => Answers(rest, who)
           /\ \A who : Answers(queue, who) /\ IsAnswer(next) =>
                  \A m \in who[next.items[1].thread] :
                      \/ <<m, TRUE>> \in next.items[1].modified
                      \/ JoinKept(rest, next.items[1].thread, m, 0)
<1>1. /\ \A n \in DOMAIN rest : n + 1 \in DOMAIN queue /\ rest[n] = queue[n + 1]
      /\ \A n \in DOMAIN queue : \/ n = 1 /\ queue[n] = next
                                 \/ n - 1 \in DOMAIN rest /\ rest[n - 1] = queue[n]
      /\ rest \in Seq(Messages)
  BY NextMessage
<1>2. /\ 1 \in DOMAIN queue /\ queue[1] = next
      /\ \A n \in DOMAIN queue : n \in Nat /\ n >= 1
      /\ \A n \in DOMAIN rest : n \in Nat /\ n >= 1
  BY <1>1
<1>3. ASSUME NEW t, NEW m, NoLeave(queue, t, m) PROVE NoLeave(rest, t, m) /\ ~Leaves(next, t, m)
  BY <1>1, <1>2, <1>3 DEF NoLeave
<1>4. ASSUME NEW t, NEW m, NEW p \in Nat, NEW j \in DOMAIN queue, j > p + 1, Joins(queue[j], t, m),
             \A k \in DOMAIN queue : k > j => ~Leaves(queue[k], t, m)
      PROVE  JoinKept(rest, t, m, p)
  <2>1. j - 1 \in DOMAIN rest /\ rest[j - 1] = queue[j] /\ j \in Nat /\ j - 1 > p
    <3>1. j # 1 /\ j \in Nat /\ j - 1 > p
      BY <1>2, <1>4
    <3> QED
      BY <1>1, <3>1
  <2>2. ASSUME NEW k \in DOMAIN rest, k > j - 1 PROVE ~Leaves(rest[k], t, m)
    <3>1. k + 1 \in DOMAIN queue /\ rest[k] = queue[k + 1] /\ k \in Nat
      BY <1>1, <1>2
    <3>2. k + 1 > j
      BY <2>1, <2>2, <3>1
    <3> QED
      BY <1>4, <3>1, <3>2
  <2> QED
    BY <1>4, <2>1, <2>2 DEF JoinKept
<1>5. ASSUME NEW t, NEW m, NEW p \in Nat, JoinKept(queue, t, m, p + 1) PROVE JoinKept(rest, t, m, p)
  BY <1>4, <1>5 DEF JoinKept
<1>6. ASSUME NEW t, NEW m, JoinKept(queue, t, m, 0)
      PROVE  (Joins(next, t, m) /\ NoLeave(rest, t, m)) \/ JoinKept(rest, t, m, 0)
  <2>1. PICK j \in DOMAIN queue : /\ j > 0 /\ Joins(queue[j], t, m)
                                  /\ \A k \in DOMAIN queue : k > j => ~Leaves(queue[k], t, m)
    BY <1>6 DEF JoinKept
  <2>2. CASE j = 1
    <3>1. Joins(next, t, m)
      BY <1>2, <2>1, <2>2
    <3>2. \A k \in DOMAIN rest : k + 1 > 1 /\ k + 1 \in DOMAIN queue /\ rest[k] = queue[k + 1]
      BY <1>1, <1>2
    <3>3. NoLeave(rest, t, m)
      BY <2>1, <2>2, <3>2 DEF NoLeave
    <3> QED
      BY <3>1, <3>3
  <2>3. CASE j # 1
    <3>1. j > 0 + 1 /\ 0 \in Nat
      BY <1>2, <2>3
    <3> QED
      BY <1>4, <2>1, <3>1
  <2> QED
    BY <2>2, <2>3
<1>7. ASSUME NEW who, Answers(queue, who) PROVE Answers(rest, who)
  <2>1. ASSUME NEW p \in DOMAIN rest, IsAnswer(rest[p]), NEW t, t = rest[p].items[1].thread,
               NEW m \in who[t]
        PROVE  <<m, TRUE>> \in rest[p].items[1].modified \/ JoinKept(rest, t, m, p)
    <3>1. p + 1 \in DOMAIN queue /\ rest[p] = queue[p + 1] /\ p \in Nat
      BY <1>1, <1>2
    <3>2. <<m, TRUE>> \in rest[p].items[1].modified \/ JoinKept(queue, t, m, p + 1)
      BY <1>7, <2>1, <3>1 DEF Answers
    <3> QED
      BY <1>5, <3>1, <3>2
  <2> QED
    BY <2>1 DEF Answers
<1>8. ASSUME NEW who, Answers(queue, who), IsAnswer(next), NEW m \in who[next.items[1].thread]
      PROVE  <<m, TRUE>> \in next.items[1].modified \/ JoinKept(rest, next.items[1].thread, m, 0)
  <2>1. <<m, TRUE>> \in next.items[1].modified \/ JoinKept(queue, next.items[1].thread, m, 1)
    BY <1>2, <1>8 DEF Answers
  <2>2. 1 = 0 + 1 /\ 0 \in Nat
    OBVIOUS
  <2> QED
    BY <1>5, <2>1, <2>2
<1> QED
  BY <1>3, <1>6, <1>7, <1>8

RoomsHaveOneRow(gs) == \A t \in Rooms : OneRow(gs, t)
RoomsAlone(copies) == \A t \in ThreadsIn(copies) \cap Rooms : ThreadsIn(copies) = {t}

LEMMA RoomsAreAlone ==
    ASSUME NEW copies, NEW t, Answered(copies, t)
    PROVE  RoomsAlone(copies)
  BY GroupedThreadsAssumption DEF Answered, Together, RoomsAlone

LEMMA ListedInLess ==
    ASSUME NEW new, NEW gs, NEW ts, Less(new, gs, ts), RoomsHaveOneRow(gs),
           NEW rooms, NEW queue, NEW who, Listed(gs, rooms, queue, who),
           NEW left, left \subseteq rooms
    PROVE  RoomsHaveOneRow(new) /\ Listed(new, left, queue, who)
<1>1. PICK p : LessBy(new, gs, ts, p)
  BY DEF Less
<1>2. \A x \in DOMAIN new : /\ p[x] \in DOMAIN gs
                            /\ CopiesAmong(new[x].threads) \subseteq CopiesAmong(gs[p[x]].threads)
  BY <1>1 DEF LessBy
<1>3. Listed(new, left, queue, who)
  BY <1>2 DEF Listed
<1>4. RoomsHaveOneRow(new)
  BY LessOnModel DEF RoomsHaveOneRow
<1> QED
  BY <1>3, <1>4

LEMMA ListedInPlace ==
    ASSUME NEW new, NEW gs, NEW copies, Placed(new, gs, copies), RoomsAlone(copies),
           RoomsHaveOneRow(gs),
           NEW rooms, rooms \subseteq Rooms \cap OnModel(gs), NEW queue, NEW who,
           Listed(gs, rooms, queue, who),
           NEW left, left \subseteq rooms
    PROVE  RoomsHaveOneRow(new) /\ Listed(new, left, queue, who)
<1>1. PICK k, p : PlacedAt(new, gs, copies, k, p)
  BY DEF Placed
<1>2. /\ k \in DOMAIN new
      /\ \A x, y \in DOMAIN new : p[x] = p[y] => x = y
      /\ \A x \in DOMAIN new \ {k} : p[x] \in DOMAIN gs /\ new[x].threads = gs[p[x]].threads
      /\ ThreadsIn(new[k].threads) = ThreadsIn(copies)
      /\ \/ Rows(gs, ThreadsIn(copies)) = {}
         \/ /\ p[k] \in Rows(gs, ThreadsIn(copies))
            /\ Restored(new[k].threads, gs[p[k]].threads, copies)
  BY <1>1 DEF PlacedAt
<1>3. ASSUME NEW t \in Rooms, t \in ThreadsIn(new[k].threads), t \in OnModel(gs)
      PROVE  /\ p[k] \in DOMAIN gs /\ t \in ThreadsIn(gs[p[k]].threads)
             /\ Restored(new[k].threads, gs[p[k]].threads, copies)
  <2>1. ThreadsIn(copies) = {t}
    BY <1>2, <1>3 DEF RoomsAlone
  <2>2. PICK y \in DOMAIN gs : t \in ThreadsIn(gs[y].threads)
    BY <1>3 DEF OnModel
  <2>3. y \in Rows(gs, {t})
    BY <2>2 DEF Rows
  <2>4. p[k] \in Rows(gs, {t}) /\ Restored(new[k].threads, gs[p[k]].threads, copies)
    BY <1>2, <2>1, <2>3
  <2> QED
    BY <2>4 DEF Rows
<1>4. RoomsHaveOneRow(new)
  <2>1. ASSUME NEW t \in Rooms, NEW x \in DOMAIN new \ {k}, t \in ThreadsIn(new[x].threads),
               t \in ThreadsIn(new[k].threads)
        PROVE  FALSE
    <3>1. p[x] \in DOMAIN gs /\ t \in ThreadsIn(gs[p[x]].threads)
      BY <1>2, <2>1
    <3>2. t \in OnModel(gs)
      BY <3>1 DEF OnModel
    <3>3. p[k] \in DOMAIN gs /\ t \in ThreadsIn(gs[p[k]].threads)
      BY <1>3, <2>1, <3>2
    <3>4. p[x] = p[k]
      BY <3>1, <3>3 DEF RoomsHaveOneRow, OneRow
    <3> QED
      BY <1>2, <3>4
  <2>2. ASSUME NEW t \in Rooms, NEW x \in DOMAIN new \ {k}, NEW y \in DOMAIN new \ {k},
               t \in ThreadsIn(new[x].threads), t \in ThreadsIn(new[y].threads)
        PROVE  x = y
    <3>1. p[x] = p[y]
      BY <1>2, <2>2 DEF RoomsHaveOneRow, OneRow
    <3> QED
      BY <1>2, <3>1
  <2> QED
    BY <2>1, <2>2 DEF RoomsHaveOneRow, OneRow
<1>5. ASSUME NEW t \in left, NEW x \in DOMAIN new, NEW copy \in CopiesAmong(new[x].threads),
             copy.thread = t, NEW m \in who[t]
      PROVE  Known(queue, copy.people, t, m)
  <2>0. t \in rooms /\ t \in Rooms /\ t \in OnModel(gs)
    OBVIOUS
  <2>1. CASE x # k
    <3>1. p[x] \in DOMAIN gs /\ copy \in CopiesAmong(gs[p[x]].threads)
      BY <1>2, <2>1
    <3> QED
      BY <1>5, <2>0, <3>1 DEF Listed
  <2>2. CASE x = k
    <3>1. t \in ThreadsIn(new[k].threads)
      BY <1>5, <2>2, ThreadsOfCopies
    <3>2. /\ p[k] \in DOMAIN gs /\ t \in ThreadsIn(gs[p[k]].threads)
          /\ Restored(new[k].threads, gs[p[k]].threads, copies)
      BY <1>3, <2>0, <3>1
    <3>3. PICK n \in DOMAIN new[k].threads : copy = new[k].threads[n]
      BY <2>2 DEF CopiesAmong
    <3>4. PICK old \in CopiesAmong(gs[p[k]].threads) : old.thread = t /\ old.people = copy.people
      BY <1>5, <3>2, <3>3 DEF Restored
    <3> QED
      BY <1>5, <2>0, <3>2, <3>4 DEF Listed
  <2> QED
    BY <2>1, <2>2
<1>6. Listed(new, left, queue, who)
  BY <1>5 DEF Listed
<1> QED
  BY <1>4, <1>6

Fetches(rooms, change) ==
    IF change.added = {} /\ change.removed = {} THEN rooms \cup {change.thread} ELSE rooms

\* A change of participants is handled, and taken from the queue.
LEMMA ListedWithPeople ==
    ASSUME NEW gs, NEW new, NEW change \in Changes, NEW i \in DOMAIN gs,
           NEW mine \in CopiesAmong(gs[i].threads), mine.thread = change.thread, mine \in Copies,
           Peopled(new, gs, i, mine, change), RoomsHaveOneRow(gs),
           NEW queue \in Seq(Messages), queue # <<>>, Head(queue).signal = "participantsChanged",
           Head(queue).items[1] = change,
           NEW who, NEW rooms, rooms \subseteq Rooms, NEW now, now = Fetches(rooms, change),
           Listed(gs, rooms, queue, who), Answers(queue, who)
    PROVE  RoomsHaveOneRow(new) /\ Listed(new, now, Tail(queue), who)
<1> PICK rest, next : rest = Tail(queue) /\ next = Head(queue)
  OBVIOUS
<1> PICK u : u = change.thread
  OBVIOUS
<1>1. /\ \A t, m : NoLeave(queue, t, m) => NoLeave(rest, t, m) /\ ~Leaves(next, t, m)
      /\ \A t, m : JoinKept(queue, t, m, 0) =>
             (Joins(next, t, m) /\ NoLeave(rest, t, m)) \/ JoinKept(rest, t, m, 0)
      /\ IsAnswer(next) =>
             \A m \in who[u] : <<m, TRUE>> \in change.modified \/ JoinKept(rest, u, m, 0)
  BY ListsAfterMessage
<1>2. /\ DOMAIN new = DOMAIN gs
      /\ \A x \in DOMAIN gs : ThreadsIn(new[x].threads) = ThreadsIn(gs[x].threads)
      /\ \A x \in DOMAIN gs \ {i} : new[x] = gs[x]
      /\ CopiesAmong(new[i].threads) =
             {copy \in CopiesAmong(gs[i].threads) : copy.thread # u} \cup {Changed(mine, change)}
  BY DEF Peopled
<1>3. RoomsHaveOneRow(new)
  BY <1>2 DEF RoomsHaveOneRow, OneRow
<1>4. /\ u \in Rooms /\ change.removed \subseteq Members \X {FALSE}
      /\ change.modified \subseteq Members \X {TRUE}
      /\ Changed(mine, change).thread = u
      /\ Changed(mine, change).people =
             ((mine.people \ change.removed) \ change.modified) \cup change.added \cup change.modified
  BY ChangedCopy DEF Changes
<1>5. ASSUME NEW t \in rooms, t # u, NEW people, NEW m, Known(queue, people, t, m)
      PROVE  Known(rest, people, t, m)
  <2>1. ~Joins(next, t, m)
    BY <1>5 DEF Joins, About
  <2> QED
    BY <1>1, <1>5, <2>1 DEF Known
<1>6. ASSUME NEW t \in rooms, NEW x \in DOMAIN new, NEW copy \in CopiesAmong(new[x].threads),
             copy.thread = t, t # u, NEW m \in who[t]
      PROVE  Known(rest, copy.people, t, m)
  <2>1. copy \in CopiesAmong(gs[x].threads)
    BY <1>2, <1>4, <1>6
  <2>2. Known(queue, copy.people, t, m)
    BY <1>2, <1>6, <2>1 DEF Listed
  <2> QED
    BY <1>5, <1>6, <2>2
<1>7. ASSUME NEW x \in DOMAIN new, NEW copy \in CopiesAmong(new[x].threads), copy.thread = u
      PROVE  copy = Changed(mine, change)
  <2>1. u \in ThreadsIn(new[x].threads) /\ u \in ThreadsIn(gs[i].threads)
    BY <1>7, ThreadsOfCopies
  <2>2. x = i
    BY <1>2, <1>4, <2>1 DEF RoomsHaveOneRow, OneRow
  <2> QED
    BY <1>2, <1>7, <2>2
<1>8. ASSUME NEW m \in who[u], NEW people, people = Changed(mine, change).people,
             Known(queue, mine.people, u, m)
      PROVE  Known(rest, people, u, m)
  <2>0. people = ((mine.people \ change.removed) \ change.modified) \cup change.added \cup change.modified
    BY <1>4, <1>8
  <2> PICK with, without : with = <<m, TRUE>> /\ without = <<m, FALSE>>
    OBVIOUS
  <2>1. with \notin change.removed /\ without \notin change.modified
    BY <1>4
  <2>2. CASE with \in mine.people
    <3>1. with \in people
      BY <2>0, <2>1, <2>2
    <3> QED
      BY <3>1 DEF Known
  <2>3. CASE JoinKept(queue, u, m, 0)
    <3>1. CASE JoinKept(rest, u, m, 0)
      BY <3>1 DEF Known
    <3>2. CASE Joins(next, u, m) /\ NoLeave(rest, u, m)
      <4>1. without \in change.added
        BY <3>2 DEF Joins
      <4>2. without \in people
        BY <2>0, <4>1
      <4> QED
        BY <3>2, <4>2 DEF Known
    <3> QED
      BY <1>1, <2>3, <3>1, <3>2
  <2>4. CASE without \in mine.people /\ NoLeave(queue, u, m)
    <3>1. NoLeave(rest, u, m) /\ ~Leaves(next, u, m)
      BY <1>1, <2>4
    <3>2. without \notin change.removed
      BY <3>1 DEF Leaves, About
    <3>3. without \in people
      BY <2>0, <2>1, <2>4, <3>2
    <3> QED
      BY <3>1, <3>3 DEF Known
  <2> QED
    BY <1>8, <2>2, <2>3, <2>4 DEF Known
<1>0. now = IF change.added = {} /\ change.removed = {} THEN rooms \cup {u} ELSE rooms
  BY DEF Fetches
<1>9. ASSUME NEW t \in now, NEW x \in DOMAIN new, NEW copy \in CopiesAmong(new[x].threads),
             copy.thread = t, NEW m \in who[t]
      PROVE  Known(rest, copy.people, t, m)
  <2>1. CASE t # u
    <3>1. t \in rooms
      BY <1>0, <2>1
    <3> QED
      BY <1>6, <1>9, <2>1, <3>1
  <2>2. CASE t = u /\ u \in rooms
    <3>1. copy = Changed(mine, change)
      BY <1>7, <1>9, <2>2
    <3>2. Known(queue, mine.people, u, m)
      BY <1>9, <2>2 DEF Listed
    <3> QED
      BY <1>8, <1>9, <2>2, <3>1, <3>2
  <2>3. CASE t = u /\ u \notin rooms
    <3>1. copy = Changed(mine, change)
      BY <1>7, <1>9, <2>3
    <3>2. change.added = {} /\ change.removed = {}
      BY <1>0, <1>9, <2>3
    <3>3. IsAnswer(next)
      BY <3>2 DEF IsAnswer
    <3>4. <<m, TRUE>> \in change.modified \/ JoinKept(rest, u, m, 0)
      BY <1>1, <1>9, <2>3, <3>3
    <3>5. change.modified \subseteq copy.people
      BY <1>4, <3>1
    <3> QED
      BY <2>3, <3>4, <3>5 DEF Known
  <2> QED
    BY <2>1, <2>2, <2>3
<1>10. Listed(new, now, rest, who)
  BY <1>9 DEF Listed
<1> QED
  BY <1>3, <1>10

LEMMA NoListsInitially == GroupedInit => FInv
<1> SUFFICES ASSUME GroupedInit PROVE FInv
  OBVIOUS
<1>1. groups = <<>> /\ fetched = {} /\ inbox = <<>>
  BY DEF GroupedInit, SignalQueueInit
<1> QED
  BY <1>1 DEF FInv, OneRow, Listed, Answers

\* The queue is as it was, or longer, and the rows the same.
LEMMA MoreMessages ==
    ASSUME TInv, FInv, groups' = groups, fetched' \subseteq fetched, Longer(inbox', inbox),
           \A t \in Rooms : \A m \in members'[t] : StaysOrJoins(inbox', inbox, members, t, m),
           \A p \in DOMAIN inbox' \ DOMAIN inbox : IsAnswer(inbox'[p]) =>
               \A m \in members'[inbox'[p].items[1].thread] : <<m, TRUE>> \in inbox'[p].items[1].modified
    PROVE  FInv'
<1>1. inbox \in Seq(Messages) /\ fetched \subseteq Rooms
  BY DEF TInv, QueueInv, ModelInv
<1>2. Listed(groups, fetched, inbox, members) /\ Answers(inbox, members) /\ RoomsHaveOneRow(groups)
  BY DEF FInv, RoomsHaveOneRow
<1>3. /\ \A gs, rooms : (rooms \subseteq Rooms /\ Listed(gs, rooms, inbox, members))
                        => Listed(gs, rooms, inbox', members')
      /\ Answers(inbox, members) => Answers(inbox', members')
  BY <1>1, ListsOutliveMessages
<1>4. Listed(groups, fetched', inbox', members')
  <2>1. Listed(groups, fetched, inbox', members')
    BY <1>1, <1>2, <1>3
  <2> QED
    BY <2>1 DEF Listed
<1> QED
  BY <1>2, <1>3, <1>4 DEF FInv, RoomsHaveOneRow

\* No message came, and nobody became a member.
LEMMA SameMessages ==
    ASSUME TInv, FInv, groups' = groups, fetched' \subseteq fetched, inbox' = inbox,
           \A t \in Rooms : members'[t] \subseteq members[t]
    PROVE  FInv'
<1>1. Longer(inbox', inbox)
  BY DEF Longer
<1>2. \A t \in Rooms : \A m \in members'[t] : StaysOrJoins(inbox', inbox, members, t, m)
  BY DEF StaysOrJoins, NoneLeaves
<1> QED
  BY <1>1, <1>2, MoreMessages

\* Messages that say nothing of participants.
LEMMA OtherMessagesCome ==
    ASSUME TInv, FInv, groups' = groups, fetched' = fetched, members' = members,
           Longer(inbox', inbox),
           \A n \in DOMAIN inbox' \ DOMAIN inbox : inbox'[n].signal # "participantsChanged"
    PROVE  FInv'
<1>1. \A t \in Rooms : \A m \in members'[t] : StaysOrJoins(inbox', inbox, members, t, m)
  BY DEF StaysOrJoins, NoneLeaves, Leaves, About
<1>2. \A n \in DOMAIN inbox' \ DOMAIN inbox : ~IsAnswer(inbox'[n])
  BY DEF IsAnswer
<1> QED
  BY <1>1, <1>2, MoreMessages

LEMMA AppendIsLonger ==
    ASSUME NEW queue \in Seq(Messages), NEW message \in Messages
    PROVE  /\ Longer(Append(queue, message), queue)
           /\ \A n \in DOMAIN Append(queue, message) \ DOMAIN queue :
                 n = Len(queue) + 1 /\ Append(queue, message)[n] = message
           /\ Len(queue) + 1 \in DOMAIN Append(queue, message)
           /\ Append(queue, message)[Len(queue) + 1] = message
           /\ \A n \in DOMAIN Append(queue, message) : n <= Len(queue) + 1
           /\ \A n \in DOMAIN queue \cup {0} : Len(queue) + 1 > n
           /\ Len(queue) \in Nat
<1> PICK longer : longer = Append(queue, message)
  OBVIOUS
<1>1. /\ Len(queue) \in Nat /\ DOMAIN queue = 1 .. Len(queue)
      /\ DOMAIN longer = 1 .. (Len(queue) + 1) /\ longer[Len(queue) + 1] = message
      /\ \A n \in 1 .. Len(queue) : longer[n] = queue[n]
  OBVIOUS
<1>2. Longer(longer, queue)
  BY <1>1 DEF Longer
<1>3. \A n \in DOMAIN longer \ DOMAIN queue : n = Len(queue) + 1
  BY <1>1
<1> QED
  BY <1>1, <1>2, <1>3

\* A change of a room is announced.
LEMMA ChangeComes ==
    ASSUME TInv, FInv, groups' = groups, fetched' = fetched,
           NEW message \in Messages, inbox' = Append(inbox, message),
           \A t \in Rooms : \A m \in members'[t] :
               (m \in members[t] /\ ~Leaves(message, t, m)) \/ Joins(message, t, m),
           IsAnswer(message) =>
               \A m \in members'[message.items[1].thread] : <<m, TRUE>> \in message.items[1].modified
    PROVE  FInv'
<1> PICK longer : longer = Append(inbox, message)
  OBVIOUS
<1>1. inbox \in Seq(Messages) /\ inbox' = longer
  BY DEF TInv, QueueInv
<1>2. /\ Longer(longer, inbox)
      /\ \A n \in DOMAIN longer \ DOMAIN inbox : n = Len(inbox) + 1 /\ longer[n] = message
      /\ Len(inbox) + 1 \in DOMAIN longer /\ longer[Len(inbox) + 1] = message
      /\ \A n \in DOMAIN longer : n <= Len(inbox) + 1
      /\ \A n \in DOMAIN inbox \cup {0} : Len(inbox) + 1 > n
      /\ Len(inbox) \in Nat
  BY <1>1, AppendIsLonger
<1>3. ASSUME NEW t \in Rooms, NEW m \in members'[t]
      PROVE  StaysOrJoins(longer, inbox, members, t, m)
  <2>1. CASE m \in members[t] /\ ~Leaves(message, t, m)
    <3>1. NoneLeaves(longer, inbox, t, m)
      BY <1>2, <2>1 DEF NoneLeaves
    <3> QED
      BY <2>1, <3>1 DEF StaysOrJoins
  <2>2. CASE Joins(message, t, m)
    <3> PICK last : last = Len(inbox) + 1
      OBVIOUS
    <3>1. last \in DOMAIN longer /\ longer[last] = message /\ last \in Nat
      BY <1>2
    <3>2. \A k \in DOMAIN longer : k \in Nat /\ ~(k > last)
      <4>1. longer \in Seq(Messages)
        BY <1>1, longer = Append(inbox, message)
      <4>2. \A k \in DOMAIN longer : k \in Nat
        BY <4>1
      <4> QED
        BY <1>2, <3>1, <4>2
    <3>3. \A p \in DOMAIN inbox \cup {0} : last > p
      BY <1>2
    <3>4. \A p \in DOMAIN inbox \cup {0} : JoinKept(longer, t, m, p)
      BY <2>2, <3>1, <3>2, <3>3 DEF JoinKept
    <3> QED
      BY <3>4 DEF StaysOrJoins
  <2> QED
    BY <1>3, <2>1, <2>2
<1>4. \A p \in DOMAIN inbox' \ DOMAIN inbox : IsAnswer(inbox'[p]) =>
          \A m \in members'[inbox'[p].items[1].thread] : <<m, TRUE>> \in inbox'[p].items[1].modified
  BY <1>1, <1>2
<1> QED
  BY <1>1, <1>2, <1>3, <1>4, MoreMessages

\* The rows change, and no message comes.
LEMMA RowsChange ==
    ASSUME TInv, FInv, inbox' = inbox, members' = members,
           RoomsHaveOneRow(groups'), Listed(groups', fetched', inbox, members)
    PROVE  FInv'
  BY DEF FInv, RoomsHaveOneRow

\* A message that says nothing of participants is received.
LEMMA MessageGoes ==
    ASSUME TInv, FInv, inbox # <<>>, inbox' = Tail(inbox), members' = members,
           Head(inbox).signal # "participantsChanged",
           RoomsHaveOneRow(groups'), Listed(groups', fetched', inbox, members)
    PROVE  FInv'
<1>1. inbox \in Seq(Messages) /\ Answers(inbox, members)
  BY DEF TInv, QueueInv, FInv
<1> PICK rest, next : rest = Tail(inbox) /\ next = Head(inbox)
  OBVIOUS
<1>2. /\ \A t, m : NoLeave(inbox, t, m) => NoLeave(rest, t, m)
      /\ \A t, m : JoinKept(inbox, t, m, 0) => Joins(next, t, m) \/ JoinKept(rest, t, m, 0)
      /\ Answers(rest, members)
  BY <1>1, ListsAfterMessage
<1>3. \A t, m : ~Joins(next, t, m)
  BY DEF Joins, About
<1>4. \A t, m, people : Known(inbox, people, t, m) => Known(rest, people, t, m)
  BY <1>2, <1>3 DEF Known
<1>5. Listed(groups', fetched', rest, members)
  BY <1>4 DEF Listed
<1> QED
  BY <1>2, <1>5 DEF FInv, RoomsHaveOneRow

LEMMA ListsKeep ==
    ASSUME TInv, FInv, GroupedNext
    PROVE  FInv'
<1>0. /\ inbox \in Seq(Messages) /\ requests \in Seq(Rooms) /\ fetched \subseteq Rooms \cap OnModel(groups)
      /\ members \in [Rooms -> SUBSET Members] /\ RowsOK(groups)
      /\ RoomsHaveOneRow(groups) /\ Listed(groups, fetched, inbox, members) /\ Answers(inbox, members)
  BY DEF TInv, QueueInv, ServiceInv, ModelInv, FInv, RoomsHaveOneRow
<1>1. ASSUME UNCHANGED <<groups, fetched, inbox, members>> PROVE FInv'
  BY <1>1, SameMessages
<1>2. ASSUME NEW t \in Threads, NEW time \in Stamps, Create(t, time) \/ Update(t, time)
      PROVE  FInv'
  BY <1>1, <1>2 DEF Create, Update, Works, Notify, model
<1>3. ASSUME NEW t \in Threads, Delete(t) PROVE FInv'
  <2>1. /\ UNCHANGED <<groups, fetched, inbox>>
        /\ members' = IF t \in Rooms THEN [members EXCEPT ![t] = {}] ELSE members
    BY <1>3 DEF Delete, Works, Notify, model
  <2>2. \A u \in Rooms : members'[u] \subseteq members[u]
    BY <1>0, <2>1
  <2> QED
    BY <2>1, <2>2, SameMessages
<1>4. ASSUME NEW t \in Rooms, NEW m \in Members, JoinRoom(t, m) PROVE FInv'
  <2> PICK message : message = Change(t, {<<m, FALSE>>}, {}, {})
    OBVIOUS
  <2>1. /\ UNCHANGED <<groups, fetched>> /\ inbox' = Append(inbox, message)
        /\ members' = [members EXCEPT ![t] = @ \cup {m}]
    BY <1>4 DEF JoinRoom, Works, model
  <2>2. Says(message, t, {<<m, FALSE>>}, {}, {})
    BY MemberChangeIs
  <2>3. message \in Messages /\ Joins(message, t, m) /\ \A u, n : ~Leaves(message, u, n)
        /\ ~IsAnswer(message)
    BY <2>2 DEF Says, Joins, Leaves, About, IsAnswer
  <2>4. \A u \in Rooms : \A n \in members'[u] : n \in members[u] \/ (u = t /\ n = m)
    BY <1>0, <2>1
  <2>5. \A u \in Rooms : \A n \in members'[u] :
           (n \in members[u] /\ ~Leaves(message, u, n)) \/ Joins(message, u, n)
    BY <2>3, <2>4
  <2> QED
    BY <2>1, <2>3, <2>5, ChangeComes
<1>5. ASSUME NEW t \in Rooms, NEW m \in Members, LeaveRoom(t, m) PROVE FInv'
  <2> PICK message : message = Change(t, {}, {<<m, FALSE>>}, {})
    OBVIOUS
  <2>1. /\ UNCHANGED <<groups, fetched>> /\ inbox' = Append(inbox, message)
        /\ members' = [members EXCEPT ![t] = @ \ {m}]
    BY <1>5 DEF LeaveRoom, Works, model
  <2>2. Says(message, t, {}, {<<m, FALSE>>}, {})
    BY MemberChangeIs
  <2>3. /\ message \in Messages /\ ~IsAnswer(message)
        /\ \A u, n : Leaves(message, u, n) => u = t /\ n = m
    BY <2>2 DEF Says, Leaves, About, IsAnswer
  <2>4. \A u \in Rooms : \A n \in members'[u] : n \in members[u] /\ ~(u = t /\ n = m)
    BY <1>0, <2>1
  <2>5. \A u \in Rooms : \A n \in members'[u] :
           (n \in members[u] /\ ~Leaves(message, u, n)) \/ Joins(message, u, n)
    BY <2>3, <2>4
  <2> QED
    BY <2>1, <2>3, <2>5, ChangeComes
<1>6. CASE AnswerParticipants
  <2> PICK t : t = Head(requests)
    OBVIOUS
  <2> PICK found : found = members[t] \X {TRUE}
    OBVIOUS
  <2> PICK message : message = Change(t, {}, {}, found)
    OBVIOUS
  <2>1. /\ UNCHANGED <<groups, fetched, members>> /\ inbox' = Append(inbox, message) /\ requests # <<>>
    BY <1>6 DEF AnswerParticipants, model, service
  <2>2. t \in Rooms
    BY <1>0, <2>1
  <2>3. found \subseteq Members \X {TRUE}
    BY <1>0, <2>2
  <2>4. Says(message, t, {}, {}, found)
    BY <2>2, <2>3, ChangeIs
  <2>5. /\ message \in Messages /\ \A u, n : ~Leaves(message, u, n)
        /\ message.items[1].thread = t /\ message.items[1].modified = found
    BY <2>4 DEF Says, Leaves, About
  <2>6. \A m \in members'[message.items[1].thread] : <<m, TRUE>> \in message.items[1].modified
    BY <2>1, <2>5
  <2>7. \A u \in Rooms : \A n \in members'[u] :
           (n \in members[u] /\ ~Leaves(message, u, n)) \/ Joins(message, u, n)
    BY <2>1, <2>5
  <2> QED
    BY <2>1, <2>5, <2>6, <2>7, ChangeComes
<1>7. CASE Kill \/ Register
  <2>1. PICK name \in Bus : /\ UNCHANGED <<groups, fetched, members>>
                            /\ inbox' = Append(inbox, [signal |-> name, items |-> <<>>])
    BY <1>7 DEF Kill, Register, LoseSignals, RegisterService, model, Bus
  <2> PICK message : message = [signal |-> name, items |-> <<>>]
    OBVIOUS
  <2>2. message \in Messages /\ message.signal # "participantsChanged"
    BY OtherMessages
  <2>3. Longer(inbox', inbox) /\ \A n \in DOMAIN inbox' \ DOMAIN inbox : inbox'[n] = message
    BY <1>0, <2>1, <2>2, AppendIsLonger
  <2> QED
    BY <2>1, <2>2, <2>3, OtherMessagesCome
<1>8. CASE SendSignals
  <2>1. UNCHANGED <<groups, fetched, members>> /\ (Expire \/ ProcessSignals)
    BY <1>8 DEF SendSignals, model, service
  <2>2. CASE Expire
    BY <1>1, <2>1, <2>2 DEF Expire
  <2>3. CASE ProcessSignals
    <3>1. inbox' = inbox \o Emitted /\ Emitted \in Seq(Messages) /\ Plain(Emitted)
      BY <2>3, SignalsAreSent DEF TInv
    <3> PICK sent : sent = Emitted
      OBVIOUS
    <3>2. /\ \A n \in DOMAIN inbox : n \in DOMAIN (inbox \o sent) /\ (inbox \o sent)[n] = inbox[n]
          /\ \A n \in DOMAIN (inbox \o sent) :
                 n \in DOMAIN inbox \/ \E i \in DOMAIN sent : (inbox \o sent)[n] = sent[i]
      BY <1>0, <3>1, JoinedMessages
    <3>3. \A i \in DOMAIN sent : sent[i].signal # "participantsChanged"
      BY <3>1 DEF Plain, SignalNames
    <3> PICK all : all = inbox \o sent
      OBVIOUS
    <3>4. Longer(all, inbox)
      BY <3>2 DEF Longer
    <3>5. \A n \in DOMAIN all \ DOMAIN inbox : all[n].signal # "participantsChanged"
      BY <3>2, <3>3
    <3> QED
      BY <2>1, <3>1, <3>4, <3>5, OtherMessagesCome
  <2> QED
    BY <2>1, <2>2, <2>3
<1>9. CASE (\E t \in Threads : Load(t)) \/ (\E t \in Rooms : RequestParticipants(t)) \/ Start
  BY <1>1, <1>9 DEF Load, RequestParticipants, Start, signalQueue, model, service
<1>10. CASE FetchMore \/ NextPage \/ ChangeQuery
  BY <1>1, <1>10 DEF FetchMore, NextPage, ChangeQuery, Undisturbed, service
<1>11. CASE UpdateQuery
  <2>1. groups' = <<>> /\ fetched' = {}
    BY <1>11, QueryIsMade DEF TInv
  <2>2. RoomsHaveOneRow(groups') /\ Listed(groups', fetched', inbox, members)
    BY <2>1 DEF RoomsHaveOneRow, OneRow, Listed
  <2>3. inbox' = inbox /\ members' = members
    BY <1>11 DEF UpdateQuery, Undisturbed, service
  <2> QED
    BY <2>2, <2>3, RowsChange
<1>12. CASE ProcessThreadGrouping
  <2>1. PICK t : Processes(t)
    BY <1>12, GroupingIsProcessed
  <2>2. inbox' = inbox /\ members' = members /\ fetched' \subseteq fetched
    BY <1>12, <2>1 DEF ProcessThreadGrouping, Undisturbed, service, Processes
  <2>3. RoomsHaveOneRow(groups') /\ Listed(groups', fetched', inbox, members)
    <3>1. CASE \E copies : Answered(copies, t) /\ Placed(groups', groups, copies)
      <4>1. PICK copies : Answered(copies, t) /\ Placed(groups', groups, copies)
        BY <3>1
      <4>2. RoomsAlone(copies)
        BY <4>1, RoomsAreAlone
      <4> QED
        BY <1>0, <2>2, <4>1, <4>2, ListedInPlace
    <3>2. CASE LeftWithout(groups', groups, t)
      <4>1. PICK ts : Less(groups', groups, ts)
        BY <3>2 DEF LeftWithout
      <4> QED
        BY <1>0, <2>2, <4>1, ListedInLess
    <3> QED
      BY <2>1, <3>1, <3>2 DEF Processes
  <2> QED
    BY <2>2, <2>3, RowsChange
<1>13. CASE OnThreadsChanged \/ OnServiceRunningChanged
  <2>1. /\ inbox # <<>> /\ inbox' = Tail(inbox) /\ members' = members
        /\ Head(inbox).signal # "participantsChanged"
        /\ groups' = groups /\ fetched' = fetched
    BY <1>13 DEF OnThreadsChanged, OnServiceRunningChanged, Receive, Undisturbed, service
  <2> QED
    BY <1>0, <2>1, MessageGoes
<1>14. CASE OnThreadsRemoved
  <2>1. /\ inbox # <<>> /\ inbox' = Tail(inbox) /\ members' = members
        /\ Head(inbox).signal # "participantsChanged"
    BY <1>14 DEF OnThreadsRemoved, Receive, Undisturbed, service
  <2>2. PICK ts : Less(groups', groups, ts) /\ fetched' \subseteq fetched
    BY <1>14, RemovalIsHandled DEF RowsLeave
  <2>3. RoomsHaveOneRow(groups') /\ Listed(groups', fetched', inbox, members)
    BY <1>0, <2>2, ListedInLess
  <2> QED
    BY <2>1, <2>3, MessageGoes
<1>15. CASE OnThreadParticipantsChanged
  <2> PICK change : change = Head(inbox).items[1]
    OBVIOUS
  <2>1. /\ inbox # <<>> /\ inbox' = Tail(inbox) /\ members' = members
    BY <1>15 DEF OnThreadParticipantsChanged, Receive, Undisturbed, service
  <2>2. Head(inbox).signal = "participantsChanged" /\ change \in Changes /\ Peoples(change)
    BY <1>15, ChangeIsHandled
  <2>3. Answers(inbox', members)
    BY <1>0, <2>1, ListsAfterMessage
  <2>4. CASE Rows(groups, {change.thread}) = {} /\ groups' = groups /\ fetched' = fetched
    <3>1. change.thread \notin OnModel(groups)
      BY <2>4 DEF Rows, OnModel
    <3> PICK rest, next : rest = Tail(inbox) /\ next = Head(inbox)
      OBVIOUS
    <3>2. /\ \A t, m : NoLeave(inbox, t, m) => NoLeave(rest, t, m)
          /\ \A t, m : JoinKept(inbox, t, m, 0) => Joins(next, t, m) \/ JoinKept(rest, t, m, 0)
      BY <1>0, <2>1, ListsAfterMessage
    <3>3. \A t \in fetched : \A m : ~Joins(next, t, m)
      BY <1>0, <3>1 DEF Joins, About
    <3>4. \A t \in fetched : \A m, people : Known(inbox, people, t, m) => Known(rest, people, t, m)
      BY <3>2, <3>3 DEF Known
    <3>5. Listed(groups, fetched, rest, members)
      BY <1>0, <3>4 DEF Listed
    <3> QED
      BY <1>0, <2>1, <2>3, <2>4, <3>5 DEF FInv, RoomsHaveOneRow
  <2>5. ASSUME NEW i \in DOMAIN groups, NEW mine \in CopiesAmong(groups[i].threads),
               mine.thread = change.thread, Peopled(groups', groups, i, mine, change),
               fetched' = IF change.added = {} /\ change.removed = {}
                          THEN fetched \cup {change.thread} ELSE fetched
        PROVE  FInv'
    <3>1. mine \in Copies
      BY <1>0, RowsAre, CopiesAre DEF RowsOK
    <3>2. fetched \subseteq Rooms
      BY <1>0
    <3>4. fetched' = Fetches(fetched, change)
      BY <2>5 DEF Fetches
    <3>5. Head(inbox).items[1] = change
      OBVIOUS
    <3>3. RoomsHaveOneRow(groups') /\ Listed(groups', fetched', Tail(inbox), members)
      BY ONLY <1>0, <2>1, <2>2, <2>5, <3>1, <3>2, <3>4, <3>5, ListedWithPeople
    <3> QED
      BY <2>1, <2>3, <3>3 DEF FInv, RoomsHaveOneRow
  <2> QED
    BY <2>2, <2>4, <2>5 DEF Peoples
<1> QED
  BY <1>2, <1>3, <1>4, <1>5, <1>6, <1>7, <1>8, <1>9, <1>10, <1>11, <1>12, <1>13, <1>14, <1>15 DEF GroupedNext

\* Whoever is in a room is in a fetched list of participants, or in a message that
\* is still to be handled and not taken back by a later one: the order in which
\* onThreadParticipantsChanged gets the changes of the daemon and the answers of
\* the plugin.
THEOREM ListsAlwaysComplete == GroupedSpec => []FInv
<1>1. GroupedInit => FInv
  BY NoListsInitially
<1>2. TInv /\ FInv /\ [GroupedNext]_groupedVars => FInv'
  <2>1. ASSUME TInv, FInv, UNCHANGED groupedVars PROVE FInv'
    BY <2>1, SameMessages DEF groupedVars, service, signalQueue, model
  <2> QED
    BY <2>1, ListsKeep
<1> QED
  BY <1>1, <1>2, GroupedTypeInvariant, PTL DEF GroupedSpec

\* A list of participants that was fetched misses no member of the room when all
\* has been handled, although restoreParticipants and member changes that the
\* service did not wait for have been at it.
THEOREM FetchedListsAlwaysMissNobody == GroupedSpec => []FetchedListsMissNobody
<1>1. FInv => FetchedListsMissNobody
  <2> SUFFICES ASSUME FInv, Quiet, NEW i \in DOMAIN groups, NEW copy \in Range(groups[i].threads),
                      copy.thread \in fetched, NEW m \in members[copy.thread]
               PROVE  m \in {person[1] : person \in copy.people}
    BY DEF FetchedListsMissNobody
  <2>1. inbox = <<>>
    BY DEF Quiet
  <2>2. copy \in CopiesAmong(groups[i].threads)
    BY DEF Range, CopiesAmong
  <2>3. Known(inbox, copy.people, copy.thread, m)
    BY <2>2 DEF FInv, Listed
  <2>4. <<m, TRUE>> \in copy.people \/ <<m, FALSE>> \in copy.people
    BY <2>1, <2>3 DEF Known, JoinKept
  <2> QED
    BY <2>4
<1> QED
  BY <1>1, ListsAlwaysComplete, PTL

-----------------------------------------------------------------------------
(* The rows gs against the service, where S are the threads of its table   *)
(* and C the copies of its cache. R are the threads whose removal and U    *)
(* those whose changes the model has still to handle; D are disturbed, K   *)
(* skipped, and P on pages that were not asked for.                        *)

\* What is not stored any longer will be removed.
Gone(gs, S, D, R) == OnModel(gs) \ (D \cup S) \subseteq R

\* A row has all copies of its conversation, but for those that will be asked for.
Current(gs, S, D, U, C) ==
    \A i \in DOMAIN gs : \A t \in (ThreadsIn(gs[i].threads) \cap S) \ D : \A copy \in C :
        SameConversation(t, copy.thread) => copy \in BareIn(gs[i].threads) \/ copy.thread \in U

\* Two rows are two conversations, or one of them has only removed threads.
Single(gs, S, D) ==
    \A i, j \in DOMAIN gs : i # j =>
        \A t \in ThreadsIn(gs[i].threads), u \in ThreadsIn(gs[j].threads) :
            SameConversation(t, u) /\ t \notin D => t # u /\ ~({t, u} \subseteq S)

\* A stored thread has a row, or will have one.
Reached(gs, S, D, U, K, P) ==
    \A t \in S \ (K \cup D) :
        t \in OnModel(gs) \/ (\E u \in U \cap S : SameConversation(t, u)) \/ t \in P

OneClass(gs) ==
    \A i \in DOMAIN gs : \A t, u \in ThreadsIn(gs[i].threads) : SameConversation(t, u)

\* Threads of one conversation are disturbed together.
Closed(D) == \A t, u : SameConversation(t, u) => (t \in D <=> u \in D)

\* A thread is stored just while it has a copy.
Holds(C, S) == {copy.thread : copy \in C} = S

LEMMA SingleIsApart ==
    ASSUME NEW gs, NEW S, NEW D, Single(gs, S, D)
    PROVE  \A t : t \notin D => OneRow(gs, t)
<1>1. ASSUME NEW t, t \notin D, NEW i \in DOMAIN gs, NEW j \in DOMAIN gs,
             t \in ThreadsIn(gs[i].threads), t \in ThreadsIn(gs[j].threads), i # j
      PROVE  FALSE
  <2>1. SameConversation(t, t)
    BY DEF SameConversation
  <2> QED
    BY <1>1, <2>1 DEF Single
<1> QED
  BY <1>1 DEF OneRow

-----------------------------------------------------------------------------
(* Rows from which the threads ts were removed                             *)

LEMMA OneClassInLess ==
    ASSUME NEW new, NEW gs, NEW ts, Less(new, gs, ts), OneClass(gs)
    PROVE  OneClass(new)
<1>1. PICK p : LessBy(new, gs, ts, p)
  BY DEF Less
<1>2. \A x \in DOMAIN new : /\ p[x] \in DOMAIN gs
                            /\ ThreadsIn(new[x].threads) \subseteq ThreadsIn(gs[p[x]].threads)
  BY <1>1, ThreadsOfCopies DEF LessBy
<1> QED
  BY <1>2 DEF OneClass

LEMMA GoneInLess ==
    ASSUME NEW new, NEW gs, NEW ts, Less(new, gs, ts), NEW S, NEW D, Single(gs, S, D),
           NEW R, Gone(gs, S, D, R), NEW left,
           \A t \in R : t \in left \/ (t \in ts /\ (OneRow(gs, t) => t \notin OnModel(new)))
    PROVE  Gone(new, S, D, left)
<1>1. \A t : t \notin D => OneRow(gs, t)
  BY SingleIsApart
<1>2. OnModel(new) \subseteq OnModel(gs)
  BY LessOnModel
<1> QED
  BY <1>1, <1>2 DEF Gone

LEMMA CurrentInLess ==
    ASSUME NEW new, NEW gs, NEW ts, Less(new, gs, ts), NEW S, NEW D, Closed(D), ts \cap S \subseteq D,
           NEW C, Holds(C, S), NEW U, NEW due, U \cap S \subseteq due, Current(gs, S, D, U, C)
    PROVE  Current(new, S, D, due, C)
<1>1. PICK p : LessBy(new, gs, ts, p)
  BY DEF Less
<1>2. \A x \in DOMAIN new :
         /\ p[x] \in DOMAIN gs
         /\ ThreadsIn(new[x].threads) \subseteq ThreadsIn(gs[p[x]].threads)
         /\ \A copy \in CopiesAmong(gs[p[x]].threads) :
                copy.thread \notin ts => copy \in CopiesAmong(new[x].threads)
  BY <1>1, ThreadsOfCopies DEF LessBy
<1>3. ASSUME NEW x \in DOMAIN new, NEW t \in (ThreadsIn(new[x].threads) \cap S) \ D,
             NEW copy \in C, SameConversation(t, copy.thread)
      PROVE  copy \in BareIn(new[x].threads) \/ copy.thread \in due
  <2>1. copy.thread \in S
    BY DEF Holds
  <2>2. copy.thread \notin ts
    <3>1. copy.thread \in D <=> t \in D
      BY <1>3 DEF Closed
    <3> QED
      BY <2>1, <3>1
  <2>3. copy \in BareIn(gs[p[x]].threads) \/ copy.thread \in U
    BY <1>2, <1>3 DEF Current
  <2>4. CASE copy \in BareIn(gs[p[x]].threads)
    <3>1. PICK old \in CopiesAmong(gs[p[x]].threads) : copy = Bare(old)
      BY <2>4 DEF BareIn
    <3>2. copy.thread = old.thread
      BY <3>1 DEF Bare
    <3>3. old \in CopiesAmong(new[x].threads)
      BY <1>2, <2>2, <3>2
    <3> QED
      BY <3>1, <3>3 DEF BareIn
  <2> QED
    BY <2>1, <2>3, <2>4
<1> QED
  BY <1>3 DEF Current

LEMMA SingleInLess ==
    ASSUME NEW new, NEW gs, NEW ts, Less(new, gs, ts), NEW S, NEW D, Single(gs, S, D)
    PROVE  Single(new, S, D)
<1>1. PICK p : LessBy(new, gs, ts, p)
  BY DEF Less
<1>2. /\ \A x \in DOMAIN new : /\ p[x] \in DOMAIN gs
                               /\ ThreadsIn(new[x].threads) \subseteq ThreadsIn(gs[p[x]].threads)
      /\ \A x, y \in DOMAIN new : p[x] = p[y] => x = y
  BY <1>1, ThreadsOfCopies DEF LessBy
<1>3. ASSUME NEW x \in DOMAIN new, NEW y \in DOMAIN new, x # y,
             NEW t \in ThreadsIn(new[x].threads), NEW u \in ThreadsIn(new[y].threads),
             SameConversation(t, u), t \notin D
      PROVE  t # u /\ ~({t, u} \subseteq S)
  <2>1. /\ p[x] \in DOMAIN gs /\ p[y] \in DOMAIN gs /\ p[x] # p[y]
        /\ t \in ThreadsIn(gs[p[x]].threads) /\ u \in ThreadsIn(gs[p[y]].threads)
    BY <1>2, <1>3
  <2> QED
    BY <1>3, <2>1 DEF Single
<1> QED
  BY <1>3 DEF Single

LEMMA ReachedInLess ==
    ASSUME NEW new, NEW gs, NEW ts, Less(new, gs, ts), NEW S, NEW D, ts \cap S \subseteq D,
           NEW U, NEW due, U \cap S \subseteq due, NEW K, NEW P, Reached(gs, S, D, U, K, P)
    PROVE  Reached(new, S, D, due, K, P)
<1>1. OnModel(gs) \ ts \subseteq OnModel(new)
  BY LessOnModel
<1>2. ASSUME NEW t \in S \ (K \cup D)
      PROVE  t \in OnModel(new) \/ (\E u \in due \cap S : SameConversation(t, u)) \/ t \in P
  <2>1. t \notin ts
    OBVIOUS
  <2>2. t \in OnModel(gs) \/ (\E u \in U \cap S : SameConversation(t, u)) \/ t \in P
    BY DEF Reached
  <2> QED
    BY <1>1, <2>1, <2>2
<1> QED
  BY <1>2 DEF Reached

-----------------------------------------------------------------------------
(* Rows among which a conversation was placed                              *)

\* The copies are the whole conversation of t.
WholeOf(copies, t, S, C) ==
    /\ t \in S
    /\ ThreadsIn(copies) = {u \in S : SameConversation(t, u)}
    /\ BareIn(copies) = {copy \in C : SameConversation(t, copy.thread)}

LEMMA OneClassInPlace ==
    ASSUME NumbersMatch, NEW new, NEW gs, NEW copies, Placed(new, gs, copies), OneClass(gs),
           NEW t, NEW S, NEW C, WholeOf(copies, t, S, C)
    PROVE  OneClass(new)
<1>1. PICK k, p : PlacedAt(new, gs, copies, k, p)
  BY DEF Placed
<1>2. /\ \A x \in DOMAIN new \ {k} : p[x] \in DOMAIN gs /\ new[x].threads = gs[p[x]].threads
      /\ ThreadsIn(new[k].threads) = ThreadsIn(copies)
  BY <1>1 DEF PlacedAt
<1>3. ASSUME NEW u \in ThreadsIn(copies), NEW v \in ThreadsIn(copies) PROVE SameConversation(u, v)
  <2>1. SameConversation(t, u) /\ SameConversation(t, v)
    BY DEF WholeOf
  <2>2. SameConversation(u, t)
    BY <2>1, SameIsEquivalence
  <2> QED
    BY <2>1, <2>2, SameIsEquivalence
<1> QED
  BY <1>2, <1>3 DEF OneClass

\* What is known of the rows: t has a thread of its conversation in row k only.
Places(new, gs, copies, t, S, D, k, p) ==
    /\ k \in DOMAIN new
    /\ \A x, y \in DOMAIN new : p[x] = p[y] => x = y
    /\ \A x \in DOMAIN new \ {k} : p[x] \in DOMAIN gs /\ new[x].threads = gs[p[x]].threads
    /\ \A y \in DOMAIN gs : \E x \in DOMAIN new : p[x] = y
    /\ ThreadsIn(new[k].threads) = ThreadsIn(copies) /\ BareIn(new[k].threads) = BareIn(copies)
    /\ p[k] \in DOMAIN gs => \E v \in ThreadsIn(gs[p[k]].threads) : v \in ThreadsIn(copies)
    /\ \A x \in DOMAIN new \ {k} : \A u \in ThreadsIn(new[x].threads) :
           SameConversation(t, u) => u \notin S \/ u \in D

LEMMA PlaceIs ==
    ASSUME NumbersMatch, NEW new, NEW gs, RowsOK(gs), NEW copies, Placed(new, gs, copies),
           NEW t, NEW S, NEW C, WholeOf(copies, t, S, C), NEW D, Single(gs, S, D)
    PROVE  \E k, p : Places(new, gs, copies, t, S, D, k, p)
<1>1. PICK k, p : PlacedAt(new, gs, copies, k, p)
  BY DEF Placed
<1>2. /\ k \in DOMAIN new
      /\ \A x, y \in DOMAIN new : p[x] = p[y] => x = y
      /\ \A x \in DOMAIN new \ {k} : p[x] \in DOMAIN gs /\ new[x].threads = gs[p[x]].threads
      /\ \A y \in DOMAIN gs : \E x \in DOMAIN new : p[x] = y
      /\ ThreadsIn(new[k].threads) = ThreadsIn(copies) /\ BareIn(new[k].threads) = BareIn(copies)
      /\ \/ Rows(gs, ThreadsIn(copies)) = {} /\ p[k] = 0
         \/ p[k] \in Rows(gs, ThreadsIn(copies))
  BY <1>1 DEF PlacedAt
<1>3. 0 \notin DOMAIN gs
  BY RowsAre DEF RowsOK
<1>4. p[k] \in DOMAIN gs => \E v \in ThreadsIn(gs[p[k]].threads) : v \in ThreadsIn(copies)
  BY <1>2, <1>3 DEF Rows
<1>5. ASSUME NEW x \in DOMAIN new \ {k}, NEW u \in ThreadsIn(new[x].threads),
             SameConversation(t, u), u \in S, u \notin D
      PROVE  FALSE
  <2>1. p[x] \in DOMAIN gs /\ u \in ThreadsIn(gs[p[x]].threads) /\ p[x] # p[k]
    BY <1>2, <1>5
  <2>2. u \in ThreadsIn(copies)
    BY <1>5 DEF WholeOf
  <2>3. p[x] \in Rows(gs, ThreadsIn(copies))
    BY <2>1, <2>2 DEF Rows
  <2>4. p[k] \in DOMAIN gs
    BY <1>2, <2>3 DEF Rows
  <2>5. PICK v \in ThreadsIn(gs[p[k]].threads) : v \in ThreadsIn(copies)
    BY <1>4, <2>4
  <2>6. v \in S /\ SameConversation(t, v)
    BY <2>5 DEF WholeOf
  <2>7. SameConversation(u, t)
    BY <1>5, SameIsEquivalence
  <2>8. SameConversation(u, v)
    BY <2>6, <2>7, SameIsEquivalence
  <2> QED
    BY <1>5, <2>1, <2>4, <2>5, <2>6, <2>8 DEF Single
<1>6. Places(new, gs, copies, t, S, D, k, p)
  BY <1>2, <1>4, <1>5 DEF Places
<1> QED
  BY <1>6

LEMMA GoneInPlace ==
    ASSUME NEW new, NEW gs, NEW copies, Placed(new, gs, copies),
           NEW t, NEW S, NEW C, WholeOf(copies, t, S, C), NEW D, NEW R, Gone(gs, S, D, R)
    PROVE  Gone(new, S, D, R)
<1>1. PICK k, p : PlacedAt(new, gs, copies, k, p)
  BY DEF Placed
<1>2. /\ \A x \in DOMAIN new \ {k} : p[x] \in DOMAIN gs /\ new[x].threads = gs[p[x]].threads
      /\ ThreadsIn(new[k].threads) = ThreadsIn(copies)
  BY <1>1 DEF PlacedAt
<1>3. ThreadsIn(copies) \subseteq S
  BY DEF WholeOf
<1>4. OnModel(new) \subseteq OnModel(gs) \cup S
  <2>1. ASSUME NEW x \in DOMAIN new, NEW u \in ThreadsIn(new[x].threads)
        PROVE  u \in OnModel(gs) \cup S
    <3>1. CASE x = k
      BY <1>2, <1>3, <3>1
    <3>2. CASE x # k
      BY <1>2, <3>2 DEF OnModel
    <3> QED
      BY <3>1, <3>2
  <2> QED
    BY <2>1 DEF OnModel
<1> QED
  BY <1>4 DEF Gone

LEMMA CurrentInPlace ==
    ASSUME NumbersMatch, NEW new, NEW gs, NEW copies, NEW t, NEW S, NEW D, Closed(D), NEW C,
           WholeOf(copies, t, S, C), NEW k, NEW p, Places(new, gs, copies, t, S, D, k, p),
           NEW U, NEW due, U \subseteq {t} \cup due, Current(gs, S, D, U, C)
    PROVE  Current(new, S, D, due, C)
<1>1. ASSUME NEW x \in DOMAIN new, NEW u \in (ThreadsIn(new[x].threads) \cap S) \ D,
             NEW copy \in C, SameConversation(u, copy.thread)
      PROVE  copy \in BareIn(new[x].threads) \/ copy.thread \in due
  <2>1. CASE x = k
    <3>1. u \in ThreadsIn(copies) /\ BareIn(new[x].threads) = BareIn(copies)
      BY <2>1 DEF Places
    <3>2. SameConversation(t, u)
      BY <3>1 DEF WholeOf
    <3>3. SameConversation(t, copy.thread)
      BY <1>1, <3>2, SameIsEquivalence
    <3> QED
      BY <3>1, <3>3 DEF WholeOf
  <2>2. CASE x # k
    <3>1. p[x] \in DOMAIN gs /\ new[x].threads = gs[p[x]].threads
      BY <2>2 DEF Places
    <3>2. copy \in BareIn(gs[p[x]].threads) \/ copy.thread \in U
      BY <1>1, <3>1 DEF Current
    <3>3. ASSUME copy.thread = t PROVE FALSE
      <4>1. SameConversation(t, u)
        BY <1>1, <3>3, SameIsEquivalence
      <4> QED
        BY <2>2, <4>1 DEF Places
    <3> QED
      BY <3>1, <3>2, <3>3
  <2> QED
    BY <2>1, <2>2
<1> QED
  BY <1>1 DEF Current

LEMMA SingleInPlace ==
    ASSUME NumbersMatch, NEW new, NEW gs, NEW copies, NEW t, NEW S, NEW D, Closed(D), NEW C,
           WholeOf(copies, t, S, C), NEW k, NEW p, Places(new, gs, copies, t, S, D, k, p),
           Single(gs, S, D)
    PROVE  Single(new, S, D)
<1>1. ASSUME NEW x \in DOMAIN new \ {k}, NEW u \in ThreadsIn(new[x].threads),
             NEW v \in ThreadsIn(copies), SameConversation(u, v) \/ SameConversation(v, u), u \notin D
      PROVE  u \notin S
  <2>1. SameConversation(t, v)
    BY DEF WholeOf
  <2>2. SameConversation(v, u)
    BY <1>1, SameIsEquivalence
  <2>3. SameConversation(t, u)
    BY <2>1, <2>2, SameIsEquivalence
  <2> QED
    BY <1>1, <2>3 DEF Places
<1>2. ASSUME NEW x \in DOMAIN new, NEW y \in DOMAIN new, x # y,
             NEW u \in ThreadsIn(new[x].threads), NEW v \in ThreadsIn(new[y].threads),
             SameConversation(u, v), u \notin D
      PROVE  u # v /\ ~({u, v} \subseteq S)
  <2>0. v \notin D /\ ThreadsIn(copies) \subseteq S /\ ThreadsIn(new[k].threads) = ThreadsIn(copies)
    BY <1>2 DEF Closed, WholeOf, Places
  <2>1. CASE x = k
    <3>1. u \in S /\ v \notin S
      BY <1>1, <1>2, <2>0, <2>1
    <3> QED
      BY <3>1
  <2>2. CASE y = k
    <3>1. v \in S /\ u \notin S
      BY <1>1, <1>2, <2>0, <2>2
    <3> QED
      BY <3>1
  <2>3. CASE x # k /\ y # k
    <3>1. /\ p[x] \in DOMAIN gs /\ new[x].threads = gs[p[x]].threads
          /\ p[y] \in DOMAIN gs /\ new[y].threads = gs[p[y]].threads
          /\ p[x] # p[y]
      BY <1>2, <2>3 DEF Places
    <3> QED
      BY <1>2, <3>1 DEF Single
  <2> QED
    BY <2>1, <2>2, <2>3
<1> QED
  BY <1>2 DEF Single

LEMMA ReachedInPlace ==
    ASSUME NumbersMatch, NEW new, NEW gs, OneClass(gs), NEW copies, NEW t, NEW S, NEW D, NEW C,
           WholeOf(copies, t, S, C), NEW k, NEW p, Places(new, gs, copies, t, S, D, k, p),
           NEW U, NEW due, U \subseteq {t} \cup due, NEW K, NEW P, Reached(gs, S, D, U, K, P)
    PROVE  Reached(new, S, D, due, K, P)
<1>1. ASSUME NEW u \in S, SameConversation(t, u) PROVE u \in OnModel(new)
  <2>1. u \in ThreadsIn(new[k].threads) /\ k \in DOMAIN new
    BY <1>1 DEF WholeOf, Places
  <2> QED
    BY <2>1 DEF OnModel
<1>2. ASSUME NEW u \in S, u \in OnModel(gs) PROVE u \in OnModel(new)
  <2>1. PICK y \in DOMAIN gs : u \in ThreadsIn(gs[y].threads)
    BY <1>2 DEF OnModel
  <2>2. PICK x \in DOMAIN new : p[x] = y
    BY DEF Places
  <2>3. CASE x # k
    <3>1. u \in ThreadsIn(new[x].threads)
      BY <2>1, <2>2, <2>3 DEF Places
    <3> QED
      BY <3>1 DEF OnModel
  <2>4. CASE x = k
    <3>1. PICK v \in ThreadsIn(gs[y].threads) : v \in ThreadsIn(copies)
      BY <2>2, <2>4 DEF Places
    <3>2. SameConversation(t, v) /\ SameConversation(v, u)
      BY <2>1, <3>1 DEF WholeOf, OneClass
    <3>3. SameConversation(t, u)
      BY <3>2, SameIsEquivalence
    <3> QED
      BY <1>1, <1>2, <3>3
  <2> QED
    BY <2>3, <2>4
<1>3. ASSUME NEW u \in S \ (K \cup D)
      PROVE  u \in OnModel(new) \/ (\E v \in due \cap S : SameConversation(u, v)) \/ u \in P
  <2>1. u \in OnModel(gs) \/ (\E v \in U \cap S : SameConversation(u, v)) \/ u \in P
    BY DEF Reached
  <2>2. CASE \E v \in U \cap S : SameConversation(u, v)
    <3>1. PICK v \in U \cap S : SameConversation(u, v)
      BY <2>2
    <3>2. CASE v = t
      <4>1. SameConversation(t, u)
        BY <3>1, <3>2, SameIsEquivalence
      <4> QED
        BY <1>1, <4>1
    <3> QED
      BY <3>1, <3>2
  <2> QED
    BY <1>2, <2>1, <2>2
<1> QED
  BY <1>3 DEF Reached

-----------------------------------------------------------------------------
(* The service goes on                                                     *)

\* The four of them.
Follow(gs, S, D, R, U, C, K, P) ==
    Gone(gs, S, D, R) /\ Current(gs, S, D, U, C) /\ Single(gs, S, D) /\ Reached(gs, S, D, U, K, P)

\* The service has written t, which the model has to ask for.
Grows(gs, t, S, now, D, E, U, due, C, B, P, Q) ==
    /\ now = S \cup {t}
    /\ D \subseteq E /\ Closed(E)
    /\ t \notin S /\ t \in OnModel(gs) => t \in E
    /\ U \cup {t} \subseteq due
    /\ \A copy \in B : copy.thread = t \/ copy \in C
    /\ \A u \in P : SameConversation(t, u) \/ u \in Q

LEMMA RowsWhenWritten ==
    ASSUME NumbersMatch, NEW gs, NEW t, NEW S, NEW now, NEW D, NEW E, NEW R, NEW U, NEW due,
           NEW C, NEW B, NEW K, NEW P, NEW Q, Grows(gs, t, S, now, D, E, U, due, C, B, P, Q),
           Follow(gs, S, D, R, U, C, K, P)
    PROVE  Follow(gs, now, E, R, due, B, K, Q)
<1>0. /\ now = S \cup {t} /\ D \subseteq E /\ Closed(E)
      /\ t \notin S /\ t \in OnModel(gs) => t \in E
      /\ U \cup {t} \subseteq due
      /\ \A copy \in B : copy.thread = t \/ copy \in C
      /\ \A u \in P : SameConversation(t, u) \/ u \in Q
      /\ Gone(gs, S, D, R) /\ Current(gs, S, D, U, C) /\ Single(gs, S, D) /\ Reached(gs, S, D, U, K, P)
  BY DEF Grows, Follow
<1>1. Gone(gs, now, E, R)
  BY <1>0 DEF Gone
<1>2. \A i \in DOMAIN gs : ThreadsIn(gs[i].threads) \subseteq OnModel(gs)
  BY <1>0 DEF OnModel
<1>3. Current(gs, now, E, due, B)
  <2>1. ASSUME NEW i \in DOMAIN gs, NEW u \in (ThreadsIn(gs[i].threads) \cap now) \ E,
               NEW copy \in B, SameConversation(u, copy.thread)
        PROVE  copy \in BareIn(gs[i].threads) \/ copy.thread \in due
    <3>1. u \in S /\ u \notin D
      BY <1>0, <1>2
    <3>2. copy \in C => copy \in BareIn(gs[i].threads) \/ copy.thread \in U
      BY <1>0, <2>1, <3>1 DEF Current
    <3> QED
      BY <1>0, <3>2
  <2> QED
    BY <1>0, <2>1 DEF Current
<1>4. Single(gs, now, E)
  <2>1. ASSUME NEW i \in DOMAIN gs, NEW j \in DOMAIN gs, i # j,
               NEW u \in ThreadsIn(gs[i].threads), NEW v \in ThreadsIn(gs[j].threads),
               SameConversation(u, v), u \notin E
        PROVE  u # v /\ ~({u, v} \subseteq now)
    <3>1. u # v /\ ~({u, v} \subseteq S)
      BY <1>0, <2>1 DEF Single
    <3>2. v \notin E
      BY <1>0, <2>1 DEF Closed
    <3>3. u \in now => u \in S
      BY <1>0, <1>2, <2>1
    <3>4. v \in now => v \in S
      BY <1>0, <1>2, <3>2
    <3> QED
      BY <1>0, <3>1, <3>3, <3>4
  <2> QED
    BY <1>0, <2>1 DEF Single
<1>5. Reached(gs, now, E, due, K, Q)
  <2>1. ASSUME NEW u \in now \ (K \cup E)
        PROVE  u \in OnModel(gs) \/ (\E v \in due \cap now : SameConversation(u, v)) \/ u \in Q
    <3>0. t \in due \cap now
      BY <1>0
    <3>1. CASE u \in S
      <4>1. u \in OnModel(gs) \/ (\E v \in U \cap S : SameConversation(u, v)) \/ u \in P
        BY <1>0, <3>1 DEF Reached
      <4>2. CASE u \in P
        <5>1. CASE SameConversation(t, u)
          <6>1. SameConversation(u, t)
            BY <1>0, <5>1, SameIsEquivalence
          <6> QED
            BY <1>0, <3>0, <6>1
        <5> QED
          BY <1>0, <4>2, <5>1
      <4>3. (\E v \in U \cap S : SameConversation(u, v)) => \E v \in due \cap now : SameConversation(u, v)
        BY <1>0
      <4> QED
        BY <1>0, <4>1, <4>2, <4>3
    <3>2. CASE u = t
      <4>1. SameConversation(u, t)
        BY <1>0, <3>2 DEF SameConversation
      <4> QED
        BY <1>0, <3>0, <4>1
    <3> QED
      BY <1>0, <3>1, <3>2
  <2> QED
    BY <1>0, <2>1 DEF Reached
<1> QED
  BY <1>0, <1>1, <1>3, <1>4, <1>5 DEF Follow

\* The service has removed t, of whose conversation L is skipped if t has no row.
Shrinks(gs, t, S, now, D, R, gone, C, B, K, L, P, Q) ==
    /\ t \in S /\ now = S \ {t}
    /\ Closed(D)
    /\ gone = R \cup {t}
    /\ Holds(C, S) /\ B \subseteq C
    /\ K \subseteq L
    /\ t \notin OnModel(gs) => \A u \in now : SameConversation(t, u) => u \in L
    /\ \A u \in P : SameConversation(t, u) \/ u \in Q

LEMMA RowsWhenRemoved ==
    ASSUME NumbersMatch, NEW gs, NEW t, NEW S, NEW now, NEW D, NEW R, NEW gone, NEW U,
           NEW C, NEW B, NEW K, NEW L, NEW P, NEW Q,
           Shrinks(gs, t, S, now, D, R, gone, C, B, K, L, P, Q),
           Follow(gs, S, D, R, U, C, K, P)
    PROVE  Follow(gs, now, D, gone, U, B, L, Q)
<1>0. /\ t \in S /\ now = S \ {t} /\ Closed(D) /\ gone = R \cup {t}
      /\ Holds(C, S) /\ B \subseteq C /\ K \subseteq L
      /\ t \notin OnModel(gs) => \A u \in now : SameConversation(t, u) => u \in L
      /\ \A u \in P : SameConversation(t, u) \/ u \in Q
      /\ Gone(gs, S, D, R) /\ Current(gs, S, D, U, C) /\ Single(gs, S, D) /\ Reached(gs, S, D, U, K, P)
  BY DEF Shrinks, Follow
<1>1. Gone(gs, now, D, gone)
  BY <1>0 DEF Gone
<1>2. Current(gs, now, D, U, B)
  BY <1>0 DEF Current
<1>3. Single(gs, now, D)
  BY <1>0 DEF Single
<1>4. ASSUME NEW u \in now \ (L \cup D), SameConversation(t, u)
      PROVE  u \in OnModel(gs) \/ u \in U
  <2>1. PICK i \in DOMAIN gs : t \in ThreadsIn(gs[i].threads)
    BY <1>0, <1>4 DEF OnModel
  <2>2. t \notin D
    BY <1>0, <1>4 DEF Closed
  <2>3. PICK copy \in C : copy.thread = u
    BY <1>0 DEF Holds
  <2>4. copy \in BareIn(gs[i].threads) \/ u \in U
    BY <1>0, <1>4, <2>1, <2>2, <2>3 DEF Current
  <2>5. ASSUME copy \in BareIn(gs[i].threads) PROVE u \in OnModel(gs)
    <3>1. PICK old \in CopiesAmong(gs[i].threads) : copy = Bare(old)
      BY <1>0, <2>5 DEF BareIn
    <3>2. old.thread = u
      BY <1>0, <2>3, <3>1 DEF Bare
    <3>3. u \in ThreadsIn(gs[i].threads)
      BY <1>0, <3>2, ThreadsOfCopies
    <3> QED
      BY <1>0, <3>3 DEF OnModel
  <2> QED
    BY <1>0, <2>4, <2>5
<1>5. ASSUME NEW u \in now \ (L \cup D)
      PROVE  u \in OnModel(gs) \/ (\E v \in U \cap now : SameConversation(u, v)) \/ u \in Q
  <2>1. CASE SameConversation(t, u)
    <3>1. u \in OnModel(gs) \/ u \in U
      BY <1>0, <1>4, <2>1
    <3>2. SameConversation(u, u)
      BY <1>0 DEF SameConversation
    <3> QED
      BY <1>0, <3>1, <3>2
  <2>2. CASE ~SameConversation(t, u)
    <3>1. u \in OnModel(gs) \/ (\E v \in U \cap S : SameConversation(u, v)) \/ u \in P
      BY <1>0, <1>5 DEF Reached
    <3>2. CASE \E v \in U \cap S : SameConversation(u, v)
      <4>1. PICK v \in U \cap S : SameConversation(u, v)
        BY <1>0, <3>2
      <4>2. v # t
        BY <1>0, <2>2, <4>1, SameIsEquivalence
      <4> QED
        BY <1>0, <4>1, <4>2
    <3> QED
      BY <1>0, <2>2, <3>1, <3>2
  <2> QED
    BY <1>0, <2>1, <2>2
<1>6. Reached(gs, now, D, U, L, Q)
  BY <1>0, <1>5 DEF Reached
<1> QED
  BY <1>0, <1>1, <1>2, <1>3, <1>6 DEF Follow

\* More is to come to rows that have the same copies.
SameCopies(new, gs) ==
    /\ DOMAIN new = DOMAIN gs
    /\ \A i \in DOMAIN gs : /\ ThreadsIn(new[i].threads) = ThreadsIn(gs[i].threads)
                            /\ BareIn(new[i].threads) = BareIn(gs[i].threads)

LEMMA RowsOfSameCopies ==
    ASSUME NEW new, NEW gs, SameCopies(new, gs), NEW S, NEW D, NEW R, NEW U, NEW due, U \subseteq due,
           NEW C, NEW K, NEW P, NEW Q,
           \A u \in P \cap S : u \in Q \/ \E v \in due \cap S : SameConversation(u, v)
    PROVE  /\ OneClass(gs) => OneClass(new)
           /\ Follow(gs, S, D, R, U, C, K, P) => Follow(new, S, D, R, due, C, K, Q)
<1>1. OnModel(new) = OnModel(gs)
  BY DEF OnModel, SameCopies
<1>2. OneClass(gs) => OneClass(new)
  BY DEF OneClass, SameCopies
<1>3. Gone(gs, S, D, R) => Gone(new, S, D, R)
  BY <1>1 DEF Gone
<1>4. ASSUME Current(gs, S, D, U, C),
             NEW i \in DOMAIN new, NEW t \in (ThreadsIn(new[i].threads) \cap S) \ D,
             NEW copy \in C, SameConversation(t, copy.thread)
      PROVE  copy \in BareIn(new[i].threads) \/ copy.thread \in due
  <2>1. i \in DOMAIN gs /\ t \in (ThreadsIn(gs[i].threads) \cap S) \ D
        /\ BareIn(new[i].threads) = BareIn(gs[i].threads)
    BY DEF SameCopies
  <2>2. copy \in BareIn(gs[i].threads) \/ copy.thread \in U
    BY <1>4, <2>1 DEF Current
  <2> QED
    BY <2>1, <2>2
<1>5. Current(gs, S, D, U, C) => Current(new, S, D, due, C)
  BY <1>4 DEF Current
<1>6. ASSUME Single(gs, S, D), NEW i \in DOMAIN new, NEW j \in DOMAIN new, i # j,
             NEW t \in ThreadsIn(new[i].threads), NEW u \in ThreadsIn(new[j].threads),
             SameConversation(t, u), t \notin D
      PROVE  t # u /\ ~({t, u} \subseteq S)
  <2>1. /\ i \in DOMAIN gs /\ j \in DOMAIN gs /\ t \in ThreadsIn(gs[i].threads)
        /\ u \in ThreadsIn(gs[j].threads)
    BY DEF SameCopies
  <2> QED
    BY <1>6, <2>1 DEF Single
<1>7. Single(gs, S, D) => Single(new, S, D)
  BY <1>6 DEF Single
<1>8. ASSUME Reached(gs, S, D, U, K, P), NEW t \in S \ (K \cup D)
      PROVE  t \in OnModel(new) \/ (\E u \in due \cap S : SameConversation(t, u)) \/ t \in Q
  <2>1. t \in OnModel(gs) \/ (\E u \in U \cap S : SameConversation(t, u)) \/ t \in P
    BY <1>8 DEF Reached
  <2> QED
    BY <1>1, <2>1
<1>9. Reached(gs, S, D, U, K, P) => Reached(new, S, D, due, K, Q)
  BY <1>8 DEF Reached
<1> QED
  BY <1>2, <1>3, <1>5, <1>7, <1>9 DEF Follow

-----------------------------------------------------------------------------
(* The invariant                                                           *)

Due == Announced("threadsAdded") \cup Announced("threadsModified") \cup Asked
ToCome == {t \in Threads : keys[t] \in Range(view.rest)}

\* The rows follow the service.
Follows ==
    /\ Follow(groups, Stored, Disturbed, Announced("threadsRemoved"), Due, CopiesOf(Cache), skipped, ToCome)
    /\ returned = {} => InDescent(groups)

FollowInv ==
    /\ OneClass(groups)
    /\ Stored \cap Announced("threadsRemoved") \subseteq returned
    /\ Attuned => Follows

LEMMA DisturbedAre ==
    ASSUME NumbersMatch
    PROVE  /\ Closed(Disturbed) /\ (returned \subseteq Threads => returned \subseteq Disturbed)
           /\ Closed(Disturbed') /\ (returned' \subseteq Threads => returned' \subseteq Disturbed')
           /\ returned \subseteq returned' => Disturbed \subseteq Disturbed'
           /\ returned' = returned => Disturbed' = Disturbed
           /\ returned = {} => Disturbed = {}
<1>1. ASSUME NEW back, NEW these, these = {t \in Threads : \E u \in back : SameConversation(t, u)}
      PROVE  Closed(these) /\ (back \subseteq Threads => back \subseteq these)
  <2>1. ASSUME NEW t, NEW u, SameConversation(t, u), t \in these PROVE u \in these
    <3>1. PICK v \in back : SameConversation(t, v)
      BY <1>1, <2>1
    <3>2. SameConversation(u, v)
      <4>1. SameConversation(u, t)
        BY <2>1, SameIsEquivalence
      <4> QED
        BY <3>1, <4>1, SameIsEquivalence
    <3>3. u \in Threads
      BY <1>1, <2>1, CacheAssumption DEF SameConversation
    <3> QED
      BY <1>1, <3>1, <3>2, <3>3
  <2>2. ASSUME NEW t, NEW u, SameConversation(t, u) PROVE t \in these <=> u \in these
    <3>1. SameConversation(u, t)
      BY <2>2, SameIsEquivalence
    <3> QED
      BY <2>1, <2>2, <3>1
  <2>3. \A t : SameConversation(t, t)
    BY DEF SameConversation
  <2> QED
    BY <1>1, <2>2, <2>3 DEF Closed
<1> QED
  BY <1>1 DEF Disturbed

LEMMA AttunedIs ==
    /\ Attuned <=> daemon = "up" /\ view.connected /\ ~update /\ Calm(inbox)
    /\ Attuned' <=> daemon' = "up" /\ view'.connected /\ ~update' /\ Calm(inbox')
  BY DEF Attuned, Calm, Bus

LEMMA FollowInitially == GroupedInit => FollowInv
<1> SUFFICES ASSUME GroupedInit PROVE FollowInv
  OBVIOUS
<1>1. groups = <<>> /\ daemon = "starting" /\ pending = NothingPending /\ inbox = <<>>
  BY DEF GroupedInit, SignalQueueInit
<1>2. OneClass(groups)
  BY <1>1 DEF OneClass
<1>3. Announced("threadsRemoved") = {}
  BY <1>1, NothingIsPending DEF Announced, SignalNames
<1>4. ~Attuned
  BY <1>1 DEF Attuned
<1> QED
  BY <1>2, <1>3, <1>4 DEF FollowInv

\* What is on its way, and the rows, stay as they are.
LEMMA FollowUnmoved ==
    ASSUME NumbersMatch, FollowInv, UNCHANGED vars, daemon' = daemon,
           UNCHANGED <<view, groups, update, calls, returned, skipped>>,
           \A name \in SignalNames : Announced(name)' = Announced(name),
           Calm(inbox') => Calm(inbox)
    PROVE  FollowInv'
<1>1. /\ Stored' = Stored /\ Cache' = Cache /\ keys' = keys /\ daemon' = daemon
      /\ Disturbed' = Disturbed
  BY DisturbedAre DEF vars, Stored, Cache
<1>2. Asked' = Asked /\ ToCome' = ToCome
  BY <1>1 DEF Asked, ToCome
<1>3. /\ Announced("threadsRemoved")' = Announced("threadsRemoved")
      /\ Due' = Due
  BY <1>2 DEF Due, SignalNames
<1>4. Attuned' => Attuned
  BY <1>1, AttunedIs
<1>5. Follows => Follows'
  BY <1>1, <1>2, <1>3 DEF Follows
<1> QED
  BY <1>1, <1>3, <1>4, <1>5 DEF FollowInv

\* The rows follow another service now, or none.
LEMMA FollowUntuned ==
    ASSUME FollowInv, groups' = groups, Stored' = Stored, returned' = returned,
           Announced("threadsRemoved")' \subseteq Announced("threadsRemoved"), ~Attuned'
    PROVE  FollowInv'
  BY DEF FollowInv

LEMMA FollowWhenWritten ==
    ASSUME NumbersMatch, TInv, FollowInv, NEW t \in Threads, NEW time \in Stamps,
           Create(t, time) \/ Update(t, time)
    PROVE  FollowInv'
<1>1. Wrote(t)
  BY ThreadIsWritten DEF Create, Update, TInv
<1>2. PICK name \in {"threadsAdded", "threadsModified"} : Notify(Lists(name, t))
  BY DEF Create, Update
<1>3. /\ inbox' = inbox
      /\ \A one \in SignalNames : Announced(one)' = Announced(one) \cup (IF one = name THEN {t} ELSE {})
  <2>1. name \in SignalNames
    BY DEF SignalNames
  <2> QED
    BY <1>2, <2>1, NotifiedOf DEF TInv
<1>4. /\ groups' = groups /\ view' = view /\ update' = update /\ daemon' = daemon /\ calls' = calls
      /\ skipped' = skipped /\ returned \subseteq returned'
  BY DEF Create, Update, Works, model
<1>5. /\ Announced("threadsRemoved")' = Announced("threadsRemoved")
      /\ Due \cup {t} \subseteq Due'
  <2>1. Asked' = Asked
    BY <1>4 DEF Asked
  <2> QED
    BY <1>3, <2>1 DEF Due, SignalNames
<1>6. t \notin Stored => (t \in Announced("threadsRemoved") => t \in returned')
  BY DEF Create, Update, UpdateThread
<1>7. (Stored \cap Announced("threadsRemoved") \subseteq returned)'
  BY <1>1, <1>4, <1>5, <1>6 DEF FollowInv, Wrote
<1>8. returned' \subseteq Threads
  BY DEF Create, Update, TInv, QueueInv
<1>9. ASSUME Follows PROVE Follows'
  <2>1. t \notin Stored /\ t \in OnModel(groups) => t \in Disturbed'
    <3>1. OnModel(groups) \ (Disturbed \cup Stored) \subseteq Announced("threadsRemoved")
      BY <1>9 DEF Follows, Follow, Gone
    <3> QED
      BY <1>4, <1>6, <1>8, <3>1, DisturbedAre
  <2>2. \A u \in ToCome : SameConversation(t, u) \/ u \in ToCome'
    BY <1>1, <1>4 DEF ToCome, Wrote, Elsewhere, Cache
  <2>3. Grows(groups, t, Stored, Stored', Disturbed, Disturbed', Due, Due',
              CopiesOf(Cache), CopiesOf(Cache'), ToCome, ToCome')
    BY <1>1, <1>4, <1>5, <2>1, <2>2, DisturbedAre DEF Wrote, Grows
  <2>5. Follow(groups, Stored', Disturbed', Announced("threadsRemoved"), Due', CopiesOf(Cache'),
               skipped, ToCome')
    BY <1>9, <2>3, RowsWhenWritten DEF Follows
  <2>6. returned' = {} => InDescent(groups')
    BY <1>4, <1>9 DEF Follows
  <2> QED
    BY <1>4, <1>5, <2>5, <2>6 DEF Follows
<1>10. Attuned' => Attuned
  BY <1>3, <1>4, AttunedIs
<1> QED
  BY <1>4, <1>7, <1>9, <1>10 DEF FollowInv

LEMMA FollowWhenRemoved ==
    ASSUME NumbersMatch, TInv, FollowInv, NEW t \in Threads, Delete(t)
    PROVE  FollowInv'
<1>1. Removes(t)
  BY ThreadIsRemoved DEF Delete, TInv
<1>2. /\ inbox' = inbox
      /\ \A one \in SignalNames :
            Announced(one)' = Announced(one) \cup (IF one = "threadsRemoved" THEN {t} ELSE {})
  <2>1. "threadsRemoved" \in SignalNames
    BY DEF SignalNames
  <2>2. Notify(Lists("threadsRemoved", t))
    BY DEF Delete
  <2> QED
    BY <2>1, <2>2, NotifiedOf DEF TInv
<1>3. /\ groups' = groups /\ view' = view /\ update' = update /\ daemon' = daemon /\ calls' = calls
      /\ returned' = returned /\ skipped \subseteq skipped'
      /\ t \notin OnModel(groups) => ThreadsIn(conversations[keys[t]]) \ {t} \subseteq skipped'
  BY DEF Delete, Works, model
<1>4. /\ Announced("threadsRemoved")' = Announced("threadsRemoved") \cup {t}
      /\ Due' = Due
  <2>1. Asked' = Asked
    BY <1>3 DEF Asked
  <2> QED
    BY <1>2, <2>1 DEF Due, SignalNames
<1>5. (Stored \cap Announced("threadsRemoved") \subseteq returned)'
  BY <1>1, <1>3, <1>4 DEF FollowInv, Removes
<1>6. t \in Stored /\ Ready
  BY DEF Delete, RemoveThread, Works, TInv, ServiceInv
<1>7. Holds(CopiesOf(Cache), Stored) /\ ConversationFacts(t)
  BY <1>6, LoadedCache DEF TInv, Holds
<1>8. ThreadsIn(conversations[keys[t]]) = {u \in Stored : SameConversation(t, u)}
  BY <1>7 DEF ConversationFacts, At, Cache
<1>9. ASSUME Follows PROVE Follows'
  <2>1. t \notin OnModel(groups) => \A u \in Stored' : SameConversation(t, u) => u \in skipped'
    BY <1>1, <1>3, <1>8 DEF Removes
  <2>2. \A u \in ToCome : SameConversation(t, u) \/ u \in ToCome'
    BY <1>1, <1>3 DEF ToCome, Removes, Elsewhere, Cache
  <2>3. Closed(Disturbed) /\ Disturbed' = Disturbed
    BY <1>3, DisturbedAre
  <2>4. Shrinks(groups, t, Stored, Stored', Disturbed, Announced("threadsRemoved"),
                Announced("threadsRemoved")', CopiesOf(Cache), CopiesOf(Cache'), skipped, skipped',
                ToCome, ToCome')
    BY <1>1, <1>3, <1>4, <1>6, <1>7, <2>1, <2>2, <2>3 DEF Removes, Shrinks
  <2>6. Follow(groups, Stored', Disturbed, Announced("threadsRemoved")', Due, CopiesOf(Cache'),
               skipped', ToCome')
    BY <1>9, <2>4, RowsWhenRemoved DEF Follows
  <2> QED
    BY <1>3, <1>4, <1>9, <2>3, <2>6 DEF Follows
<1>10. Attuned' => Attuned
  BY <1>2, <1>3, AttunedIs
<1> QED
  BY <1>3, <1>5, <1>9, <1>10 DEF FollowInv

\* The rows have lost ts, whose removal need not be handled any longer.
Loses(new, gs, ts, S, D, R, left, U, due, C) ==
    /\ Less(new, gs, ts)
    /\ Closed(D) /\ ts \cap S \subseteq D
    /\ Holds(C, S)
    /\ U \cap S \subseteq due
    /\ \A t \in R : t \in left \/ (t \in ts /\ (OneRow(gs, t) => t \notin OnModel(new)))

LEMMA FollowInLess ==
    ASSUME NEW new, NEW gs, NEW ts, NEW S, NEW D, NEW R, NEW left, NEW U, NEW due, NEW C, NEW K, NEW P,
           Loses(new, gs, ts, S, D, R, left, U, due, C), Follow(gs, S, D, R, U, C, K, P)
    PROVE  Follow(new, S, D, left, due, C, K, P)
<1>0. /\ Less(new, gs, ts) /\ Closed(D) /\ ts \cap S \subseteq D /\ Holds(C, S) /\ U \cap S \subseteq due
      /\ \A t \in R : t \in left \/ (t \in ts /\ (OneRow(gs, t) => t \notin OnModel(new)))
      /\ Gone(gs, S, D, R) /\ Current(gs, S, D, U, C) /\ Single(gs, S, D) /\ Reached(gs, S, D, U, K, P)
  BY DEF Loses, Follow
<1>1. Gone(new, S, D, left)
  BY ONLY <1>0, GoneInLess
<1>2. Current(new, S, D, due, C)
  BY ONLY <1>0, CurrentInLess
<1>3. Single(new, S, D)
  BY ONLY <1>0, SingleInLess
<1>4. Reached(new, S, D, due, K, P)
  BY ONLY <1>0, ReachedInLess
<1> QED
  BY <1>1, <1>2, <1>3, <1>4 DEF Follow

\* The conversation of t, which was due, has been placed.
Gains(new, gs, copies, t, S, D, U, due, C) ==
    /\ Placed(new, gs, copies)
    /\ WholeOf(copies, t, S, C)
    /\ Closed(D)
    /\ U \subseteq {t} \cup due

LEMMA FollowInPlace ==
    ASSUME NumbersMatch, NEW new, NEW gs, RowsOK(gs), OneClass(gs), NEW copies, NEW t, NEW S, NEW D, NEW R,
           NEW U, NEW due, NEW C, NEW K, NEW P,
           Gains(new, gs, copies, t, S, D, U, due, C), Follow(gs, S, D, R, U, C, K, P)
    PROVE  Follow(new, S, D, R, due, C, K, P)
<1>0. /\ Placed(new, gs, copies) /\ WholeOf(copies, t, S, C) /\ Closed(D) /\ U \subseteq {t} \cup due
      /\ Gone(gs, S, D, R) /\ Current(gs, S, D, U, C) /\ Single(gs, S, D) /\ Reached(gs, S, D, U, K, P)
  BY DEF Gains, Follow
<1>1. Gone(new, S, D, R)
  BY ONLY <1>0, GoneInPlace
<1>2. PICK k, p : Places(new, gs, copies, t, S, D, k, p)
  BY ONLY NumbersMatch, RowsOK(gs), <1>0, PlaceIs
<1>3. Current(new, S, D, due, C)
  BY ONLY NumbersMatch, <1>0, <1>2, CurrentInPlace
<1>4. Single(new, S, D)
  BY ONLY NumbersMatch, <1>0, <1>2, SingleInPlace
<1>5. Reached(new, S, D, due, K, P)
  BY ONLY NumbersMatch, OneClass(gs), <1>0, <1>2, ReachedInPlace
<1> QED
  BY <1>1, <1>3, <1>4, <1>5 DEF Follow

\* Rows without disturbed threads are apart.
LEMMA FollowersApart ==
    ASSUME NumbersMatch, NEW gs, NEW S, NEW R, NEW U, NEW C, NEW K, NEW P,
           Follow(gs, S, Disturbed, R, U, C, K, P), returned = {}
    PROVE  Apart(gs)
<1>1. Single(gs, S, {})
  BY DisturbedAre DEF Follow
<1> QED
  BY <1>1, SingleIsApart DEF Apart

LEMMA FollowWhenQueried ==
    ASSUME NumbersMatch, TInv, FollowInv, UpdateQuery
    PROVE  FollowInv'
<1>1. /\ groups' = <<>>
      /\ view'.connected => daemon = "up" /\ Range(view'.rest) = Stored
  BY QueryIsMade DEF TInv
<1>2. /\ UNCHANGED service /\ pending' = pending /\ inbox' = inbox
      /\ returned' = returned \cap Announced("threadsRemoved")
  BY DEF UpdateQuery, Undisturbed
<1>3. Stored' = Stored /\ Cache' = Cache /\ keys' = keys /\ daemon' = daemon
  BY <1>2, SameService
<1>4. Announced("threadsRemoved")' = Announced("threadsRemoved")
  BY <1>2 DEF Announced
<1>5. OneClass(groups')
  BY <1>1 DEF OneClass
<1>6. ASSUME Attuned' PROVE Follows'
  <2>1. view'.connected
    BY <1>6, AttunedIs
  <2>2. Ready /\ Range(view'.rest) = Stored
    BY <1>1, <2>1 DEF TInv, ServiceInv
  <2>3. \A t \in Stored : keys[t] \in Stored
    BY <2>2, LoadedCache DEF TInv, ConversationFacts
  <2>4. Stored' \subseteq ToCome'
    BY <1>3, <2>2, <2>3 DEF ToCome, Stored
  <2>5. OnModel(groups') = {} /\ DOMAIN groups' = {}
    BY <1>1, NoRows
  <2>6. /\ Gone(groups', Stored', Disturbed', Announced("threadsRemoved")')
        /\ Current(groups', Stored', Disturbed', Due', CopiesOf(Cache'))
        /\ Single(groups', Stored', Disturbed')
    BY <2>5 DEF Gone, Current, Single
  <2>7. Reached(groups', Stored', Disturbed', Due', skipped', ToCome')
    BY <2>4 DEF Reached
  <2>8. InDescent(groups')
    <3> PICK gs : gs = groups'
      OBVIOUS
    <3>1. gs \in Seq(RowType) /\ Len(gs) = 0
      BY <1>1, NoRows DEF RowsOK
    <3>2. \A x, y \in 1 .. Len(gs) : x < y => gs[x].shown.time >= gs[y].shown.time
      BY <3>1
    <3>3. InDescent(gs)
      BY <3>1, <3>2, DescentIs
    <3> QED
      BY <3>3
  <2> QED
    BY <2>6, <2>7, <2>8 DEF Follows, Follow
<1> QED
  BY <1>2, <1>3, <1>4, <1>5, <1>6 DEF FollowInv

\* The keys of the pages are the threads of the view's rest.
LEMMA FollowWhenPaged ==
    ASSUME NumbersMatch, TInv, FollowInv, NextPage
    PROVE  FollowInv'
<1>1. /\ UNCHANGED service /\ pending' = pending /\ inbox' = inbox
      /\ groups' = groups /\ returned' = returned /\ skipped' = skipped
  BY DEF NextPage, Undisturbed
<1>2. Stored' = Stored /\ Cache' = Cache /\ keys' = keys /\ daemon' = daemon /\ Disturbed' = Disturbed
  BY <1>1, SameService, DisturbedAre
<1>3. /\ Announced("threadsRemoved")' = Announced("threadsRemoved")
      /\ Announced("threadsAdded")' = Announced("threadsAdded")
      /\ Announced("threadsModified")' = Announced("threadsModified")
  BY <1>1 DEF Announced
<1>4. Asked = {}
  BY DEF Asked, NextPage, TInv, ModelInv
<1>5. Attuned' => Attuned
  BY <1>1, <1>2, PageIsHandled, AttunedIs
<1>6. ASSUME Attuned, Follows PROVE Follows'
  <2>1. Ready
    BY <1>6, AttunedIs DEF TInv, ServiceInv
  <2>2. \A u \in ToCome \cap Stored : u \in ToCome' \/ \E v \in Due' \cap Stored : SameConversation(u, v)
    <3>1. ASSUME NEW u \in ToCome \cap Stored, u \notin ToCome'
          PROVE  keys[u] \in Asked'
      <4>1. u \in Threads /\ keys[u] \in Range(view.rest)
        BY DEF ToCome
      <4>2. conversations[keys[u]] # NoConversation
        BY <2>1, LoadedCache DEF TInv, ConversationFacts
      <4>3. keys[u] \notin Range(view'.rest)
        BY <1>2, <3>1, <4>1 DEF ToCome
      <4>4. view'.rest = view.rest \/ keys[u] \in Asked' \cup Range(view'.rest)
        BY <4>1, <4>2, PageIsHandled
      <4> QED
        BY <4>1, <4>3, <4>4
    <3>2. \A u \in Stored : keys[u] \in Stored /\ SameConversation(u, keys[u])
      BY <2>1, LoadedCache DEF TInv, ConversationFacts
    <3> QED
      BY <3>1, <3>2 DEF Due
  <2>3. Due \subseteq Due'
    BY <1>3, <1>4 DEF Due
  <2>4. SameCopies(groups, groups)
    BY DEF SameCopies
  <2>5. Follow(groups, Stored, Disturbed, Announced("threadsRemoved"), Due', CopiesOf(Cache),
               skipped, ToCome')
    BY <1>6, <2>2, <2>3, <2>4, RowsOfSameCopies DEF Follows
  <2> QED
    BY <1>1, <1>2, <1>3, <1>6, <2>5 DEF Follows
<1> QED
  BY <1>1, <1>2, <1>3, <1>5, <1>6 DEF FollowInv

LEMMA FollowWhenGrouped ==
    ASSUME NumbersMatch, TInv, FollowInv, ProcessThreadGrouping
    PROVE  FollowInv'
<1>1. PICK t : Processes(t)
  BY GroupingIsProcessed
<1>2. /\ UNCHANGED service /\ pending' = pending /\ inbox' = inbox
      /\ view' = view /\ update' = update /\ returned' = returned /\ skipped' = skipped
  BY DEF ProcessThreadGrouping, Undisturbed
<1>3. Stored' = Stored /\ Cache' = Cache /\ keys' = keys /\ daemon' = daemon /\ Disturbed' = Disturbed
  BY <1>2, SameService, DisturbedAre
<1>4. /\ Announced("threadsRemoved")' = Announced("threadsRemoved")
      /\ Announced("threadsAdded")' = Announced("threadsAdded")
      /\ Announced("threadsModified")' = Announced("threadsModified")
  BY <1>2 DEF Announced
<1>5. Due \subseteq {t} \cup Due' /\ ToCome' = ToCome
  BY <1>1, <1>2, <1>3, <1>4 DEF Due, Processes, ToCome
<1>6. Attuned' => Attuned
  BY <1>2, <1>3, AttunedIs
<1>7. Closed(Disturbed) /\ OneClass(groups) /\ RowsOK(groups)
  BY DisturbedAre DEF FollowInv, TInv, ModelInv
<1>8. CASE t \in Stored /\ daemon = "up"
  <2>1. PICK copies : Answered(copies, t) /\ Placed(groups', groups, copies)
    BY <1>1, <1>8 DEF Processes
  <2>2. WholeOf(copies, t, Stored, CopiesOf(Cache))
    BY <1>8, <2>1 DEF Answered, WholeOf
  <2>3. OneClass(groups')
    BY <1>7, <2>1, <2>2, OneClassInPlace
  <2>4. ASSUME Follows PROVE Follows'
    <3>1. Gains(groups', groups, copies, t, Stored, Disturbed, Due, Due', CopiesOf(Cache))
      BY <1>5, <1>7, <2>1, <2>2 DEF Gains
    <3>2. Follow(groups', Stored, Disturbed, Announced("threadsRemoved"), Due', CopiesOf(Cache),
                 skipped, ToCome)
      BY <1>7, <2>4, <3>1, FollowInPlace DEF Follows
    <3>3. returned = {} => InDescent(groups')
      BY <1>1, <1>8, <2>4, FollowersApart DEF Follows, Processes
    <3> QED
      BY <1>2, <1>3, <1>4, <1>5, <3>2, <3>3 DEF Follows
  <2> QED
    BY <1>2, <1>3, <1>4, <1>6, <2>3, <2>4 DEF FollowInv
<1>9. CASE ~(t \in Stored /\ daemon = "up")
  <2>1. LeftWithout(groups', groups, t) /\ (daemon = "up" => t \notin Stored)
    BY <1>1, <1>9 DEF Processes
  <2>2. Less(groups', groups, {t}) /\ (Apart(groups) /\ InDescent(groups) => InDescent(groups'))
    BY <2>1 DEF LeftWithout
  <2>3. OneClass(groups')
    BY <1>7, <2>2, OneClassInLess
  <2>4. ASSUME Follows, Attuned PROVE Follows'
    <3>1. Ready /\ t \notin Stored
      BY <2>1, <2>4, AttunedIs DEF TInv, ServiceInv
    <3>2. Holds(CopiesOf(Cache), Stored)
      BY <3>1, LoadedCache DEF TInv, Holds
    <3>3. Loses(groups', groups, {t}, Stored, Disturbed, Announced("threadsRemoved"),
                Announced("threadsRemoved"), Due, Due', CopiesOf(Cache))
      BY <1>5, <1>7, <2>2, <3>1, <3>2 DEF Loses
    <3>4. Follow(groups', Stored, Disturbed, Announced("threadsRemoved"), Due', CopiesOf(Cache),
                 skipped, ToCome)
      BY <2>4, <3>3, FollowInLess DEF Follows
    <3>5. returned = {} => InDescent(groups')
      BY <2>2, <2>4, FollowersApart DEF Follows
    <3> QED
      BY <1>2, <1>3, <1>4, <1>5, <3>4, <3>5 DEF Follows
  <2> QED
    BY <1>2, <1>3, <1>4, <1>6, <2>3, <2>4 DEF FollowInv
<1> QED
  BY <1>8, <1>9

LEMMA FollowWhenReceived ==
    ASSUME TInv, inbox # <<>>, inbox' = Tail(inbox), pending' = pending, UNCHANGED service,
           view' = view, update' = update, Head(inbox).signal \notin Bus
    PROVE  /\ Attuned' => Attuned
           /\ Stored' = Stored /\ Cache' = Cache /\ keys' = keys /\ ToCome' = ToCome
           /\ Announced("threadsRemoved") =
                 Announced("threadsRemoved")' \cup ToldOf(Head(inbox), "threadsRemoved")
           /\ Announced("threadsAdded") =
                 Announced("threadsAdded")' \cup ToldOf(Head(inbox), "threadsAdded")
           /\ Announced("threadsModified") =
                 Announced("threadsModified")' \cup ToldOf(Head(inbox), "threadsModified")
<1>1. Stored' = Stored /\ Cache' = Cache /\ keys' = keys /\ daemon' = daemon
  BY SameService
<1>2. /\ \A name : Announced(name) = Announced(name)' \cup ToldOf(Head(inbox), name)
      /\ Calm(inbox) <=> Calm(inbox') /\ Head(inbox).signal \notin Bus
  BY MessageIsReceived DEF TInv
<1>3. ToCome' = ToCome
  BY <1>1 DEF ToCome
<1>4. Attuned' => Attuned
  BY <1>1, <1>2, AttunedIs
<1> QED
  BY <1>1, <1>2, <1>3, <1>4

LEMMA FollowWhenChanged ==
    ASSUME NumbersMatch, TInv, FollowInv, OnThreadsChanged
    PROVE  FollowInv'
<1>1. /\ UNCHANGED service /\ pending' = pending /\ inbox # <<>> /\ inbox' = Tail(inbox)
      /\ view' = view /\ update' = update /\ groups' = groups
      /\ returned' = returned /\ skipped' = skipped
  BY DEF OnThreadsChanged, Receive, Undisturbed
<1>2. /\ Head(inbox).signal \in {"threadsAdded", "threadsModified"}
      /\ calls = <<>> /\ Asked' = IF view.connected THEN Range(Head(inbox).items) ELSE {}
  BY ChangesAreHandled
<1>3. Disturbed' = Disturbed
  BY <1>1, DisturbedAre
<1>4. Head(inbox).signal \notin Bus
  BY <1>2 DEF Bus
<1>5. /\ Attuned' => Attuned
      /\ Stored' = Stored /\ Cache' = Cache /\ keys' = keys /\ ToCome' = ToCome
      /\ Announced("threadsRemoved") =
             Announced("threadsRemoved")' \cup ToldOf(Head(inbox), "threadsRemoved")
      /\ Announced("threadsAdded") =
             Announced("threadsAdded")' \cup ToldOf(Head(inbox), "threadsAdded")
      /\ Announced("threadsModified") =
             Announced("threadsModified")' \cup ToldOf(Head(inbox), "threadsModified")
  BY <1>1, <1>4, FollowWhenReceived
<1>6. Announced("threadsRemoved")' = Announced("threadsRemoved")
  BY <1>2, <1>5 DEF ToldOf
<1>7. ASSUME Attuned, Follows PROVE Follows'
  <2>1. Asked = {} /\ view.connected
    BY <1>2, <1>7, AttunedIs DEF Asked
  <2>2. Due \subseteq Due'
    BY <1>2, <1>5, <2>1 DEF Due, ToldOf
  <2>3. SameCopies(groups, groups)
    BY DEF SameCopies
  <2>4. Follow(groups, Stored, Disturbed, Announced("threadsRemoved"), Due', CopiesOf(Cache),
               skipped, ToCome)
    BY <1>7, <2>2, <2>3, RowsOfSameCopies DEF Follows
  <2> QED
    BY <1>1, <1>3, <1>5, <1>6, <1>7, <2>4 DEF Follows
<1> QED
  BY <1>1, <1>5, <1>6, <1>7 DEF FollowInv

LEMMA FollowWhenLess ==
    ASSUME NumbersMatch, TInv, FollowInv, OnThreadsRemoved
    PROVE  FollowInv'
<1>1. /\ UNCHANGED service /\ pending' = pending /\ inbox # <<>> /\ inbox' = Tail(inbox)
      /\ view' = view /\ update' = update /\ calls' = calls
      /\ returned' = returned /\ skipped' = skipped
  BY DEF OnThreadsRemoved, Receive, Undisturbed
<1> PICK ts : ts = Range(Head(inbox).items)
  OBVIOUS
<1>2. Head(inbox).signal = "threadsRemoved" /\ RowsLeave(ts)
  BY RemovalIsHandled
<1>3. Disturbed' = Disturbed /\ Closed(Disturbed) /\ returned \subseteq Disturbed
  BY <1>1, DisturbedAre DEF TInv, QueueInv
<1>4. Head(inbox).signal \notin Bus
  BY <1>2 DEF Bus
<1>5. /\ Attuned' => Attuned
      /\ Stored' = Stored /\ Cache' = Cache /\ keys' = keys /\ ToCome' = ToCome
      /\ Announced("threadsRemoved") =
             Announced("threadsRemoved")' \cup ToldOf(Head(inbox), "threadsRemoved")
      /\ Announced("threadsAdded") =
             Announced("threadsAdded")' \cup ToldOf(Head(inbox), "threadsAdded")
      /\ Announced("threadsModified") =
             Announced("threadsModified")' \cup ToldOf(Head(inbox), "threadsModified")
  BY <1>1, <1>4, FollowWhenReceived
<1>6. Announced("threadsRemoved") = Announced("threadsRemoved")' \cup ts
  BY <1>2, <1>5 DEF ToldOf
<1>7. Due' = Due
  <2>1. Asked' = Asked
    BY <1>1 DEF Asked
  <2> QED
    BY <1>2, <1>5, <2>1 DEF Due, ToldOf
<1>8. /\ Less(groups', groups, ts)
      /\ \A t \in ts : OneRow(groups, t) => t \notin OnModel(groups')
      /\ Apart(groups) /\ InDescent(groups) => InDescent(groups')
  BY <1>2 DEF RowsLeave
<1>9. OneClass(groups')
  BY <1>8, OneClassInLess DEF FollowInv
<1>10. ASSUME Attuned, Follows PROVE Follows'
  <2>1. Ready
    BY <1>10, AttunedIs DEF TInv, ServiceInv
  <2>2. Holds(CopiesOf(Cache), Stored)
    BY <2>1, LoadedCache DEF TInv, Holds
  <2>3. ts \cap Stored \subseteq Disturbed
    BY <1>3, <1>6 DEF FollowInv
  <2>4. Loses(groups', groups, ts, Stored, Disturbed, Announced("threadsRemoved"),
              Announced("threadsRemoved")', Due, Due, CopiesOf(Cache))
    BY <1>3, <1>6, <1>8, <2>2, <2>3 DEF Loses
  <2>5. Follow(groups', Stored, Disturbed, Announced("threadsRemoved")', Due, CopiesOf(Cache),
               skipped, ToCome)
    BY <1>10, <2>4, FollowInLess DEF Follows
  <2>6. returned = {} => InDescent(groups')
    BY <1>8, <1>10, FollowersApart DEF Follows
  <2> QED
    BY <1>1, <1>3, <1>5, <1>7, <2>5, <2>6 DEF Follows
<1> QED
  BY <1>1, <1>5, <1>6, <1>9, <1>10 DEF FollowInv

LEMMA FollowWhenPeopled ==
    ASSUME NumbersMatch, TInv, FollowInv, OnThreadParticipantsChanged
    PROVE  FollowInv'
<1>1. /\ UNCHANGED service /\ pending' = pending /\ inbox # <<>> /\ inbox' = Tail(inbox)
      /\ view' = view /\ update' = update /\ calls' = calls
      /\ returned' = returned /\ skipped' = skipped
  BY DEF OnThreadParticipantsChanged, Receive, Undisturbed
<1>2. Head(inbox).signal = "participantsChanged" /\ Peoples(Head(inbox).items[1])
  BY ChangeIsHandled
<1>3. Disturbed' = Disturbed
  BY <1>1, DisturbedAre
<1>4. Head(inbox).signal \notin Bus
  BY <1>2 DEF Bus
<1>5. /\ Attuned' => Attuned
      /\ Stored' = Stored /\ Cache' = Cache /\ keys' = keys /\ ToCome' = ToCome
      /\ Announced("threadsRemoved") =
             Announced("threadsRemoved")' \cup ToldOf(Head(inbox), "threadsRemoved")
      /\ Announced("threadsAdded") =
             Announced("threadsAdded")' \cup ToldOf(Head(inbox), "threadsAdded")
      /\ Announced("threadsModified") =
             Announced("threadsModified")' \cup ToldOf(Head(inbox), "threadsModified")
  BY <1>1, <1>4, FollowWhenReceived
<1>6. Announced("threadsRemoved") = Announced("threadsRemoved")' /\ Due' = Due
  <2>1. Asked' = Asked
    BY <1>1 DEF Asked
  <2> QED
    BY <1>2, <1>5, <2>1 DEF Due, ToldOf
<1>7. SameCopies(groups', groups) /\ (InDescent(groups) => InDescent(groups'))
  <2> PICK change : change = Head(inbox).items[1]
    OBVIOUS
  <2>1. CASE groups' = groups
    BY <2>1 DEF SameCopies
  <2>2. ASSUME NEW i \in DOMAIN groups, NEW mine, Peopled(groups', groups, i, mine, change)
        PROVE  SameCopies(groups', groups) /\ (InDescent(groups) => InDescent(groups'))
    <3>1. Distinct(groups[i].threads)
      BY DEF TInv, ModelInv
    <3>2. /\ DOMAIN groups' = DOMAIN groups
          /\ \A x \in DOMAIN groups \ {i} : groups'[x] = groups[x]
          /\ ThreadsIn(groups'[i].threads) = ThreadsIn(groups[i].threads)
          /\ BareIn(groups'[i].threads) = BareIn(groups[i].threads)
          /\ Times(groups') = Times(groups)
      BY <2>2, <3>1 DEF Peopled
    <3>3. SameCopies(groups', groups)
      BY <3>2 DEF SameCopies
    <3> QED
      BY <3>2, <3>3 DEF InDescent
  <2> QED
    BY <1>2, <2>1, <2>2 DEF Peoples
<1>8. OneClass(groups')
  BY <1>7, RowsOfSameCopies DEF FollowInv
<1>9. ASSUME Follows PROVE Follows'
  <2>1. Follow(groups', Stored, Disturbed, Announced("threadsRemoved"), Due, CopiesOf(Cache),
               skipped, ToCome)
    BY <1>7, <1>9, RowsOfSameCopies DEF Follows
  <2> QED
    BY <1>1, <1>3, <1>5, <1>6, <1>7, <1>9, <2>1 DEF Follows
<1> QED
  BY <1>1, <1>5, <1>6, <1>8, <1>9 DEF FollowInv

LEMMA FollowKeeps ==
    ASSUME NumbersMatch, TInv, FollowInv, GroupedNext
    PROVE  FollowInv'
<1>1. ASSUME NEW t \in Threads, NEW time \in Stamps, Create(t, time) \/ Update(t, time)
      PROVE  FollowInv'
  BY <1>1, FollowWhenWritten
<1>2. ASSUME NEW t \in Threads, Delete(t) PROVE FollowInv'
  BY <1>2, FollowWhenRemoved
<1>3. ASSUME NEW message \in Messages, message.signal = "participantsChanged",
             inbox' = Append(inbox, message), pending' = pending
      PROVE  /\ \A name \in SignalNames : Announced(name)' = Announced(name)
             /\ Calm(inbox') => Calm(inbox)
  <2>1. message.signal \notin SignalNames
    BY <1>3, OtherMessages
  <2> QED
    BY <1>3, <2>1, MessageIsAppended DEF TInv
<1>4. ASSUME NEW t \in Rooms, NEW m \in Members, JoinRoom(t, m) \/ LeaveRoom(t, m) PROVE FollowInv'
  <2>1. PICK message \in Messages : /\ message.signal = "participantsChanged"
                                    /\ inbox' = Append(inbox, message)
    <3>1. /\ Says(Change(t, {<<m, FALSE>>}, {}, {}), t, {<<m, FALSE>>}, {}, {})
          /\ Says(Change(t, {}, {<<m, FALSE>>}, {}), t, {}, {<<m, FALSE>>}, {})
      BY MemberChangeIs
    <3>2. \/ inbox' = Append(inbox, Change(t, {<<m, FALSE>>}, {}, {}))
          \/ inbox' = Append(inbox, Change(t, {}, {<<m, FALSE>>}, {}))
      BY <1>4 DEF JoinRoom, LeaveRoom
    <3> QED
      BY ONLY <3>1, <3>2 DEF Says
  <2>2. /\ pending' = pending /\ UNCHANGED vars /\ UNCHANGED <<daemon, model, returned, skipped>>
    BY <1>4 DEF JoinRoom, LeaveRoom, Works
  <2>3. /\ \A name \in SignalNames : Announced(name)' = Announced(name)
        /\ Calm(inbox') => Calm(inbox)
    BY <1>3, <2>1, <2>2
  <2> QED
    BY <2>2, <2>3, FollowUnmoved DEF model
<1>5. CASE AnswerParticipants
  <2>1. PICK message \in Messages : /\ message.signal = "participantsChanged"
                                    /\ inbox' = Append(inbox, message)
    <3>1. Head(requests) \in Rooms /\ members[Head(requests)] \subseteq Members
      BY <1>5 DEF AnswerParticipants, TInv, QueueInv, ServiceInv
    <3>2. Says(Change(Head(requests), {}, {}, members[Head(requests)] \X {TRUE}),
               Head(requests), {}, {}, members[Head(requests)] \X {TRUE})
      <4> PICK some : some = members[Head(requests)] \X {TRUE}
        OBVIOUS
      <4>1. some \subseteq Members \X {TRUE}
        BY <3>1
      <4>2. Says(Change(Head(requests), {}, {}, some), Head(requests), {}, {}, some)
        BY <3>1, <4>1, ChangeIs
      <4> QED
        BY <4>2
    <3> QED
      BY <1>5, <3>2 DEF AnswerParticipants, Says
  <2>2. /\ pending' = pending /\ UNCHANGED service /\ UNCHANGED <<model, returned, skipped>>
    BY <1>5 DEF AnswerParticipants
  <2> QED
    BY <1>3, <2>1, <2>2, FollowUnmoved DEF model, service
<1>6. CASE SendSignals
  <2>1. UNCHANGED service /\ UNCHANGED <<model, returned, skipped>>
    BY <1>6 DEF SendSignals
  <2>2. /\ \A name \in SignalNames : Announced(name)' = Announced(name)
        /\ Calm(inbox') => Calm(inbox)
    <3>1. CASE Expire
      BY <3>1 DEF Expire, Announced
    <3>2. CASE ProcessSignals
      BY <3>2, SignalsAreSent DEF TInv
    <3> QED
      BY <1>6, <3>1, <3>2 DEF SendSignals
  <2> QED
    BY <2>1, <2>2, FollowUnmoved DEF model, service
<1>7. ASSUME FetchMore \/ \E t \in Rooms : RequestParticipants(t) PROVE FollowInv'
  <2>1. /\ UNCHANGED service /\ pending' = pending /\ inbox' = inbox
        /\ UNCHANGED <<view, groups, update, calls, returned, skipped>>
    BY <1>7 DEF FetchMore, RequestParticipants, Undisturbed, signalQueue, model
  <2>2. /\ \A name \in SignalNames : Announced(name)' = Announced(name)
        /\ Calm(inbox') => Calm(inbox)
    BY <2>1 DEF Announced, Calm
  <2> QED
    BY <2>1, <2>2, FollowUnmoved DEF service
<1>8. CASE Kill
  <2>1. /\ groups' = groups /\ returned' = returned /\ Stored' = Stored /\ daemon' = "down"
        /\ LoseSignals
    BY <1>8 DEF Kill, vars, Stored
  <2>2. Announced("threadsRemoved")' \subseteq Announced("threadsRemoved")
    <3> PICK message : message = [signal |-> "serviceUnregistered", items |-> <<>>]
      OBVIOUS
    <3>1. message \in Messages /\ message.signal = "serviceUnregistered"
      BY OtherMessages DEF Bus
    <3>2. inbox' = Append(inbox, message) /\ pending' = NothingPending
      BY <2>1 DEF LoseSignals
    <3>3. ToldOf(message, "threadsRemoved") = {}
      BY <3>1 DEF ToldOf
    <3>4. Told(inbox', "threadsRemoved") = Told(inbox, "threadsRemoved")
      <4> PICK queue, name : queue = inbox /\ name = "threadsRemoved"
        OBVIOUS
      <4>1. queue \in Seq(Messages)
        BY DEF TInv, QueueInv
      <4>2. Told(Append(queue, message), name) = Told(queue, name) \cup ToldOf(message, name)
        BY ONLY <3>1, <4>1, AppendedMessage
      <4>3. Told(Append(queue, message), name) = Told(queue, name)
        BY <3>3, <4>2
      <4> QED
        BY <3>2, <4>3
    <3>5. Range(NothingPending["threadsRemoved"]) = {}
      BY NothingIsPending DEF SignalNames
    <3> QED
      BY <3>2, <3>4, <3>5, AnnouncedIs
  <2> QED
    BY <2>1, <2>2, FollowUntuned, AttunedIs
<1>9. ASSUME Start \/ \E t \in Threads : Load(t) PROVE FollowInv'
  <2>1. /\ groups' = groups /\ returned' = returned /\ Stored' = Stored /\ daemon' = "starting"
        /\ pending' = pending /\ inbox' = inbox
    BY <1>9 DEF Start, Load, LoadThread, Restart, signalQueue, model, vars, Stored
  <2>2. Announced("threadsRemoved")' = Announced("threadsRemoved")
    BY <2>1 DEF Announced
  <2> QED
    BY <2>1, <2>2, FollowUntuned, AttunedIs
<1>10. CASE Register
  <2>1. /\ groups' = groups /\ returned' = returned /\ Stored' = Stored /\ pending' = pending
        /\ inbox' = Append(inbox, [signal |-> "serviceRegistered", items |-> <<>>])
    BY <1>10 DEF Register, RegisterService, vars, model, Stored
  <2> PICK message : message = [signal |-> "serviceRegistered", items |-> <<>>]
    OBVIOUS
  <2>2. message \in Messages /\ message.signal \in Bus /\ message.signal \notin SignalNames
    BY OtherMessages DEF Bus
  <2>3. /\ Announced("threadsRemoved")' = Announced("threadsRemoved")
        /\ ~Calm(inbox')
    BY <2>1, <2>2, MessageIsAppended DEF TInv, SignalNames
  <2> QED
    BY <2>1, <2>3, FollowUntuned, AttunedIs
<1>11. CASE UpdateQuery
  BY <1>11, FollowWhenQueried
<1>12. CASE NextPage
  BY <1>12, FollowWhenPaged
<1>13. CASE ProcessThreadGrouping
  BY <1>13, FollowWhenGrouped
<1>14. CASE ChangeQuery
  <2>1. /\ groups' = groups /\ returned' = returned /\ UNCHANGED service /\ update'
        /\ pending' = pending /\ inbox' = inbox
    BY <1>14 DEF ChangeQuery, Undisturbed
  <2>2. Announced("threadsRemoved")' = Announced("threadsRemoved") /\ Stored' = Stored
    BY <2>1, SameService DEF Announced
  <2> QED
    BY <2>1, <2>2, FollowUntuned, AttunedIs
<1>15. CASE OnThreadsChanged
  BY <1>15, FollowWhenChanged
<1>16. CASE OnThreadsRemoved
  BY <1>16, FollowWhenLess
<1>17. CASE OnThreadParticipantsChanged
  BY <1>17, FollowWhenPeopled
<1>18. CASE OnServiceRunningChanged
  <2>1. /\ groups' = groups /\ returned' = returned /\ UNCHANGED service /\ update'
        /\ pending' = pending /\ inbox # <<>> /\ inbox' = Tail(inbox)
    BY <1>18 DEF OnServiceRunningChanged, Receive, Undisturbed
  <2>2. Announced("threadsRemoved")' \subseteq Announced("threadsRemoved") /\ Stored' = Stored
    BY <2>1, MessageIsReceived, SameService DEF TInv
  <2> QED
    BY <2>1, <2>2, FollowUntuned, AttunedIs
<1> QED
  BY <1>1, <1>2, <1>4, <1>5, <1>6, <1>7, <1>8, <1>9, <1>10, <1>11, <1>12, <1>13, <1>14, <1>15,
     <1>16, <1>17, <1>18 DEF GroupedNext

LEMMA FollowStays ==
    ASSUME NumbersMatch, FollowInv, UNCHANGED groupedVars
    PROVE  FollowInv'
<1>1. /\ UNCHANGED service /\ pending' = pending /\ inbox' = inbox
      /\ UNCHANGED <<view, groups, update, calls, returned, skipped>>
  BY DEF groupedVars, signalQueue, model
<1>2. /\ \A name \in SignalNames : Announced(name)' = Announced(name)
      /\ Calm(inbox') => Calm(inbox)
  BY <1>1 DEF Announced, Calm
<1> QED
  BY <1>1, <1>2, FollowUnmoved DEF service

\* The rows follow the service while the model is attuned to it: what a row has too
\* much or lacks is announced, in a signal, a page or a call still to be made, for
\* the conversations no thread of which came back before its removal was handled.
THEOREM RowsAlwaysFollow ==
    ASSUME NumbersMatch
    PROVE  GroupedSpec => []FollowInv
<1>1. GroupedInit => FollowInv
  BY FollowInitially
<1>2. TInv /\ FollowInv /\ [GroupedNext]_groupedVars => FollowInv'
  BY FollowKeeps, FollowStays
<1> QED
  BY <1>1, <1>2, GroupedTypeInvariant, PTL DEF GroupedSpec

LEMMA NothingIsDue ==
    ASSUME TInv, FollowInv, Quiet
    PROVE  /\ Follows /\ Ready
           /\ Announced("threadsRemoved") = {} /\ Due = {}
<1>1. \A name \in SignalNames : Announced(name) = {}
  <2>1. inbox = <<>> /\ pending = NothingPending
    BY DEF Quiet
  <2> QED
    BY <2>1, NothingIsPending DEF Announced
<1>2. Asked = {}
  BY DEF Quiet, Idle, Asked
<1>3. Follows /\ Ready
  BY DEF Quiet, Attuned, FollowInv, TInv, ServiceInv
<1> QED
  BY <1>1, <1>2, <1>3 DEF Due, SignalNames

LEMMA RowsAreWhole ==
    ASSUME NumbersMatch, TInv, FollowInv, Quiet,
           NEW i \in DOMAIN groups, NEW t, t = groups[i].shown.thread, t \notin Disturbed
    PROVE  /\ keys[t] # NoKey
           /\ BareIn(groups[i].threads) = CopiesAmong(conversations[keys[t]])
<1>1. /\ Gone(groups, Stored, Disturbed, {}) /\ Current(groups, Stored, Disturbed, {}, CopiesOf(Cache))
      /\ Ready /\ OneClass(groups) /\ Closed(Disturbed)
  BY NothingIsDue, DisturbedAre DEF Follows, Follow, FollowInv
<1>2. \A u \in ThreadsIn(groups[i].threads) : u \in Disturbed \cup Stored
  BY <1>1 DEF Gone, OnModel
<1>3. t \in ThreadsIn(groups[i].threads) /\ t \in Stored /\ Distinct(groups[i].threads)
  BY <1>2 DEF TInv, ModelInv, RowsOK
<1>4. ConversationFacts(t) /\ Holds(CopiesOf(Cache), Stored)
  BY <1>1, <1>3, LoadedCache DEF TInv, Holds
<1>5. /\ keys[t] # NoKey
      /\ CopiesAmong(conversations[keys[t]]) =
             {copy \in CopiesOf(Cache) : SameConversation(t, copy.thread)}
  BY <1>4 DEF ConversationFacts, At, Cache
<1>6. ASSUME NEW copy \in CopiesOf(Cache), SameConversation(t, copy.thread)
      PROVE  copy \in BareIn(groups[i].threads)
  BY <1>1, <1>3, <1>6 DEF Current
<1>7. ASSUME NEW old \in CopiesAmong(groups[i].threads)
      PROVE  Bare(old) \in CopiesOf(Cache) /\ SameConversation(t, Bare(old).thread)
  <2>1. Bare(old).thread = old.thread
    BY DEF Bare
  <2>2. old.thread \in ThreadsIn(groups[i].threads)
    BY ThreadsOfCopies
  <2>3. SameConversation(t, old.thread)
    BY <1>1, <1>3, <2>2 DEF OneClass
  <2>4. old.thread \in Stored
    BY <1>1, <1>2, <2>2, <2>3 DEF Closed
  <2>5. PICK copy \in CopiesOf(Cache) : copy.thread = old.thread
    BY <1>4, <2>4 DEF Holds
  <2>6. PICK other \in CopiesAmong(groups[i].threads) : copy = Bare(other)
    BY <1>6, <2>3, <2>5 DEF BareIn
  <2>7. other.thread = old.thread
    BY <2>5, <2>6 DEF Bare
  <2>8. other = old
    BY <1>3, <2>7 DEF Distinct, CopiesAmong
  <2> QED
    BY <2>1, <2>3, <2>5, <2>6, <2>8
<1>8. BareIn(groups[i].threads) \subseteq CopiesAmong(conversations[keys[t]])
  BY <1>5, <1>7 DEF BareIn
<1>9. CopiesAmong(conversations[keys[t]]) \subseteq BareIn(groups[i].threads)
  BY <1>5, <1>6
<1> QED
  BY <1>5, <1>8, <1>9

\* When everything has been handled the rows are conversations of the plugin's
\* cache; while a change is, no thread is in two of them, and they are in the order
\* of what they show (processThreadGrouping, updateDisplayedThread), but for the
\* conversations of threads that came back before their removal was handled.
THEOREM RowsAlwaysFollowService ==
    ASSUME NumbersMatch
    PROVE  GroupedSpec => []RowsFollowService
<1>1. TInv /\ FollowInv => RowsAreConversations
  <2> SUFFICES ASSUME TInv, FollowInv, Quiet, NEW i \in DOMAIN groups,
                      groups[i].shown.thread \notin Disturbed
               PROVE  /\ keys[groups[i].shown.thread] # NoKey
                      /\ {[thread |-> copy.thread, time |-> copy.time] : copy \in Range(groups[i].threads)}
                             = Range(conversations[keys[groups[i].shown.thread]])
    BY DEF RowsAreConversations
  <2> PICK t : t = groups[i].shown.thread
    OBVIOUS
  <2>1. keys[t] # NoKey /\ BareIn(groups[i].threads) = CopiesAmong(conversations[keys[t]])
    BY RowsAreWhole
  <2> QED
    BY <2>1 DEF BareIn, Bare, CopiesAmong, Range
<1>2. FollowInv => RowsAreDisjoint
  <2> SUFFICES ASSUME FollowInv, Attuned, NEW i \in DOMAIN groups, NEW j \in DOMAIN groups, i # j,
                      NEW t \in ThreadsIn(groups[i].threads) \cap ThreadsIn(groups[j].threads)
               PROVE  t \in Disturbed
    BY DEF RowsAreDisjoint
  <2>1. Single(groups, Stored, Disturbed)
    BY DEF FollowInv, Follows, Follow
  <2> QED
    BY <2>1, SingleIsApart DEF OneRow
<1>3. TInv /\ FollowInv => RowsSorted
  <2> SUFFICES ASSUME TInv, FollowInv, Attuned, returned = {} PROVE RowsSorted
    BY DEF RowsSorted
  <2>1. InDescent(groups) /\ groups \in Seq(RowType)
    BY DEF FollowInv, Follows, TInv, ModelInv, RowsOK
  <2> QED
    BY <2>1, DescentIs, RowsAre DEF RowsSorted
<1>4. TInv /\ FollowInv => RowsFollowService
  BY <1>1, <1>2, <1>3, TypesOfGroups DEF RowsFollowService
<1> QED
  BY <1>4, GroupedTypeInvariant, RowsAlwaysFollow, PTL

\* Once every page was asked for (fetchMore) every conversation of the cache has a
\* row, unless it was removed from before it had one or a thread of it came back.
THEOREM EverythingIsAlwaysShown ==
    ASSUME NumbersMatch
    PROVE  GroupedSpec => []EverythingIsShown
<1>1. TInv /\ FollowInv => EverythingIsShown
  <2> SUFFICES ASSUME TInv, FollowInv, Quiet, view.rest = <<>>,
                      NEW t \in Stored \ (skipped \cup Disturbed)
               PROVE  t \in OnModel(groups)
    BY DEF EverythingIsShown
  <2>1. Reached(groups, Stored, Disturbed, {}, skipped, ToCome)
    BY NothingIsDue DEF Follows, Follow
  <2>2. t \notin ToCome
    BY DEF ToCome, Range
  <2> QED
    BY <2>1, <2>2 DEF Reached
<1> QED
  BY <1>1, GroupedTypeInvariant, RowsAlwaysFollow, PTL

=============================================================================
