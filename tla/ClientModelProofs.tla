-------------------------- MODULE ClientModelProofs --------------------------
(***************************************************************************)
(* Proofs about the rows of a QML event model, for any events, timestamps  *)
(* and page size.                                                          *)
(*                                                                         *)
(* The messages in the inbox and the lists that wait are seen as one line, *)
(* in the order in which the client will hear of them. The invariant says, *)
(* of each event, what the line tells of it (Told) and what the rows show  *)
(* while the line is still to come (Ready): every operation, timer and     *)
(* message moves the line or takes its head, and an empty line leaves what *)
(* is stored.                                                              *)
(***************************************************************************)
EXTENDS ClientModel, FiniteSetTheorems, SequenceTheorems, WellFoundedInduction,
        NaturalsInduction, TLAPS

-----------------------------------------------------------------------------
(* The binary search                                                       *)

LEMMA LeastNumber ==
    ASSUME NEW T, T \subseteq Nat, T # {}
    PROVE  \E n \in T : \A m \in T : n <= m
<1> DEFINE R == {p \in Nat \X Nat : p[1] < p[2]}
<1>1. IsWellFoundedOn(R, Nat)
  BY NatLessThanWellFounded, Zenon DEF OpToRel
<1> HIDE DEF R
<1>2. PICK n \in T : \A m \in T : ~ (<<m, n>> \in R)
  BY <1>1, WFMin, Zenon
<1>3. ASSUME NEW m \in T PROVE n <= m
  <2>1. m \in Nat /\ n \in Nat
    OBVIOUS
  <2>2. ~(<<m, n>> \in R)
    BY <1>2
  <2>3. m < n => <<m, n>> \in R
    BY <2>1 DEF R
  <2> QED
    BY <2>1, <2>2, <2>3
<1> QED
  BY <1>3

Width(b) == IF b[1] > b[2] THEN 0 ELSE b[2] - b[1] + 1

\* What the loop does with bounds b, if `search` tells what it does then.
Step(search, times, time, b) ==
    IF b[1] = Middle(b) /\ time > times[Middle(b) + 1] THEN Middle(b)
    ELSE IF times[Middle(b) + 1] > time
         THEN IF Middle(b) + 1 > b[2] THEN Middle(b) + 1 ELSE search[<<Middle(b) + 1, b[2]>>]
    ELSE IF b[1] > b[2] THEN Middle(b)
    ELSE search[<<b[1], Middle(b) - 1>>]

IsSearch(search, times, time) ==
    search = [b \in Bounds(Len(times)) |-> Step(search, times, time, b)]

\* The middle lies between the bounds, and both halves are narrower.
LEMMA BoundsShrink ==
    ASSUME NEW n \in Nat, NEW b \in Bounds(n)
    PROVE  /\ Width(b) \in Nat
           /\ Middle(b) + 1 <= b[2] => /\ <<Middle(b) + 1, b[2]>> \in Bounds(n)
                                       /\ Width(<<Middle(b) + 1, b[2]>>) < Width(b)
           /\ b[1] <= b[2] => /\ <<b[1], Middle(b) - 1>> \in Bounds(n)
                              /\ Width(<<b[1], Middle(b) - 1>>) < Width(b)
           /\ b = <<b[1], b[2]>>
<1>1. PICK low \in 0 .. n, high \in (-1) .. n : b = <<low, high>>
  BY DEF Bounds
<1>2. low \in Int /\ high \in Int /\ b[1] = low /\ b[2] = high /\ 0 <= low /\ -1 <= high /\ high <= n /\ low <= n
  BY <1>1
<1>3. PICK m \in Int : m = Middle(b) /\ (low + high < 0 => m = 0)
          /\ (low + high >= 0 => 2 * m <= low + high /\ low + high <= 2 * m + 1)
  BY <1>2 DEF Middle
<1>4. Width(b) = IF low > high THEN 0 ELSE high - low + 1
  BY <1>2 DEF Width
<1>5. Width(<<m + 1, high>>) = IF m + 1 > high THEN 0 ELSE high - m
  BY <1>2, <1>3 DEF Width
<1>6. Width(<<low, m - 1>>) = IF low > m - 1 THEN 0 ELSE m - low
  BY <1>2, <1>3 DEF Width
<1>7. Width(b) \in Nat
  BY <1>2, <1>4
<1>8. ASSUME m + 1 <= high
      PROVE  <<m + 1, high>> \in Bounds(n) /\ Width(<<m + 1, high>>) < Width(b)
  <2>1. m + 1 \in 0 .. n /\ high \in (-1) .. n
    BY <1>2, <1>3, <1>8
  <2>2. Width(<<m + 1, high>>) < Width(b)
    BY <1>2, <1>3, <1>4, <1>5, <1>8
  <2> QED
    BY <2>1, <2>2 DEF Bounds
<1>9. ASSUME low <= high
      PROVE  <<low, m - 1>> \in Bounds(n) /\ Width(<<low, m - 1>>) < Width(b)
  <2>1. low \in 0 .. n /\ m - 1 \in (-1) .. n
    BY <1>2, <1>3, <1>9
  <2>2. Width(<<low, m - 1>>) < Width(b)
    BY <1>2, <1>3, <1>4, <1>6, <1>9
  <2> QED
    BY <2>1, <2>2 DEF Bounds
<1> QED
  BY <1>1, <1>2, <1>3, <1>7, <1>8, <1>9

\* One step of the search asks for narrower bounds only.
LEMMA StepLooksInside ==
    ASSUME NEW times, NEW time, Len(times) \in Nat, NEW b \in Bounds(Len(times)), NEW f, NEW g,
           \A c \in Bounds(Len(times)) : Width(c) < Width(b) => f[c] = g[c]
    PROVE  Step(f, times, time, b) = Step(g, times, time, b)
<1>0. b[1] \in Int /\ b[2] \in Int /\ Middle(b) \in Int
  BY DEF Bounds, Middle
<1>1. Middle(b) + 1 <= b[2] => f[<<Middle(b) + 1, b[2]>>] = g[<<Middle(b) + 1, b[2]>>]
  BY BoundsShrink
<1>2. b[1] <= b[2] => f[<<b[1], Middle(b) - 1>>] = g[<<b[1], Middle(b) - 1>>]
  BY BoundsShrink
<1> QED
  BY <1>0, <1>1, <1>2 DEF Step

\* So the recursion of the search is defined for all bounds.
LEMMA SearchExists ==
    ASSUME NEW times, NEW time, Len(times) \in Nat
    PROVE  \E search : IsSearch(search, times, time)
<1> DEFINE n == Len(times)
           Narrow(k) == {b \in Bounds(n) : Width(b) <= k}
           IsPart(g, k) == g = [b \in Narrow(k) |-> Step(g, times, time, b)]
           T == {k \in Nat : ~ \E g : IsPart(g, k)}
<1>0. \A b \in Bounds(n) : Width(b) \in Nat
  BY BoundsShrink
<1>1. T = {}
  <2> SUFFICES ASSUME T # {} PROVE FALSE
    OBVIOUS
  <2>0. T \subseteq Nat
    OBVIOUS
  <2>1. PICK k \in T : \A j \in T : k <= j
    BY LeastNumber
  <2>2. PICK g : k > 0 => IsPart(g, k - 1)
    <3>1. CASE k = 0
      BY <3>1
    <3>2. CASE k > 0
      <4>1. k - 1 \in Nat /\ k - 1 < k
        BY <2>1, <3>2
      <4>2. k - 1 \notin T
        <5> HIDE DEF T
        <5> QED
          BY <2>1, <4>1, <2>0
      <4> QED
        BY <4>1, <4>2
    <3> QED
      BY <3>1, <3>2, <2>1
  <2> DEFINE h == [b \in Narrow(k) |-> IF Width(b) < k THEN g[b] ELSE Step(g, times, time, b)]
  <2>3. \A b \in Narrow(k) : h[b] = Step(h, times, time, b)
    <3> SUFFICES ASSUME NEW b \in Narrow(k) PROVE h[b] = Step(h, times, time, b)
      OBVIOUS
    <3>1. b \in Bounds(n) /\ Width(b) <= k /\ k \in Nat /\ Width(b) \in Nat
      BY <1>0, <2>1
    <3>2. \A c \in Bounds(n) : Width(c) < Width(b) => c \in Narrow(k) /\ Width(c) < k
      BY <1>0, <3>1
    <3>3. \A c \in Bounds(n) : Width(c) < Width(b) => g[c] = h[c]
      BY <3>2
    <3>4. Step(g, times, time, b) = Step(h, times, time, b)
      <4> HIDE DEF h
      <4> QED
        BY <3>1, <3>3, StepLooksInside
    <3>5. CASE Width(b) = k
      <4>1. h[b] = Step(g, times, time, b)
        BY <3>1, <3>5
      <4> QED
        BY <4>1, <3>4
    <3>6. CASE Width(b) < k
      <4>1. k > 0 /\ b \in Narrow(k - 1)
        BY <3>1, <3>6
      <4>2. g = [c \in Narrow(k - 1) |-> Step(g, times, time, c)]
        BY <4>1, <2>2
      <4>3. g[b] = Step(g, times, time, b)
        <5> HIDE DEF Narrow
        <5> QED
          BY <4>1, <4>2
      <4>4. h[b] = g[b]
        BY <3>6, <3>1
      <4> QED
        BY <4>3, <4>4, <3>4
    <3> QED
      BY <3>1, <3>5, <3>6
  <2>4. IsPart(h, k)
    <3> DEFINE f == [b \in Narrow(k) |-> Step(h, times, time, b)]
    <3>1. h = f
      <4>1. \A b \in Narrow(k) : h[b] = f[b]
        <5> HIDE DEF h, Narrow
        <5> QED
          BY <2>3
      <4> QED
        BY <4>1
    <3> QED
      BY <3>1
  <2> QED
    BY <2>1, <2>4
<1>2. Narrow(n + 1) = Bounds(n)
  <2>1. \A b \in Bounds(n) : Width(b) <= n + 1
    BY DEF Bounds, Width
  <2> QED
    BY <2>1
<1>3. PICK g : IsPart(g, n + 1)
  <2>1. n + 1 \in Nat
    OBVIOUS
  <2>2. \A k \in Nat : \E g : IsPart(g, k)
    <3> HIDE DEF IsPart
    <3> QED
      BY <1>1
  <2> QED
    BY <2>1, <2>2
<1> QED
  BY <1>2, <1>3 DEF IsSearch


\* PositionForItem is this search, from all rows.
LEMMA PositionSearches ==
    ASSUME NEW times, NEW time, Len(times) \in Nat, times # <<>>
    PROVE  \E search : /\ IsSearch(search, times, time)
                       /\ PositionForItem(times, time) = search[<<0, Len(times) - 1>>]
<1> DEFINE search == CHOOSE f : IsSearch(f, times, time)
<1>1. IsSearch(search, times, time)
  BY SearchExists
<1>2. PositionForItem(times, time) = search[<<0, Len(times) - 1>>]
  BY DEF PositionForItem, IsSearch, Step
<1> QED
  BY <1>1, <1>2

\* A position at which a row with this time keeps the order.
Keeps(p, times, time) ==
    /\ p \in 0 .. Len(times)
    /\ \A i \in 1 .. p : times[i] >= time
    /\ \A i \in (p + 1) .. Len(times) : times[i] <= time

\* The rows outside the bounds are where they belong.
Encloses(b, times, time) ==
    /\ b \in Bounds(Len(times)) /\ b[1] <= b[2] + 1 /\ b[2] < Len(times)
    /\ \A i \in 1 .. b[1] : times[i] >= time
    /\ \A i \in (b[2] + 2) .. Len(times) : times[i] <= time

Descending(times) == \A i, j \in DOMAIN times : i < j => times[i] >= times[j]

LEMMA HalfOf ==
    ASSUME NEW a \in Nat
    PROVE  a \div 2 \in Nat /\ 2 * (a \div 2) <= a /\ a <= 2 * (a \div 2) + 1
OBVIOUS

\* The search finds a place among the rows.
LEMMA SearchStaysInside ==
    ASSUME NEW times \in Seq(Nat), NEW time \in Nat, NEW search, times # <<>>,
           IsSearch(search, times, time),
           NEW b \in Bounds(Len(times)), b[1] <= b[2] + 1, b[2] < Len(times),
           \A c \in Bounds(Len(times)) : Width(c) < Width(b) /\ c[1] <= c[2] + 1 /\ c[2] < Len(times)
               => /\ search[c] \in 0 .. Len(times)
                  /\ Descending(times) /\ Encloses(c, times, time) => Keeps(search[c], times, time)
    PROVE  /\ search[b] \in 0 .. Len(times)
           /\ Descending(times) /\ Encloses(b, times, time) => Keeps(search[b], times, time)
<1> DEFINE n == Len(times)
           low == b[1]
           high == b[2]
           pos == Middle(b)
<1>1. n \in Nat /\ n > 0 /\ DOMAIN times = 1 .. n /\ \A i \in 1 .. n : times[i] \in Nat
  OBVIOUS
<1>2. low \in 0 .. n /\ high \in (-1) .. (n - 1) /\ low <= high + 1
  BY DEF Bounds
<1>3. /\ pos \in Nat /\ pos < n
      /\ low <= high => low <= pos /\ pos <= high
      /\ low > high => low = high + 1 /\ (low = 0 => pos = 0) /\ (low > 0 => pos = high)
  <2>1. CASE low + high < 0
    BY <1>1, <1>2, <2>1 DEF Middle
  <2>2. CASE low + high >= 0
    <3>1. low + high \in Nat /\ low \in Int /\ high \in Int
      BY <1>2, <2>2
    <3>2. pos = (low + high) \div 2
      BY <3>1 DEF Middle
    <3>3. pos \in Nat /\ 2 * pos <= low + high /\ low + high <= 2 * pos + 1
      BY <3>1, <3>2, HalfOf
    <3> HIDE DEF pos, low, high, n
    <3> QED
      BY <3>1, <3>3, <1>1, <1>2
  <2> QED
    BY <2>1, <2>2, <1>2
<1> DEFINE other == times[pos + 1]
<1>4. other \in Nat
  BY <1>1, <1>3
<1>5. search[b] = Step(search, times, time, b)
  BY DEF IsSearch
<1>6. CASE low = pos /\ time > other
  <2>1. search[b] = pos
    BY <1>5, <1>6 DEF Step
  <2>2. ASSUME Descending(times), Encloses(b, times, time) PROVE Keeps(pos, times, time)
    <3>1. ASSUME NEW i \in (pos + 1) .. n PROVE times[i] <= time
      <4>1. i \in 1 .. n /\ pos + 1 \in 1 .. n /\ pos + 1 <= i
        BY <1>1, <1>3
      <4>2. times[pos + 1] >= times[i]
        BY <4>1, <2>2, <1>1 DEF Descending
      <4> QED
        BY <4>1, <4>2, <1>1, <1>6
    <3>2. \A i \in 1 .. pos : times[i] >= time
      BY <1>6, <2>2 DEF Encloses
    <3> QED
      BY <3>1, <3>2, <1>1, <1>3 DEF Keeps
  <2> QED
    BY <2>1, <2>2, <1>1, <1>3
<1>7. CASE ~(low = pos /\ time > other) /\ other > time
  <2>1. Descending(times) => \A i \in 1 .. (pos + 1) : times[i] >= time
    <3> SUFFICES ASSUME Descending(times), NEW i \in 1 .. (pos + 1) PROVE times[i] >= time
      OBVIOUS
    <3>1. i \in 1 .. n /\ pos + 1 \in 1 .. n /\ i <= pos + 1
      BY <1>1, <1>3
    <3>2. times[i] >= times[pos + 1]
      <4>1. i = pos + 1 \/ i < pos + 1
        BY <3>1, <1>3
      <4>2. times[pos + 1] \in Nat /\ i \in DOMAIN times /\ pos + 1 \in DOMAIN times
        BY <3>1, <1>1
      <4> QED
        BY <4>1, <4>2 DEF Descending
    <3> QED
      BY <3>1, <3>2, <1>1, <1>7
  <2>2. CASE pos + 1 > high
    <3>1. search[b] = pos + 1
      BY <1>5, <1>7, <2>2 DEF Step
    <3>2. pos + 1 >= high + 1 /\ pos + 1 \in 0 .. n
      <4>1. pos \in Nat /\ n \in Nat /\ high \in Int /\ pos < n /\ pos + 1 > high
        BY <1>1, <1>2, <1>3, <2>2
      <4> HIDE DEF pos, high, n
      <4> QED
        BY <4>1
    <3>3. Encloses(b, times, time) => \A i \in (pos + 2) .. n : times[i] <= time
      <4> SUFFICES ASSUME Encloses(b, times, time), NEW i \in (pos + 2) .. n PROVE times[i] <= time
        OBVIOUS
      <4>1. i \in (high + 2) .. n
        <5> HIDE DEF pos, high, low
        <5> QED
          BY <1>1, <1>2, <1>3, <2>2
      <4> QED
        BY <4>1 DEF Encloses
    <3> QED
      BY <2>1, <3>1, <3>2, <3>3, <1>1, <1>3 DEF Keeps
  <2>3. CASE pos + 1 <= high
    <3> DEFINE c == <<pos + 1, high>>
    <3>1. c \in Bounds(n) /\ Width(c) < Width(b)
      BY <2>3, <1>1, BoundsShrink
    <3>2. c[1] = pos + 1 /\ c[2] = high /\ c[1] <= c[2] + 1 /\ c[2] < n
      <4>1. pos \in Nat /\ n \in Nat /\ high \in Int /\ high < n /\ pos + 1 <= high
        BY <1>1, <1>2, <1>3, <2>3
      <4>2. c[1] = pos + 1 /\ c[2] = high
        OBVIOUS
      <4> HIDE DEF pos, high, n, c
      <4> QED
        BY <4>1, <4>2
    <3>3. search[b] = search[c]
      BY <1>3, <1>2, <1>5, <1>7, <2>3 DEF Step
    <3>4. Descending(times) /\ Encloses(b, times, time) => Encloses(c, times, time)
      <4> HIDE DEF c
      <4> QED
        BY <2>1, <3>1, <3>2 DEF Encloses
    <3> HIDE DEF c
    <3> QED
      BY <3>1, <3>2, <3>3, <3>4
  <2> QED
    BY <2>2, <2>3, <1>2, <1>3
<1>8. CASE ~(low = pos /\ time > other) /\ ~(other > time)
  <2>1. Descending(times) => \A i \in (pos + 1) .. n : times[i] <= time
    <3> SUFFICES ASSUME Descending(times), NEW i \in (pos + 1) .. n PROVE times[i] <= time
      OBVIOUS
    <3>1. i \in 1 .. n /\ pos + 1 \in 1 .. n /\ pos + 1 <= i
      BY <1>1, <1>3
    <3>2. times[pos + 1] >= times[i] /\ times[pos + 1] <= time
      <4>1. times[pos + 1] <= time
        BY <1>4, <1>8
      <4>2. i = pos + 1 \/ pos + 1 < i
        BY <3>1, <1>3
      <4>3. times[pos + 1] >= times[i]
        BY <3>1, <1>1, <4>2 DEF Descending
      <4> QED
        BY <4>1, <4>3
    <3> QED
      BY <3>1, <3>2, <1>1
  <2>2. CASE low > high
    <3>1. search[b] = pos
      BY <1>5, <1>8, <2>2 DEF Step
    <3>2. Encloses(b, times, time) => \A i \in 1 .. pos : times[i] >= time
      <4> SUFFICES ASSUME Encloses(b, times, time), NEW i \in 1 .. pos PROVE times[i] >= time
        OBVIOUS
      <4>1. pos <= low
        <5> HIDE DEF pos, high, low
        <5> QED
          BY <1>2, <1>3, <2>2
      <4>2. i \in 1 .. low
        BY <4>1, <1>2, <1>3
      <4> QED
        BY <4>2 DEF Encloses
    <3> QED
      BY <2>1, <3>1, <3>2, <1>1, <1>3 DEF Keeps
  <2>3. CASE low <= high
    <3> DEFINE c == <<low, pos - 1>>
    <3>1. c \in Bounds(n) /\ Width(c) < Width(b)
      BY <2>3, <1>1, BoundsShrink
    <3>2. c[1] = low /\ c[2] = pos - 1 /\ c[1] <= c[2] + 1 /\ c[2] < n
      <4>1. pos \in Nat /\ n \in Nat /\ low \in Int /\ low <= pos /\ pos < n
        BY <1>1, <1>2, <1>3, <2>3
      <4>2. c[1] = low /\ c[2] = pos - 1
        OBVIOUS
      <4> HIDE DEF pos, low, n, c
      <4> QED
        BY <4>1, <4>2
    <3>3. search[b] = search[c]
      <4>1. ~(low > high)
        BY <1>2, <2>3
      <4> QED
        BY <1>5, <1>8, <4>1 DEF Step
    <3>4. Descending(times) /\ Encloses(b, times, time) => Encloses(c, times, time)
      <4> HIDE DEF c
      <4>1. c[2] + 2 = pos + 1
        BY <3>2, <1>3
      <4> QED
        BY <2>1, <3>1, <3>2, <4>1 DEF Encloses
    <3> HIDE DEF c
    <3> QED
      BY <3>1, <3>2, <3>3, <3>4
  <2> QED
    BY <2>2, <2>3, <1>2, <1>3
<1> QED
  BY <1>6, <1>7, <1>8

(* The search ends within the list; in a list whose times descend, it      *)
(* finds a place that keeps them so.                                       *)
THEOREM PositionKeepsOrder ==
    ASSUME NEW times \in Seq(Nat), NEW time \in Nat
    PROVE  /\ PositionForItem(times, time) \in 0 .. Len(times)
           /\ Descending(times) => Keeps(PositionForItem(times, time), times, time)
<1>1. CASE times = <<>>
  BY <1>1 DEF PositionForItem, Keeps
<1>2. CASE times # <<>>
  <2> DEFINE n == Len(times)
  <2>0. n \in Nat /\ n > 0
    BY <1>2
  <2>1. PICK search : /\ IsSearch(search, times, time)
                      /\ PositionForItem(times, time) = search[<<0, n - 1>>]
    BY <1>2, <2>0, PositionSearches
  <2> DEFINE Fine(b) == /\ search[b] \in 0 .. n
                        /\ Descending(times) /\ Encloses(b, times, time)
                               => Keeps(search[b], times, time)
             Possible == {b \in Bounds(n) : b[1] <= b[2] + 1 /\ b[2] < n}
             T == {k \in Nat : \E b \in Possible : Width(b) = k /\ ~Fine(b)}
  <2>2. T = {}
    <3> SUFFICES ASSUME T # {} PROVE FALSE
      OBVIOUS
    <3>1. T \subseteq Nat
      OBVIOUS
    <3>2. PICK k \in T : \A j \in T : k <= j
      BY <3>1, LeastNumber
    <3>3. PICK b \in Possible : Width(b) = k /\ ~Fine(b)
      OBVIOUS
    <3>4. ASSUME NEW c \in Possible, Width(c) < Width(b) PROVE Fine(c)
      <4>1. Width(c) \in Nat /\ Width(b) \in Nat
        BY <2>0, BoundsShrink
      <4>2. Width(c) \notin T
        <5> HIDE DEF T
        <5> QED
          BY <3>2, <3>3, <3>4, <4>1, <3>1
      <4> HIDE DEF Fine
      <4> QED
        BY <4>1, <4>2
    <3>5. Fine(b)
      <4>1. b \in Bounds(n) /\ b[1] <= b[2] + 1 /\ b[2] < n
        BY <3>3
      <4>2. \A c \in Bounds(n) : Width(c) < Width(b) /\ c[1] <= c[2] + 1 /\ c[2] < n => Fine(c)
        <5> HIDE DEF Fine
        <5> QED
          BY <3>4
      <4> QED
        BY <4>1, <4>2, <1>2, <2>1, SearchStaysInside
    <3> QED
      BY <3>3, <3>5
  <2>3. <<0, n - 1>> \in Possible
    BY <2>0 DEF Bounds
  <2>4. Fine(<<0, n - 1>>)
    <3>1. Width(<<0, n - 1>>) \in Nat
      BY <2>0, <2>3, BoundsShrink
    <3> HIDE DEF Fine, Possible
    <3> QED
      BY <2>2, <2>3, <3>1
  <2>5. Encloses(<<0, n - 1>>, times, time)
    BY <2>0, <2>3 DEF Encloses
  <2> QED
    BY <2>1, <2>4, <2>5
<1> QED
  BY <1>1, <1>2

-----------------------------------------------------------------------------
(* Lists of rows                                                           *)

LEMMA RowAfterInsertion ==
    ASSUME NEW S, NEW s \in Seq(S), NEW q \in 1 .. (Len(s) + 1), NEW e \in S
    PROVE  /\ InsertAt(s, q, e) \in Seq(S)
           /\ Len(InsertAt(s, q, e)) = Len(s) + 1
           /\ \A i \in 1 .. Len(s) : i < q => InsertAt(s, q, e)[i] = s[i]
           /\ InsertAt(s, q, e)[q] = e
           /\ \A i \in 1 .. Len(s) : i >= q => InsertAt(s, q, e)[i + 1] = s[i]
<1> DEFINE front == SubSeq(s, 1, q - 1)
           back == SubSeq(s, q, Len(s))
           middle == front \o <<e>>
           n == Len(s)
<1>1. n \in Nat /\ q \in Nat /\ 1 <= q /\ q <= n + 1 /\ \A i \in 1 .. n : s[i] \in S
  BY ElementOfSeq
<1>2. /\ front \in Seq(S) /\ Len(front) = q - 1
      /\ \A i \in 1 .. (q - 1) : front[i] = s[i]
  BY <1>1
<1>3. /\ back \in Seq(S) /\ Len(back) = n - q + 1
      /\ \A i \in 1 .. (n - q + 1) : back[i] = s[q + i - 1]
  BY <1>1
<1>4. InsertAt(s, q, e) = middle \o back
  BY DEF InsertAt
<1>5. /\ middle \in Seq(S) /\ Len(middle) = q /\ middle[q] = e
      /\ \A i \in 1 .. (q - 1) : middle[i] = s[i]
  <2> HIDE DEF front
  <2> QED
    BY <1>1, <1>2
<1> HIDE DEF n
<1>6. /\ middle \o back \in Seq(S) /\ Len(middle \o back) = n + 1
      /\ \A i \in 1 .. q : (middle \o back)[i] = middle[i]
      /\ \A i \in (q + 1) .. (n + 1) : (middle \o back)[i] = back[i - q]
  <2>1. Len(back) + Len(middle) = n + 1 /\ Len(middle) = q
    BY <1>1, <1>3, <1>5
  <2> HIDE DEF middle, back
  <2>2. /\ middle \o back \in Seq(S) /\ Len(middle \o back) = n + 1
        /\ \A i \in 1 .. q : (middle \o back)[i] = middle[i]
    <3>1. middle \in Seq(S) /\ back \in Seq(S)
      BY <1>3, <1>5
    <3>2. middle \o back \in Seq(S) /\ Len(middle \o back) = Len(middle) + Len(back)
          /\ \A i \in 1 .. Len(middle) : (middle \o back)[i] = middle[i]
      BY <3>1
    <3>3. Len(middle) + Len(back) = n + 1
      BY <2>1, <1>1, <1>3
    <3> QED
      BY <2>1, <3>2, <3>3
  <2>3. \A i \in (q + 1) .. (n + 1) : (middle \o back)[i] = back[i - q]
    <3> SUFFICES ASSUME NEW i \in (q + 1) .. (n + 1) PROVE (middle \o back)[i] = back[i - q]
      OBVIOUS
    <3>1. middle \in Seq(S) /\ back \in Seq(S) /\ Len(middle) = q /\ Len(back) \in Nat
      BY <1>3, <1>5
    <3>2. i \in 1 .. (Len(middle) + Len(back)) /\ i > Len(middle)
      BY <2>1, <1>1, <3>1
    <3> QED
      BY <3>1, <3>2
  <2> QED
    BY <2>2, <2>3
<1> DEFINE new == middle \o back
<1> HIDE DEF new
<1>7. \A i \in 1 .. n : i >= q => new[i + 1] = s[i]
  <2> SUFFICES ASSUME NEW i \in 1 .. n, i >= q PROVE new[i + 1] = s[i]
    OBVIOUS
  <2>1. i + 1 \in (q + 1) .. (n + 1) /\ (i + 1) - q \in 1 .. (n - q + 1)
        /\ q + ((i + 1) - q) - 1 = i
    BY <1>1
  <2>2. new[i + 1] = back[(i + 1) - q]
    BY <2>1, <1>6 DEF new
  <2> HIDE DEF back
  <2> QED
    BY <2>1, <2>2, <1>3
<1>8. \A i \in 1 .. n : i < q => new[i] = s[i]
  <2> SUFFICES ASSUME NEW i \in 1 .. n, i < q PROVE new[i] = s[i]
    OBVIOUS
  <2>1. i \in 1 .. q /\ i \in 1 .. (q - 1)
    BY <1>1
  <2> HIDE DEF middle, back
  <2> QED
    BY <2>1, <1>5, <1>6 DEF new
<1>9. new[q] = e
  <2>1. q \in 1 .. q
    BY <1>1
  <2> HIDE DEF middle, back
  <2> QED
    BY <2>1, <1>5, <1>6 DEF new
<1>10. new \in Seq(S) /\ Len(new) = n + 1 /\ new = InsertAt(s, q, e)
  BY <1>4, <1>6 DEF new
<1> QED
  BY <1>7, <1>8, <1>9, <1>10 DEF n

\* What RemoveAt leaves, and where.
LEMMA RemovedAt ==
    ASSUME NEW S, NEW s \in Seq(S), NEW p \in 1 .. Len(s)
    PROVE  /\ RemoveAt(s, p) \in Seq(S)
           /\ Len(RemoveAt(s, p)) = Len(s) - 1
           /\ \A i \in 1 .. (p - 1) : RemoveAt(s, p)[i] = s[i]
           /\ \A i \in p .. (Len(s) - 1) : RemoveAt(s, p)[i] = s[i + 1]
<1> DEFINE front == SubSeq(s, 1, p - 1)
           back == SubSeq(s, p + 1, Len(s))
<1>1. Len(s) \in Nat /\ p \in Nat /\ 1 <= p /\ p <= Len(s) /\ \A i \in 1 .. Len(s) : s[i] \in S
  BY ElementOfSeq
<1>2. /\ front \in Seq(S) /\ Len(front) = p - 1
      /\ \A i \in 1 .. (p - 1) : front[i] = s[i]
  BY <1>1
<1>3. /\ back \in Seq(S) /\ Len(back) = Len(s) - p
      /\ \A i \in 1 .. (Len(s) - p) : back[i] = s[p + i]
  BY <1>1
<1>4. RemoveAt(s, p) = front \o back
  BY <1>1 DEF RemoveAt
<1>6. /\ front \o back \in Seq(S) /\ Len(front \o back) = Len(s) - 1
      /\ \A i \in 1 .. (p - 1) : (front \o back)[i] = front[i]
      /\ \A i \in p .. (Len(s) - 1) : (front \o back)[i] = back[i - (p - 1)]
  <2> HIDE DEF front, back
  <2>1. front \in Seq(S) /\ back \in Seq(S) /\ Len(front) = p - 1 /\ Len(back) = Len(s) - p
    BY <1>2, <1>3
  <2>2. Len(front) + Len(back) = Len(s) - 1
    BY <2>1, <1>1
  <2>3. /\ front \o back \in Seq(S) /\ Len(front \o back) = Len(front) + Len(back)
        /\ \A i \in 1 .. Len(front) : (front \o back)[i] = front[i]
    <3>1. front \in Seq(S) /\ back \in Seq(S)
      BY <2>1
    <3> QED
      BY <3>1
  <2>4. ASSUME NEW i \in p .. (Len(s) - 1) PROVE (front \o back)[i] = back[i - (p - 1)]
    <3>1. i \in 1 .. (Len(front) + Len(back)) /\ i > Len(front)
      BY <2>1, <2>2, <1>1
    <3>2. (front \o back)[i] = back[i - Len(front)]
      BY <2>1, <3>1
    <3> QED
      BY <3>2, <2>1
  <2> QED
    BY <2>1, <2>2, <2>3, <2>4
<1>7. \A i \in p .. (Len(s) - 1) : (front \o back)[i] = s[i + 1]
  <2> SUFFICES ASSUME NEW i \in p .. (Len(s) - 1) PROVE (front \o back)[i] = s[i + 1]
    OBVIOUS
  <2>1. i - (p - 1) \in 1 .. (Len(s) - p) /\ p + (i - (p - 1)) = i + 1
    BY <1>1
  <2> HIDE DEF front, back
  <2> QED
    BY <2>1, <1>3, <1>6
<1> HIDE DEF front, back
<1> QED
  BY <1>1, <1>2, <1>4, <1>6, <1>7

\* What InsertAt makes, and where.
LEMMA AnInsertedRow ==
    ASSUME NEW S, NEW s \in Seq(S), NEW q \in 1 .. (Len(s) + 1), NEW e \in S,
           NEW i \in 1 .. (Len(s) + 1)
    PROVE  \/ i < q /\ i \in 1 .. Len(s) /\ InsertAt(s, q, e)[i] = s[i]
           \/ i = q /\ InsertAt(s, q, e)[i] = e
           \/ q < i /\ i - 1 \in 1 .. Len(s) /\ InsertAt(s, q, e)[i] = s[i - 1]
<1>1. Len(s) \in Nat /\ q \in Nat /\ i \in Nat
  OBVIOUS
<1>2. CASE i < q
  <2>1. i \in 1 .. Len(s)
    BY <1>1, <1>2
  <2>2. \A k \in 1 .. Len(s) : k < q => InsertAt(s, q, e)[k] = s[k]
    BY RowAfterInsertion
  <2> QED
    BY <2>1, <2>2, <1>2
<1>3. CASE i = q
  BY <1>3, RowAfterInsertion
<1>4. CASE i > q
  <2>1. PICK j \in 1 .. Len(s) : i = j + 1 /\ j >= q
    <3>1. i - 1 \in 1 .. Len(s) /\ i = (i - 1) + 1 /\ i - 1 >= q
      BY <1>1, <1>4
    <3> QED
      BY <3>1
  <2>2. InsertAt(s, q, e)[j + 1] = s[j]
    BY <2>1, RowAfterInsertion
  <2>3. i - 1 = j
    BY <1>1, <2>1
  <2> QED
    BY <2>1, <2>2, <2>3, <1>4
<1> QED
  BY <1>1, <1>2, <1>3, <1>4

Ordered(list) ==
    \A i, j \in DOMAIN list :
        i < j => ~Before(list[j].item, list[i].item) /\ list[i].item # list[j].item

\* The versions in which a list shows an event.
VersionsIn(list, x) == {list[i].version : i \in {j \in DOMAIN list : list[j].item = x}}

LEMMA RowsAre ==
    ASSUME NEW list \in Seq(Row)
    PROVE  /\ Len(list) \in Nat /\ DOMAIN list = 1 .. Len(list)
           /\ \A i \in DOMAIN list : /\ list[i] \in Row /\ list[i].item \in Items
                                     /\ list[i].item \in ItemsOf(list)
                                     /\ Time[list[i].item] \in Nat
           /\ ItemsOf(list) \subseteq Items
           /\ TimesOf(list) \in Seq(Nat) /\ Len(TimesOf(list)) = Len(list)
           /\ \A i \in 1 .. Len(list) : TimesOf(list)[i] = Time[list[i].item]
<1>1. Len(list) \in Nat /\ DOMAIN list = 1 .. Len(list)
  OBVIOUS
<1>2. \A i \in DOMAIN list : list[i] \in Row
  BY <1>1, ElementOfSeq
<1>3. \A i \in DOMAIN list : list[i].item \in Items /\ Time[list[i].item] \in Nat
  BY <1>2, ClientAssumption DEF Row
<1>4. TimesOf(list) \in [1 .. Len(list) -> Nat]
  BY <1>1, <1>3 DEF TimesOf
<1>5. TimesOf(list) \in Seq(Nat) /\ Len(TimesOf(list)) = Len(list)
  BY <1>1, <1>4
<1> QED
  BY <1>1, <1>2, <1>3, <1>5 DEF TimesOf, ItemsOf

LEMMA InListMeans ==
    ASSUME NEW list, NEW x
    PROVE  x \in ItemsOf(list) <=> \E i \in DOMAIN list : list[i].item = x
BY DEF ItemsOf

LEMMA VersionsMean ==
    ASSUME NEW list, NEW x, NEW v
    PROVE  v \in VersionsIn(list, x) <=> \E i \in DOMAIN list : list[i].item = x /\ list[i].version = v
BY DEF VersionsIn

LEMMA AddRowEffect ==
    ASSUME NEW list \in Seq(Row), NEW row \in Row
    PROVE  /\ AddRow(list, row) \in Seq(Row)
           /\ ItemsOf(AddRow(list, row)) = ItemsOf(list) \cup {row.item}
           /\ \A x \in Items : VersionsIn(AddRow(list, row), x) =
                  IF x = row.item /\ x \notin ItemsOf(list) THEN {row.version} ELSE VersionsIn(list, x)
           /\ Ordered(list) => Ordered(AddRow(list, row))
<1>1. CASE row.item \in ItemsOf(list)
  BY <1>1 DEF AddRow
<1>2. CASE row.item \notin ItemsOf(list)
  <2> DEFINE n == Len(list)
             p == PositionForItem(TimesOf(list), Time[row.item])
             q == p + 1
             new == InsertAt(list, q, row)
  <2>0. n \in Nat /\ row.item \in Items /\ Time[row.item] \in Nat /\ DOMAIN list = 1 .. n
    BY RowsAre, ClientAssumption DEF Row
  <2>1. /\ p \in 0 .. n
        /\ Descending(TimesOf(list)) => Keeps(p, TimesOf(list), Time[row.item])
    BY <2>0, RowsAre, PositionKeepsOrder
  <2>2. AddRow(list, row) = new
    BY <1>2 DEF AddRow
  <2>10. q \in 1 .. (n + 1) /\ p \in Int /\ p + 1 = q
    BY <2>0, <2>1
  <2> HIDE DEF p, q
  <2>3. new \in Seq(Row) /\ Len(new) = n + 1 /\ DOMAIN new = 1 .. (n + 1)
    BY <2>10, RowAfterInsertion
  <2>4. \A i \in 1 .. (n + 1) : \/ i < q /\ i \in 1 .. n /\ new[i] = list[i]
                                \/ i = q /\ new[i] = row
                                \/ q < i /\ i - 1 \in 1 .. n /\ new[i] = list[i - 1]
    BY <2>10, AnInsertedRow
  <2>5. \A i \in 1 .. n : \E j \in 1 .. (n + 1) : new[j] = list[i]
    <3> SUFFICES ASSUME NEW i \in 1 .. n PROVE \E j \in 1 .. (n + 1) : new[j] = list[i]
      OBVIOUS
    <3>1. i \in 1 .. (n + 1) /\ i + 1 \in 1 .. (n + 1)
      BY <2>0
    <3>2. CASE i < q
      <4>1. new[i] = list[i]
        BY <3>2, <2>10, RowAfterInsertion
      <4> QED
        BY <4>1, <3>1
    <3>3. CASE i >= q
      <4>1. new[i + 1] = list[i]
        BY <3>3, <2>10, RowAfterInsertion
      <4> QED
        BY <4>1, <3>1
    <3> QED
      BY <3>2, <3>3, <2>0, <2>10
  <2>6. q \in 1 .. (n + 1) /\ new[q] = row
    BY <2>10, RowAfterInsertion
  <2> HIDE DEF new, n
  <2>7. ItemsOf(new) = ItemsOf(list) \cup {row.item}
    <3>1. \A i \in 1 .. (n + 1) : new[i] = row \/ \E j \in 1 .. n : new[i] = list[j]
      BY <2>4
    <3>2. \A x : x \in ItemsOf(new) <=> x \in ItemsOf(list) \/ x = row.item
      <4> SUFFICES ASSUME NEW x
                   PROVE  x \in ItemsOf(new) <=> x \in ItemsOf(list) \/ x = row.item
        OBVIOUS
      <4>1. x \in ItemsOf(list) <=> \E j \in 1 .. n : list[j].item = x
        BY <2>0, InListMeans, Zenon
      <4>2. x \in ItemsOf(new) <=> \E j \in 1 .. (n + 1) : new[j].item = x
        BY <2>3, InListMeans, Zenon
      <4> QED
        BY <4>1, <4>2, <3>1, <2>5, <2>6, Zenon
    <3> QED
      BY <3>2
  <2>8. \A x \in Items : VersionsIn(new, x) =
           IF x = row.item /\ x \notin ItemsOf(list) THEN {row.version} ELSE VersionsIn(list, x)
    <3>1. \A i \in 1 .. (n + 1) : new[i] = row \/ \E j \in 1 .. n : new[i] = list[j]
      BY <2>4
    <3>2. \A j \in 1 .. n : list[j].item # row.item
      BY <1>2, <2>0 DEF ItemsOf
    <3> SUFFICES ASSUME NEW x \in Items
                 PROVE  VersionsIn(new, x) = IF x = row.item THEN {row.version} ELSE VersionsIn(list, x)
      BY <1>2
    <3>3. CASE x = row.item
      <4>1. \A v : v \in VersionsIn(new, x) <=> v = row.version
        BY <3>1, <3>2, <3>3, <2>3, <2>6, VersionsMean
      <4> QED
        BY <4>1, <3>3
    <3>4. CASE x # row.item
      <4>1. \A v : v \in VersionsIn(new, x) <=> v \in VersionsIn(list, x)
        <5> SUFFICES ASSUME NEW v PROVE v \in VersionsIn(new, x) <=> v \in VersionsIn(list, x)
          OBVIOUS
        <5>1. v \in VersionsIn(list, x) <=> \E j \in 1 .. n : list[j].item = x /\ list[j].version = v
          BY <2>0, VersionsMean
        <5>2. v \in VersionsIn(new, x) <=> \E j \in 1 .. (n + 1) : new[j].item = x /\ new[j].version = v
          BY <2>3, VersionsMean
        <5> QED
          BY <5>1, <5>2, <3>1, <3>4, <2>5, Zenon
      <4> QED
        BY <4>1, <3>4
    <3> QED
      BY <3>3, <3>4
  <2>9. ASSUME Ordered(list) PROVE Ordered(new)
    <3>1. Descending(TimesOf(list))
      <4>1. DOMAIN TimesOf(list) = 1 .. n /\ \A i \in 1 .. n : TimesOf(list)[i] = Time[list[i].item]
        BY RowsAre DEF n
      <4>2. \A i \in 1 .. n : Time[list[i].item] \in Nat
        BY <2>0, RowsAre
      <4>3. \A i, j \in 1 .. n : i < j => ~(Time[list[j].item] > Time[list[i].item])
        BY <2>0, <2>9 DEF Ordered, Before
      <4> QED
        BY <4>1, <4>2, <4>3 DEF Descending
    <3>2. /\ \A i \in 1 .. p : Time[list[i].item] >= Time[row.item]
          /\ \A i \in (p + 1) .. n : Time[list[i].item] <= Time[row.item]
      <4>1. Keeps(p, TimesOf(list), Time[row.item])
        BY <3>1, <2>1
      <4>2. Len(TimesOf(list)) = n /\ \A i \in 1 .. n : TimesOf(list)[i] = Time[list[i].item]
        BY RowsAre DEF n
      <4>3. \A i \in 1 .. p : i \in 1 .. n
        BY <2>0, <2>1
      <4>4. \A i \in (p + 1) .. n : i \in 1 .. n
        BY <2>0, <2>1
      <4> QED
        BY <4>1, <4>2, <4>3, <4>4 DEF Keeps
    <3>3. \A i \in 1 .. n : Time[list[i].item] \in Nat /\ list[i].item # row.item
      BY <1>2, <2>0, RowsAre DEF ItemsOf
    <3>4. ASSUME NEW i \in 1 .. (n + 1), NEW j \in 1 .. (n + 1), i < j
          PROVE  ~Before(new[j].item, new[i].item) /\ new[i].item # new[j].item
      <4>0. i \in Nat /\ j \in Nat /\ p \in Nat /\ q \in Nat /\ n \in Nat
        BY <2>0, <2>1, <2>10
      <4>1. CASE i < q /\ i \in 1 .. n /\ new[i] = list[i]
        <5>1. CASE j < q /\ j \in 1 .. n /\ new[j] = list[j]
          BY <4>1, <5>1, <3>4, <2>0, <2>9 DEF Ordered
        <5>2. CASE j = q /\ new[j] = row
          <6>1. Time[list[i].item] >= Time[row.item]
            BY <4>0, <4>1, <3>2, <2>10
          <6> QED
            BY <6>1, <4>1, <5>2, <3>3, <2>0 DEF Before
        <5>3. CASE q < j /\ j - 1 \in 1 .. n /\ new[j] = list[j - 1]
          <6>1. i < j - 1
            BY <4>0, <4>1, <5>3
          <6> QED
            BY <6>1, <4>1, <5>3, <2>0, <2>9 DEF Ordered
        <5> QED
          BY <5>1, <5>2, <5>3, <2>4
      <4>2. CASE i = q /\ new[i] = row
        <5>1. q < j /\ j - 1 \in 1 .. n /\ new[j] = list[j - 1]
          BY <4>0, <4>2, <3>4, <2>4
        <5>2. j - 1 \in (p + 1) .. n
          BY <4>0, <5>1, <2>10
        <5>3. Time[list[j - 1].item] <= Time[row.item]
          BY <5>2, <3>2
        <5> QED
          BY <5>1, <5>3, <4>2, <3>3, <2>0 DEF Before
      <4>3. CASE q < i /\ i - 1 \in 1 .. n /\ new[i] = list[i - 1]
        <5>1. q < j /\ j - 1 \in 1 .. n /\ new[j] = list[j - 1]
          BY <4>0, <4>3, <3>4, <2>4
        <5>2. i - 1 < j - 1
          BY <4>0, <3>4
        <5> QED
          BY <5>1, <5>2, <4>3, <2>0, <2>9 DEF Ordered
      <4> QED
        BY <4>1, <4>2, <4>3, <2>4
    <3> QED
      BY <3>4, <2>3 DEF Ordered
  <2> QED
    BY <2>2, <2>3, <2>7, <2>8, <2>9
<1> QED
  BY <1>1, <1>2

-----------------------------------------------------------------------------
(* The rows after the events of a signal                                   *)

LEMMA Climb ==
    ASSUME NEW n \in Nat, NEW T, 0 \in T, \A k \in 1 .. n : k - 1 \in T => k \in T
    PROVE  n \in T
<1> DEFINE Missed == {k \in 0 .. n : k \notin T}
<1>1. Missed = {}
  <2> SUFFICES ASSUME Missed # {} PROVE FALSE
    OBVIOUS
  <2>1. PICK k \in Missed : \A j \in Missed : k <= j
    <3>1. Missed \subseteq Nat
      OBVIOUS
    <3> HIDE DEF Missed
    <3> QED
      BY <3>1, LeastNumber
  <2>2. k \in 1 .. n /\ k - 1 \in 0 .. n /\ ~(k <= k - 1)
    BY <2>1
  <2>3. k - 1 \notin Missed
    <3> HIDE DEF Missed
    <3> QED
      BY <2>1, <2>2
  <2> QED
    BY <2>1, <2>2, <2>3
<1>2. n \in 0 .. n
  OBVIOUS
<1> QED
  BY <1>1, <1>2

\* What the first m events of a signal make of the rows, step by step.
IsCourse(after, change, list, items, m) ==
    after = [k \in 0 .. m |-> IF k = 0 THEN list ELSE Handle(change, after[k - 1], items[k])]

LEMMA CourseSteps ==
    ASSUME NEW after, NEW change, NEW list, NEW items, NEW m \in Nat,
           IsCourse(after, change, list, items, m)
    PROVE  /\ after[0] = list
           /\ \A k \in 1 .. m : after[k] = Handle(change, after[k - 1], items[k])
<1> DEFINE Value(k) == IF k = 0 THEN list ELSE Handle(change, after[k - 1], items[k])
<1>1. after = [k \in 0 .. m |-> Value(k)]
  BY DEF IsCourse
<1>2. \A k \in 0 .. m : after[k] = Value(k)
  <2> HIDE DEF Value
  <2> QED
    BY <1>1
<1>3. 0 \in 0 .. m /\ \A k \in 1 .. m : k \in 0 .. m /\ k # 0
  OBVIOUS
<1> QED
  BY <1>2, <1>3

\* The recursion of HandleAll is defined for lists of any length.
LEMMA CourseExists ==
    ASSUME NEW change, NEW list, NEW items, NEW n \in Nat
    PROVE  \E after : IsCourse(after, change, list, items, n)
<1> DEFINE T == {m \in Nat : \E after : IsCourse(after, change, list, items, m)}
<1>1. 0 \in T
  <2> DEFINE a == [k \in 0 .. 0 |-> list]
  <2>1. a = [k \in 0 .. 0 |-> IF k = 0 THEN list ELSE Handle(change, a[k - 1], items[k])]
    OBVIOUS
  <2>2. IsCourse(a, change, list, items, 0)
    BY <2>1 DEF IsCourse
  <2> QED
    BY <2>2
<1>2. ASSUME NEW m \in 1 .. n, m - 1 \in T PROVE m \in T
  <2>1. PICK a : IsCourse(a, change, list, items, m - 1)
    BY <1>2
  <2> DEFINE b == [k \in 0 .. m |-> IF k < m THEN a[k] ELSE Handle(change, a[m - 1], items[m])]
             Value(f, k) == IF k = 0 THEN list ELSE Handle(change, f[k - 1], items[k])
  <2>2. \A k \in 0 .. (m - 1) : a[k] = Value(a, k)
    <3>1. a = [k \in 0 .. (m - 1) |-> Value(a, k)]
      BY <2>1 DEF IsCourse
    <3> HIDE DEF Value
    <3> QED
      BY <3>1
  <2>3. ASSUME NEW k \in 0 .. m PROVE b[k] = Value(b, k)
    <3>1. CASE k = 0
      BY <3>1, <2>2
    <3>2. CASE k # 0
      <4>1. k - 1 \in 0 .. m /\ k - 1 < m /\ k \in Int /\ m \in Int
        BY <3>2
      <4>2. b[k - 1] = a[k - 1]
        BY <4>1
      <4>3. CASE k = m
        <5>1. b[k] = Handle(change, a[k - 1], items[k])
          BY <4>3
        <5> HIDE DEF b
        <5> QED
          BY <5>1, <4>2, <3>2
      <4>4. CASE k # m
        <5>1. k \in 0 .. (m - 1) /\ k < m
          BY <4>1, <4>4
        <5>2. b[k] = a[k]
          BY <5>1
        <5>3. a[k] = Handle(change, a[k - 1], items[k])
          BY <5>1, <3>2, <2>2
        <5> HIDE DEF b
        <5> QED
          BY <5>2, <5>3, <4>2, <3>2
      <4> QED
        BY <4>3, <4>4
    <3> QED
      BY <3>1, <3>2
  <2>4. b = [k \in 0 .. m |-> Value(b, k)]
    <3> DEFINE f == [k \in 0 .. m |-> Value(b, k)]
    <3>1. \A k \in 0 .. m : b[k] = f[k]
      <4> HIDE DEF b, Value
      <4> QED
        BY <2>3
    <3> QED
      BY <3>1
  <2>5. IsCourse(b, change, list, items, m)
    BY <2>4 DEF IsCourse
  <2> QED
    BY <2>5
<1> HIDE DEF T
<1>3. n \in T
  BY <1>1, <1>2, Climb
<1> QED
  BY <1>3 DEF T

\* HandleAll as a sequence of lists, each one event further.
LEMMA HandleAllSteps ==
    ASSUME NEW change, NEW list, NEW items, Len(items) \in Nat
    PROVE  \E after : /\ after[0] = list
                      /\ \A k \in 1 .. Len(items) : after[k] = Handle(change, after[k - 1], items[k])
                      /\ HandleAll(change, list, items) = after[Len(items)]
<1> DEFINE after == CHOOSE f : IsCourse(f, change, list, items, Len(items))
<1>1. IsCourse(after, change, list, items, Len(items))
  BY CourseExists
<1>2. HandleAll(change, list, items) = after[Len(items)]
  BY DEF HandleAll, IsCourse
<1> HIDE DEF after
<1>3. after[0] = list /\ \A k \in 1 .. Len(items) : after[k] = Handle(change, after[k - 1], items[k])
  BY <1>1, CourseSteps
<1> QED
  BY <1>2, <1>3

LEMMA FirstRowFound ==
    ASSUME NEW list \in Seq(Row), NEW x \in ItemsOf(list)
    PROVE  FirstRow(list, x) \in DOMAIN list /\ list[FirstRow(list, x)].item = x
<1> DEFINE T == {i \in DOMAIN list : list[i].item = x}
<1>0. DOMAIN list = 1 .. Len(list) /\ Len(list) \in Nat
  OBVIOUS
<1>1. T \subseteq Nat /\ T # {}
  BY <1>0, InListMeans
<1>2. PICK i \in T : \A j \in T : i <= j
  <2> HIDE DEF T
  <2> QED
    BY <1>1, LeastNumber
<1>3. ASSUME NEW j \in 1 .. (i - 1) PROVE list[j].item # x
  <2>1. j \in DOMAIN list /\ ~(i <= j)
    BY <1>0, <1>2
  <2>2. j \notin T
    <3> HIDE DEF T
    <3> QED
      BY <1>2, <2>1
  <2> QED
    BY <2>1, <2>2
<1>4. i \in DOMAIN list /\ list[i].item = x /\ \A j \in 1 .. (i - 1) : list[j].item # x
  BY <1>2, <1>3
<1> HIDE DEF T
<1> QED
  BY <1>4, Zenon DEF FirstRow

LEMMA ReplaceRowEffect ==
    ASSUME NEW list \in Seq(Row), NEW row \in Row
    PROVE  /\ ReplaceRow(list, row) \in Seq(Row)
           /\ ItemsOf(ReplaceRow(list, row)) = ItemsOf(list)
           /\ \A x \in Items \ {row.item} : VersionsIn(ReplaceRow(list, row), x) = VersionsIn(list, x)
           /\ Ordered(list) =>
                /\ Ordered(ReplaceRow(list, row))
                /\ row.item \in ItemsOf(list) => VersionsIn(ReplaceRow(list, row), row.item) = {row.version}
<1>1. CASE row.item \notin ItemsOf(list)
  <2>1. ReplaceRow(list, row) = list
    BY <1>1 DEF ReplaceRow
  <2> QED
    BY <2>1, <1>1
<1>2. CASE row.item \in ItemsOf(list)
  <2> DEFINE f == FirstRow(list, row.item)
             new == [list EXCEPT ![f] = row]
  <2>1. ReplaceRow(list, row) = new
    BY <1>2 DEF ReplaceRow
  <2>2. f \in DOMAIN list /\ list[f].item = row.item
    BY <1>2, FirstRowFound
  <2> HIDE DEF f
  <2>3. new \in Seq(Row) /\ DOMAIN new = DOMAIN list
    BY <2>2
  <2>4. \A i \in DOMAIN list : new[i] = IF i = f THEN row ELSE list[i]
    BY <2>2
  <2> HIDE DEF new
  <2>5. \A i \in DOMAIN list : new[i].item = list[i].item
    BY <2>2, <2>4
  <2>6. ItemsOf(new) = ItemsOf(list)
    BY <2>3, <2>5 DEF ItemsOf
  <2>7. ASSUME NEW x \in Items \ {row.item} PROVE VersionsIn(new, x) = VersionsIn(list, x)
    <3>1. \A i \in DOMAIN list : list[i].item = x => new[i] = list[i]
      BY <2>2, <2>4, <2>7
    <3>2. \A v : v \in VersionsIn(new, x) <=> v \in VersionsIn(list, x)
      <4> SUFFICES ASSUME NEW v PROVE v \in VersionsIn(new, x) <=> v \in VersionsIn(list, x)
        OBVIOUS
      <4>1. v \in VersionsIn(new, x) <=> \E i \in DOMAIN list : new[i].item = x /\ new[i].version = v
        BY <2>3, VersionsMean
      <4>2. v \in VersionsIn(list, x) <=> \E i \in DOMAIN list : list[i].item = x /\ list[i].version = v
        BY VersionsMean
      <4> QED
        BY <4>1, <4>2, <3>1, <2>5, Zenon
    <3> QED
      BY <3>2
  <2>8. ASSUME Ordered(list) PROVE Ordered(new)
    BY <2>3, <2>5, <2>8 DEF Ordered
  <2>9. ASSUME Ordered(list) PROVE VersionsIn(new, row.item) = {row.version}
    <3>1. \A i \in DOMAIN list : list[i].item = row.item => i = f
      <4> SUFFICES ASSUME NEW i \in DOMAIN list, list[i].item = row.item PROVE i = f
        OBVIOUS
      <4>1. i \in Int /\ f \in Int
        BY <2>2
      <4>2. ~(i < f) /\ ~(f < i)
        BY <2>2, <2>9 DEF Ordered
      <4> QED
        BY <4>1, <4>2
    <3>2. new[f] = row
      BY <2>2, <2>4
    <3>3. \A v : v \in VersionsIn(new, row.item) <=> v = row.version
      <4> SUFFICES ASSUME NEW v PROVE v \in VersionsIn(new, row.item) <=> v = row.version
        OBVIOUS
      <4>1. v \in VersionsIn(new, row.item) <=> \E i \in DOMAIN list : new[i].item = row.item /\ new[i].version = v
        BY <2>3, VersionsMean
      <4> QED
        BY <4>1, <3>1, <3>2, <2>2, <2>5, Zenon
    <3> QED
      BY <3>3
  <2> QED
    BY <2>1, <2>3, <2>6, <2>7, <2>8, <2>9
<1> QED
  BY <1>1, <1>2

LEMMA RemoveRowEffect ==
    ASSUME NEW list \in Seq(Row), NEW row \in Row
    PROVE  /\ RemoveRow(list, row) \in Seq(Row)
           /\ ItemsOf(list) \ {row.item} \subseteq ItemsOf(RemoveRow(list, row))
           /\ ItemsOf(RemoveRow(list, row)) \subseteq ItemsOf(list)
           /\ \A x \in Items \ {row.item} : VersionsIn(RemoveRow(list, row), x) = VersionsIn(list, x)
           /\ Ordered(list) => /\ Ordered(RemoveRow(list, row))
                               /\ row.item \notin ItemsOf(RemoveRow(list, row))
<1>1. CASE row.item \notin ItemsOf(list)
  <2>1. RemoveRow(list, row) = list
    BY <1>1 DEF RemoveRow
  <2> QED
    BY <2>1, <1>1
<1>2. CASE row.item \in ItemsOf(list)
  <2> DEFINE f == FirstRow(list, row.item)
             new == RemoveAt(list, f)
             n == Len(list)
  <2>0. n \in Nat /\ DOMAIN list = 1 .. n
    OBVIOUS
  <2>1. RemoveRow(list, row) = new
    BY <1>2 DEF RemoveRow
  <2>2. f \in DOMAIN list /\ list[f].item = row.item
    BY <1>2, FirstRowFound
  <2> HIDE DEF f
  <2>3. /\ new \in Seq(Row) /\ Len(new) = n - 1
        /\ \A i \in 1 .. (f - 1) : new[i] = list[i]
        /\ \A i \in f .. (n - 1) : new[i] = list[i + 1]
    <3>1. f \in 1 .. Len(list)
      BY <2>0, <2>2
    <3> QED
      BY <3>1, RemovedAt, Zenon
  <2> HIDE DEF new, n
  <2>4. DOMAIN new = 1 .. (n - 1) /\ f \in 1 .. n /\ f \in Int
    BY <2>0, <2>2, <2>3
  <2>5. \A i \in 1 .. (n - 1) : \/ i < f /\ i \in 1 .. n /\ new[i] = list[i]
                                \/ i >= f /\ i + 1 \in 1 .. n /\ new[i] = list[i + 1]
    <3> SUFFICES ASSUME NEW i \in 1 .. (n - 1)
                 PROVE  \/ i < f /\ i \in 1 .. n /\ new[i] = list[i]
                        \/ i >= f /\ i + 1 \in 1 .. n /\ new[i] = list[i + 1]
      OBVIOUS
    <3>1. i \in 1 .. n /\ i + 1 \in 1 .. n /\ (i \in 1 .. (f - 1) \/ i \in f .. (n - 1))
          /\ (i < f <=> i \in 1 .. (f - 1))
      BY <2>0, <2>4
    <3> QED
      BY <3>1, <2>3, <2>4
  <2>6. \A i \in 1 .. n : i # f => \E j \in 1 .. (n - 1) : new[j] = list[i]
    <3> SUFFICES ASSUME NEW i \in 1 .. n, i # f PROVE \E j \in 1 .. (n - 1) : new[j] = list[i]
      OBVIOUS
    <3>1. CASE i < f
      <4>1. i \in 1 .. (f - 1) /\ i \in 1 .. (n - 1)
        BY <2>0, <2>4, <3>1
      <4> QED
        BY <4>1, <2>3
    <3>2. CASE i > f
      <4>1. PICK j \in f .. (n - 1) : j + 1 = i
        <5>1. i - 1 \in f .. (n - 1) /\ (i - 1) + 1 = i
          BY <2>0, <2>4, <3>2
        <5> QED
          BY <5>1
      <4>2. j \in 1 .. (n - 1)
        BY <2>0, <2>4
      <4> QED
        BY <4>1, <4>2, <2>3
    <3> QED
      BY <3>1, <3>2, <2>0, <2>4
  <2>7. \A i \in 1 .. (n - 1) : \E j \in 1 .. n : j # f /\ new[i] = list[j]
    <3> SUFFICES ASSUME NEW i \in 1 .. (n - 1) PROVE \E j \in 1 .. n : j # f /\ new[i] = list[j]
      OBVIOUS
    <3>1. CASE i < f /\ i \in 1 .. n /\ new[i] = list[i]
      BY <3>1, <2>4
    <3>2. CASE i >= f /\ i + 1 \in 1 .. n /\ new[i] = list[i + 1]
      <4>1. i + 1 # f
        BY <3>2, <2>4
      <4> QED
        BY <3>2, <4>1
    <3> QED
      BY <3>1, <3>2, <2>5
  <2>8. ItemsOf(new) \subseteq ItemsOf(list)
    <3> SUFFICES ASSUME NEW x \in ItemsOf(new) PROVE x \in ItemsOf(list)
      OBVIOUS
    <3>1. PICK i \in 1 .. (n - 1) : new[i].item = x
      BY <2>4, InListMeans
    <3>2. PICK j \in 1 .. n : new[i] = list[j]
      BY <2>7
    <3> QED
      BY <3>1, <3>2, <2>0, InListMeans
  <2>9. ItemsOf(list) \ {row.item} \subseteq ItemsOf(new)
    <3> SUFFICES ASSUME NEW x \in ItemsOf(list), x # row.item PROVE x \in ItemsOf(new)
      OBVIOUS
    <3>1. PICK i \in 1 .. n : list[i].item = x
      BY <2>0, InListMeans
    <3>2. PICK j \in 1 .. (n - 1) : new[j] = list[i]
      BY <2>2, <2>6, <3>1
    <3> QED
      BY <3>1, <3>2, <2>4, InListMeans
  <2>10. ASSUME NEW x \in Items \ {row.item} PROVE VersionsIn(new, x) = VersionsIn(list, x)
    <3>1. \A v : v \in VersionsIn(new, x) <=> v \in VersionsIn(list, x)
      <4> SUFFICES ASSUME NEW v PROVE v \in VersionsIn(new, x) <=> v \in VersionsIn(list, x)
        OBVIOUS
      <4>1. v \in VersionsIn(new, x) <=> \E i \in 1 .. (n - 1) : new[i].item = x /\ new[i].version = v
        <5>1. v \in VersionsIn(new, x) <=> \E i \in DOMAIN new : new[i].item = x /\ new[i].version = v
          BY VersionsMean
        <5> QED
          BY <5>1, <2>4
      <4>2. v \in VersionsIn(list, x) <=> \E i \in 1 .. n : list[i].item = x /\ list[i].version = v
        BY <2>0, VersionsMean
      <4>3. x # row.item
        OBVIOUS
      <4>4. ASSUME NEW i \in 1 .. n, list[i].item = x PROVE \E j \in 1 .. (n - 1) : new[j] = list[i]
        BY <2>2, <2>6, <4>3, <4>4
      <4> QED
        BY <4>1, <4>2, <4>4, <2>7, Zenon
    <3> QED
      BY <3>1
  <2>11. ASSUME Ordered(list) PROVE Ordered(new) /\ row.item \notin ItemsOf(new)
    <3>1. ASSUME NEW i \in 1 .. (n - 1), NEW j \in 1 .. (n - 1), i < j
          PROVE  ~Before(new[j].item, new[i].item) /\ new[i].item # new[j].item
      <4>1. CASE i < f /\ i \in 1 .. n /\ new[i] = list[i]
        <5>1. CASE j < f /\ j \in 1 .. n /\ new[j] = list[j]
          BY <4>1, <5>1, <3>1, <2>0, <2>11 DEF Ordered
        <5>2. CASE j >= f /\ j + 1 \in 1 .. n /\ new[j] = list[j + 1]
          <6>1. i < j + 1
            BY <3>1
          <6> QED
            BY <6>1, <4>1, <5>2, <2>0, <2>11 DEF Ordered
        <5> QED
          BY <5>1, <5>2, <2>5
      <4>2. CASE i >= f /\ i + 1 \in 1 .. n /\ new[i] = list[i + 1]
        <5>1. j >= f /\ ~(j < f)
          BY <3>1, <4>2, <2>4
        <5>2. j + 1 \in 1 .. n /\ new[j] = list[j + 1]
          BY <5>1, <2>5
        <5>3. i + 1 < j + 1
          BY <3>1
        <5> QED
          BY <5>2, <5>3, <4>2, <2>0, <2>11 DEF Ordered
      <4> QED
        BY <4>1, <4>2, <2>5
    <3>2. Ordered(new)
      BY <3>1, <2>4 DEF Ordered
    <3>3. \A i \in 1 .. n : i # f => list[i].item # row.item
      <4> SUFFICES ASSUME NEW i \in 1 .. n, i # f PROVE list[i].item # row.item
        OBVIOUS
      <4>1. i < f \/ f < i
        BY <2>4
      <4> QED
        BY <4>1, <2>0, <2>2, <2>11 DEF Ordered
    <3>4. \A i \in 1 .. (n - 1) : new[i].item # row.item
      BY <3>3, <2>7
    <3>5. \A i \in DOMAIN new : new[i].item # row.item
      BY <3>4, <2>4
    <3> QED
      BY <3>2, <3>5, InListMeans
  <2> QED
    BY <2>1, <2>3, <2>8, <2>9, <2>10, <2>11
<1> QED
  BY <1>1, <1>2

\* onEventsAdded: events that have a row keep it, the others get one.
LEMMA AddRowsEffect ==
    ASSUME NEW list \in Seq(Row), NEW items \in Seq(Row)
    PROVE  /\ AddRows(list, items) \in Seq(Row)
           /\ ItemsOf(AddRows(list, items)) = ItemsOf(list) \cup ItemsOf(items)
           /\ \A x \in Items : x \in ItemsOf(list) \/ x \notin ItemsOf(items) =>
                  VersionsIn(AddRows(list, items), x) = VersionsIn(list, x)
           /\ \A x \in Items : x \notin ItemsOf(list) /\ x \in ItemsOf(items) =>
                  \E i \in DOMAIN items : /\ items[i].item = x
                                          /\ VersionsIn(AddRows(list, items), x) = {items[i].version}
           /\ Ordered(list) => Ordered(AddRows(list, items))
<1> DEFINE n == Len(items)
           First(k) == {items[i].item : i \in 1 .. k}
<1>0. n \in Nat /\ DOMAIN items = 1 .. n /\ \A i \in 1 .. n : items[i] \in Row /\ items[i].item \in Items
  BY RowsAre
<1>1. PICK after : /\ after[0] = list
                   /\ \A k \in 1 .. n : after[k] = Handle("add", after[k - 1], items[k])
                   /\ HandleAll("add", list, items) = after[n]
  BY HandleAllSteps, <1>0, SMTT(20)
<1> DEFINE P(k) == /\ after[k] \in Seq(Row)
                   /\ ItemsOf(after[k]) = ItemsOf(list) \cup First(k)
                   /\ \A x \in Items : x \in ItemsOf(list) \/ x \notin First(k) =>
                          VersionsIn(after[k], x) = VersionsIn(list, x)
                   /\ \A x \in Items : x \notin ItemsOf(list) /\ x \in First(k) =>
                          \E i \in 1 .. k : /\ items[i].item = x
                                            /\ VersionsIn(after[k], x) = {items[i].version}
                   /\ Ordered(list) => Ordered(after[k])
           T == {k \in 0 .. n : P(k)}
<1>2. 0 \in T
  <2>1. First(0) = {}
    OBVIOUS
  <2>2. 0 \in 0 .. n
    BY <1>0
  <2>3. P(0)
    BY <2>1, <1>1
  <2> QED
    BY <2>2, <2>3
<1>3. ASSUME NEW k \in 1 .. n, k - 1 \in T PROVE k \in T
  <2> DEFINE old == after[k - 1]
             new == after[k]
             row == items[k]
  <2>1. P(k - 1)
    BY <1>3
  <2>2. new = AddRow(old, row)
    <3>1. new = Handle("add", old, row)
      BY <1>1
    <3> QED
      BY <3>1 DEF Handle
  <2>3. row \in Row /\ row.item \in Items /\ k \in Int /\ k \in 1 .. k
    BY <1>0
  <2>4. First(k) = First(k - 1) \cup {row.item}
    <3>1. \A i : i \in 1 .. k <=> i \in 1 .. (k - 1) \/ i = k
      BY <2>3
    <3> QED
      BY <3>1
  <2>5. \A i \in 1 .. (k - 1) : i \in 1 .. k
    BY <2>3
  <2>6. old \in Seq(Row)
    BY <2>1
  <2> HIDE DEF old, row, new, First
  <2>7. /\ new \in Seq(Row)
        /\ ItemsOf(new) = ItemsOf(old) \cup {row.item}
        /\ \A x \in Items : VersionsIn(new, x) =
               IF x = row.item /\ x \notin ItemsOf(old) THEN {row.version} ELSE VersionsIn(old, x)
        /\ Ordered(old) => Ordered(new)
    BY <2>2, <2>3, <2>6, AddRowEffect
  <2>8. ItemsOf(old) = ItemsOf(list) \cup First(k - 1)
    BY <2>1 DEF old
  <2>9. ASSUME NEW x \in Items, x \in ItemsOf(list) \/ x \notin First(k)
        PROVE  VersionsIn(new, x) = VersionsIn(list, x)
    <3>1. VersionsIn(old, x) = VersionsIn(list, x)
      BY <2>1, <2>4, <2>9 DEF old
    <3>2. ~(x = row.item /\ x \notin ItemsOf(old))
      BY <2>4, <2>8, <2>9
    <3> QED
      BY <3>1, <3>2, <2>7
  <2>10. ASSUME NEW x \in Items, x \notin ItemsOf(list), x \in First(k)
         PROVE  \E i \in 1 .. k : items[i].item = x /\ VersionsIn(new, x) = {items[i].version}
    <3>1. CASE x \in First(k - 1)
      <4>1. PICK i \in 1 .. (k - 1) : items[i].item = x /\ VersionsIn(old, x) = {items[i].version}
        BY <2>1, <2>10, <3>1 DEF old
      <4>2. VersionsIn(new, x) = VersionsIn(old, x)
        BY <2>7, <2>8, <3>1
      <4> QED
        BY <4>1, <4>2, <2>5
    <3>2. CASE x \notin First(k - 1)
      <4>1. x = row.item /\ x \notin ItemsOf(old)
        BY <2>4, <2>8, <2>10, <3>2
      <4>2. VersionsIn(new, x) = {row.version}
        BY <4>1, <2>7
      <4> QED
        BY <4>1, <4>2, <2>3 DEF row
    <3> QED
      BY <3>1, <3>2
  <2>11. Ordered(list) => Ordered(new)
    BY <2>1, <2>7 DEF old
  <2>12. ItemsOf(new) = ItemsOf(list) \cup First(k)
    BY <2>4, <2>7, <2>8
  <2>13. P(k)
    BY <2>7, <2>9, <2>10, <2>11, <2>12 DEF new
  <2>14. k \in 0 .. n
    BY <1>0
  <2> HIDE DEF P
  <2> QED
    BY <2>13, <2>14
<1>4. n \in T
  <2> HIDE DEF T
  <2> QED
    BY <1>0, <1>2, <1>3, Climb
<1>5. P(n)
  BY <1>4
<1>6. First(n) = ItemsOf(items)
  BY <1>0 DEF ItemsOf
<1>7. AddRows(list, items) = after[n]
  BY <1>1 DEF AddRows
<1> HIDE DEF First, n
<1> QED
  BY <1>0, <1>5, <1>6, <1>7

\* What a signal says of an event last.
SaysLast(items, x, v) ==
    \E k \in DOMAIN items : /\ items[k] = Versioned(x, v)
                            /\ \A j \in DOMAIN items : j > k => items[j].item # x

\* The first loop of onEventsModified: the last version said of a row stays.
LEMMA ReplaceRowsEffect ==
    ASSUME NEW list \in Seq(Row), NEW items \in Seq(Row)
    PROVE  /\ HandleAll("replace", list, items) \in Seq(Row)
           /\ ItemsOf(HandleAll("replace", list, items)) = ItemsOf(list)
           /\ \A x \in Items \ ItemsOf(items) :
                  VersionsIn(HandleAll("replace", list, items), x) = VersionsIn(list, x)
           /\ Ordered(list) =>
                /\ Ordered(HandleAll("replace", list, items))
                /\ \A x \in ItemsOf(list) : \A v : SaysLast(items, x, v) =>
                       VersionsIn(HandleAll("replace", list, items), x) = {v}
<1> DEFINE n == Len(items)
           First(k) == {items[i].item : i \in 1 .. k}
           SaidLast(k, x, v) == \E i \in 1 .. k : /\ items[i] = Versioned(x, v)
                                              /\ \A j \in (i + 1) .. k : items[j].item # x
<1>0. n \in Nat /\ DOMAIN items = 1 .. n /\ \A i \in 1 .. n : items[i] \in Row /\ items[i].item \in Items
  BY RowsAre
<1>1. PICK after : /\ after[0] = list
                   /\ \A k \in 1 .. n : after[k] = Handle("replace", after[k - 1], items[k])
                   /\ HandleAll("replace", list, items) = after[n]
  BY HandleAllSteps, <1>0, SMTT(20)
<1> DEFINE P(k) == /\ after[k] \in Seq(Row)
                   /\ ItemsOf(after[k]) = ItemsOf(list)
                   /\ \A x \in Items \ First(k) : VersionsIn(after[k], x) = VersionsIn(list, x)
                   /\ Ordered(list) =>
                        /\ Ordered(after[k])
                        /\ \A x \in ItemsOf(list) : \A v : SaidLast(k, x, v) => VersionsIn(after[k], x) = {v}
           T == {k \in 0 .. n : P(k)}
<1>2. 0 \in T
  <2>1. First(0) = {} /\ \A x, v : ~SaidLast(0, x, v)
    OBVIOUS
  <2>2. 0 \in 0 .. n
    BY <1>0
  <2> HIDE DEF First, SaidLast
  <2>3. P(0)
    BY <2>1, <1>1
  <2> QED
    BY <2>2, <2>3
<1>3. ASSUME NEW k \in 1 .. n, k - 1 \in T PROVE k \in T
  <2> DEFINE old == after[k - 1]
             new == after[k]
             row == items[k]
  <2>1. P(k - 1)
    BY <1>3
  <2>2. new = ReplaceRow(old, row)
    <3>1. new = Handle("replace", old, row)
      BY <1>1
    <3> QED
      BY <3>1 DEF Handle
  <2>3. row \in Row /\ row.item \in Items /\ k \in Int /\ k \in 1 .. k
    BY <1>0
  <2>4. First(k) = First(k - 1) \cup {row.item}
    <3>1. \A i : i \in 1 .. k <=> i \in 1 .. (k - 1) \/ i = k
      BY <2>3
    <3> QED
      BY <3>1
  <2>5. ASSUME NEW x, NEW v, SaidLast(k, x, v) PROVE row = Versioned(x, v) \/ (x # row.item /\ SaidLast(k - 1, x, v))
    <3>1. PICK i \in 1 .. k : items[i] = Versioned(x, v) /\ \A j \in (i + 1) .. k : items[j].item # x
      BY <2>5
    <3>2. CASE i = k
      BY <3>1, <3>2
    <3>3. CASE i # k
      <4>1. i \in 1 .. (k - 1) /\ k \in (i + 1) .. k /\ \A j \in (i + 1) .. (k - 1) : j \in (i + 1) .. k
        BY <2>3, <3>3
      <4> QED
        BY <4>1, <3>1
    <3> QED
      BY <3>2, <3>3
  <2>6. old \in Seq(Row)
    BY <2>1
  <2> HIDE DEF old, row, new, First, SaidLast
  <2>7. /\ new \in Seq(Row)
        /\ ItemsOf(new) = ItemsOf(old)
        /\ \A x \in Items \ {row.item} : VersionsIn(new, x) = VersionsIn(old, x)
        /\ Ordered(old) => /\ Ordered(new)
                           /\ row.item \in ItemsOf(old) => VersionsIn(new, row.item) = {row.version}
    BY <2>2, <2>3, <2>6, ReplaceRowEffect
  <2>8. ItemsOf(new) = ItemsOf(list)
    BY <2>1, <2>7 DEF old
  <2>9. ASSUME NEW x \in Items \ First(k)
        PROVE  VersionsIn(new, x) = VersionsIn(list, x)
    <3>1. VersionsIn(old, x) = VersionsIn(list, x)
      BY <2>1, <2>4, <2>9 DEF old
    <3>2. x # row.item
      BY <2>4, <2>9
    <3> QED
      BY <3>1, <3>2, <2>7
  <2>10. ASSUME Ordered(list), NEW x \in ItemsOf(list), NEW v, SaidLast(k, x, v)
         PROVE  VersionsIn(new, x) = {v}
    <3>1. Ordered(old) /\ x \in ItemsOf(old) /\ x \in Items
      BY <2>1, <2>10, RowsAre DEF old
    <3>2. CASE row = Versioned(x, v)
      <4>1. row.item = x /\ row.version = v
        BY <3>2 DEF Versioned
      <4> QED
        BY <4>1, <3>1, <2>7
    <3>3. CASE x # row.item /\ SaidLast(k - 1, x, v)
      <4>1. VersionsIn(old, x) = {v}
        BY <2>1, <2>10, <3>3 DEF old
      <4> QED
        BY <4>1, <3>1, <3>3, <2>7
    <3> QED
      BY <3>2, <3>3, <2>5, <2>10
  <2>11. Ordered(list) => Ordered(new)
    BY <2>1, <2>7 DEF old
  <2>13. P(k)
    BY <2>7, <2>8, <2>9, <2>10, <2>11 DEF new
  <2>14. k \in 0 .. n
    BY <1>0
  <2> HIDE DEF P
  <2> QED
    BY <2>13, <2>14
<1>4. n \in T
  <2> HIDE DEF T
  <2> QED
    BY <1>0, <1>2, <1>3, Climb
<1>5. P(n)
  BY <1>4
<1>6. First(n) = ItemsOf(items)
  BY <1>0 DEF ItemsOf
<1>7. ASSUME NEW x, NEW v, SaysLast(items, x, v) PROVE SaidLast(n, x, v)
  <2>1. PICK i \in 1 .. n : items[i] = Versioned(x, v) /\ \A j \in 1 .. n : j > i => items[j].item # x
    BY <1>0, <1>7 DEF SaysLast
  <2>2. \A j \in (i + 1) .. n : j \in 1 .. n /\ j > i
    BY <1>0
  <2> QED
    BY <2>1, <2>2
<1> HIDE DEF First, SaidLast, n
<1> QED
  BY <1>0, <1>1, <1>5, <1>6, <1>7

\* onEventsRemoved: a row of each event is gone, and no other.
LEMMA RemoveRowsEffect ==
    ASSUME NEW list \in Seq(Row), NEW items \in Seq(Row)
    PROVE  /\ RemoveRows(list, items) \in Seq(Row)
           /\ ItemsOf(list) \ ItemsOf(items) \subseteq ItemsOf(RemoveRows(list, items))
           /\ ItemsOf(RemoveRows(list, items)) \subseteq ItemsOf(list)
           /\ \A x \in Items \ ItemsOf(items) : VersionsIn(RemoveRows(list, items), x) = VersionsIn(list, x)
           /\ Ordered(list) =>
                /\ Ordered(RemoveRows(list, items))
                /\ \A x \in ItemsOf(items) : x \notin ItemsOf(RemoveRows(list, items))
<1> DEFINE n == Len(items)
           First(k) == {items[i].item : i \in 1 .. k}
<1>0. n \in Nat /\ DOMAIN items = 1 .. n /\ \A i \in 1 .. n : items[i] \in Row /\ items[i].item \in Items
  BY RowsAre
<1>1. PICK after : /\ after[0] = list
                   /\ \A k \in 1 .. n : after[k] = Handle("remove", after[k - 1], items[k])
                   /\ HandleAll("remove", list, items) = after[n]
  BY HandleAllSteps, <1>0, SMTT(20)
<1> DEFINE P(k) == /\ after[k] \in Seq(Row)
                   /\ ItemsOf(list) \ First(k) \subseteq ItemsOf(after[k])
                   /\ ItemsOf(after[k]) \subseteq ItemsOf(list)
                   /\ \A x \in Items \ First(k) : VersionsIn(after[k], x) = VersionsIn(list, x)
                   /\ Ordered(list) => /\ Ordered(after[k])
                                       /\ \A x \in First(k) : x \notin ItemsOf(after[k])
           T == {k \in 0 .. n : P(k)}
<1>2. 0 \in T
  <2>1. First(0) = {}
    OBVIOUS
  <2>2. 0 \in 0 .. n
    BY <1>0
  <2> HIDE DEF First
  <2>3. P(0)
    BY <2>1, <1>1
  <2> QED
    BY <2>2, <2>3
<1>3. ASSUME NEW k \in 1 .. n, k - 1 \in T PROVE k \in T
  <2> DEFINE old == after[k - 1]
             new == after[k]
             row == items[k]
  <2>1. P(k - 1)
    BY <1>3
  <2>2. new = RemoveRow(old, row)
    <3>1. new = Handle("remove", old, row)
      BY <1>1
    <3> QED
      BY <3>1 DEF Handle
  <2>3. row \in Row /\ row.item \in Items /\ k \in Int /\ k \in 1 .. k
    BY <1>0
  <2>4. First(k) = First(k - 1) \cup {row.item}
    <3>1. \A i : i \in 1 .. k <=> i \in 1 .. (k - 1) \/ i = k
      BY <2>3
    <3> QED
      BY <3>1
  <2>6. old \in Seq(Row)
    BY <2>1
  <2> HIDE DEF old, row, new, First
  <2>7. /\ new \in Seq(Row)
        /\ ItemsOf(old) \ {row.item} \subseteq ItemsOf(new)
        /\ ItemsOf(new) \subseteq ItemsOf(old)
        /\ \A x \in Items \ {row.item} : VersionsIn(new, x) = VersionsIn(old, x)
        /\ Ordered(old) => /\ Ordered(new)
                           /\ row.item \notin ItemsOf(new)
    BY <2>2, <2>3, <2>6, RemoveRowEffect
  <2>8. /\ ItemsOf(list) \ First(k - 1) \subseteq ItemsOf(old)
        /\ ItemsOf(old) \subseteq ItemsOf(list)
        /\ \A x \in Items \ First(k - 1) : VersionsIn(old, x) = VersionsIn(list, x)
        /\ Ordered(list) => /\ Ordered(old)
                            /\ \A x \in First(k - 1) : x \notin ItemsOf(old)
    BY <2>1 DEF old
  <2>9. \A x \in Items \ First(k) : VersionsIn(new, x) = VersionsIn(list, x)
    BY <2>4, <2>7, <2>8
  <2>10. ItemsOf(list) \ First(k) \subseteq ItemsOf(new) /\ ItemsOf(new) \subseteq ItemsOf(list)
    BY <2>4, <2>7, <2>8
  <2>11. Ordered(list) => Ordered(new) /\ \A x \in First(k) : x \notin ItemsOf(new)
    BY <2>4, <2>7, <2>8
  <2>13. P(k)
    BY <2>7, <2>9, <2>10, <2>11 DEF new
  <2>14. k \in 0 .. n
    BY <1>0
  <2> HIDE DEF P
  <2> QED
    BY <2>13, <2>14
<1>4. n \in T
  <2> HIDE DEF T
  <2> QED
    BY <1>0, <1>2, <1>3, Climb
<1>5. P(n)
  BY <1>4
<1>6. First(n) = ItemsOf(items)
  BY <1>0 DEF ItemsOf
<1>7. RemoveRows(list, items) = after[n]
  BY <1>1 DEF RemoveRows
<1> HIDE DEF First, n
<1> QED
  BY <1>0, <1>5, <1>6, <1>7

\* onEventsModified with the events it adds.
LEMMA ModifyRowsEffect ==
    ASSUME NEW list \in Seq(Row), NEW items \in Seq(Row)
    PROVE  /\ ModifyRows(list, items) \in Seq(Row)
           /\ ItemsOf(ModifyRows(list, items)) = ItemsOf(list) \cup ItemsOf(items)
           /\ \A x \in Items \ ItemsOf(items) : VersionsIn(ModifyRows(list, items), x) = VersionsIn(list, x)
           /\ Ordered(list) =>
                /\ Ordered(ModifyRows(list, items))
                /\ \A x \in ItemsOf(list) : \A v : SaysLast(items, x, v) =>
                       VersionsIn(ModifyRows(list, items), x) = {v}
<1> DEFINE replaced == HandleAll("replace", list, items)
<1>1. /\ replaced \in Seq(Row)
      /\ ItemsOf(replaced) = ItemsOf(list)
      /\ \A x \in Items \ ItemsOf(items) : VersionsIn(replaced, x) = VersionsIn(list, x)
      /\ Ordered(list) =>
           /\ Ordered(replaced)
           /\ \A x \in ItemsOf(list) : \A v : SaysLast(items, x, v) => VersionsIn(replaced, x) = {v}
  BY ReplaceRowsEffect
<1>2. ModifyRows(list, items) = AddRows(replaced, items)
  BY DEF ModifyRows
<1>3. ItemsOf(list) \subseteq Items
  BY RowsAre
<1> HIDE DEF replaced
<1>4. /\ AddRows(replaced, items) \in Seq(Row)
      /\ ItemsOf(AddRows(replaced, items)) = ItemsOf(replaced) \cup ItemsOf(items)
      /\ \A x \in Items : x \in ItemsOf(replaced) \/ x \notin ItemsOf(items) =>
             VersionsIn(AddRows(replaced, items), x) = VersionsIn(replaced, x)
      /\ Ordered(replaced) => Ordered(AddRows(replaced, items))
  BY <1>1, AddRowsEffect
<1> QED
  BY <1>1, <1>2, <1>3, <1>4

-----------------------------------------------------------------------------
(* What a line of messages says of one event                               *)

Once(items, x) == \A i, j \in DOMAIN items : items[i].item = x /\ items[j].item = x => i = j

Latest(p, own) == p \in own /\ \A r \in own : r <= p

\* A stored event: the last message about it is its last write, and nothing removes it later.
WrittenLast(own, removals, line, x, v) ==
    v # 0 => /\ \A p \in own : Latest(p, own) => /\ line[p].signal # "eventsRemoved"
                                               /\ SaysLast(line[p].items, x, v)
                                               /\ \A r \in removals : r <= p
             /\ own = {} => removals = {}

\* One that is not: the last message about it removes it, or one about its thread does.
RemovedLast(own, removals, line, v) ==
    v = 0 => \A p \in own : Latest(p, own) =>
                 \/ line[p].signal = "eventsRemoved"
                 \/ \E r \in removals : r > p /\ line[r].signal = "threadsRemoved"

\* An event is not added twice without a removal in between.
AddedOnce(own, removals, line, x) ==
    \A b \in own : line[b].signal = "eventsAdded" =>
        /\ Once(line[b].items, x)
        /\ \A a \in own : a < b /\ line[a].signal # "eventsRemoved" => \E r \in removals : a < r /\ r < b

\* Nor modified after a removal, unless it was written in between.
ModifiedIfThere(own, removals, line) ==
    \A b \in own : Latest(b, own) /\ line[b].signal = "eventsModified" =>
        \/ \A r \in removals : r >= b
        \/ \E a \in own : a < b /\ line[a].signal # "eventsRemoved" /\ \A r \in removals : ~(a < r /\ r < b)

\* What a line of messages says of event x, whose row in the database is v.
Told(own, removals, line, x, v) ==
    /\ WrittenLast(own, removals, line, x, v)
    /\ RemovedLast(own, removals, line, v)
    /\ AddedOnce(own, removals, line, x)
    /\ ModifiedIfThere(own, removals, line)

\* What the rows show of it, when these messages are still to come.
Ready(own, removals, line, v, shown) ==
    /\ v # 0 /\ own = {} => shown = {v}
    /\ v = 0 /\ own = {} /\ (\A r \in removals : line[r].signal # "threadsRemoved") => shown = {}
    /\ \A p \in own : Latest(p, own) /\ v # 0 /\ (\A r \in removals : r >= p) =>
          /\ line[p].signal = "eventsAdded" => shown \subseteq {v}
          /\ line[p].signal = "eventsModified" /\ (\A a \in own : a >= p) => shown # {}

LEMMA LastExists ==
    ASSUME NEW own, own # {}, NEW n \in Int, \A s \in own : s \in Int /\ s <= n
    PROVE  \E p \in own : Latest(p, own)
<1> DEFINE T == {n - s : s \in own}
<1>1. T \subseteq Nat /\ T # {}
  OBVIOUS
<1>2. PICK k \in T : \A j \in T : k <= j
  <2> HIDE DEF T
  <2> QED
    BY <1>1, LeastNumber
<1>3. PICK p \in own : k = n - p
  BY <1>2
<1>4. \A r \in own : r <= p
  <2> SUFFICES ASSUME NEW r \in own PROVE r <= p
    OBVIOUS
  <2>1. n - p <= n - r
    BY <1>2, <1>3
  <2> QED
    BY <2>1
<1> QED
  BY <1>3, <1>4 DEF Latest

\* The same messages at other places, in the same order, say the same.
LEMMA ToldMoved ==
    ASSUME NEW own, NEW removals, NEW line, NEW own2, NEW removals2, NEW line2, NEW f, NEW x, NEW v,
           \A s \in own \cup removals : s \in Int /\ f[s] \in Int,
           \A s, t \in own \cup removals : s < t => f[s] < f[t],
           own2 = {f[s] : s \in own}, removals2 = {f[s] : s \in removals},
           \A s \in own \cup removals : line2[f[s]].signal = line[s].signal,
           \A s \in own : /\ SaysLast(line[s].items, x, v) => SaysLast(line2[f[s]].items, x, v)
                          /\ Once(line[s].items, x) => Once(line2[f[s]].items, x)
    PROVE  /\ Told(own, removals, line, x, v) => Told(own2, removals2, line2, x, v)
           /\ \A shown : Ready(own, removals, line, v, shown) => Ready(own2, removals2, line2, v, shown)
<1>1. \A s, t \in own \cup removals : (s < t <=> f[s] < f[t]) /\ (s <= t <=> f[s] <= f[t])
  <2> SUFFICES ASSUME NEW s \in own \cup removals, NEW t \in own \cup removals
               PROVE  (s < t <=> f[s] < f[t]) /\ (s <= t <=> f[s] <= f[t])
    OBVIOUS
  <2>1. s \in Int /\ t \in Int /\ f[s] \in Int /\ f[t] \in Int
    OBVIOUS
  <2>2. s < t \/ s = t \/ t < s
    BY <2>1
  <2>3. (s < t => f[s] < f[t]) /\ (t < s => f[t] < f[s])
    OBVIOUS
  <2> QED
    BY <2>1, <2>2, <2>3
<1>2. \A s \in own : Latest(f[s], own2) => Latest(s, own)
  BY <1>1 DEF Latest
<1>3. own = {} <=> own2 = {}
  OBVIOUS
<1>4. removals = {} <=> removals2 = {}
  OBVIOUS
<1>5. ASSUME Told(own, removals, line, x, v) PROVE Told(own2, removals2, line2, x, v)
  <2>1. WrittenLast(own2, removals2, line2, x, v)
    <3> SUFFICES ASSUME v # 0
                 PROVE  /\ \A p \in own2 : Latest(p, own2) =>
                               /\ line2[p].signal # "eventsRemoved"
                               /\ SaysLast(line2[p].items, x, v)
                               /\ \A r \in removals2 : r <= p
                        /\ own2 = {} => removals2 = {}
      BY DEF WrittenLast
    <3>1. /\ \A p \in own : Latest(p, own) => /\ line[p].signal # "eventsRemoved"
                                            /\ SaysLast(line[p].items, x, v)
                                            /\ \A r \in removals : r <= p
          /\ own = {} => removals = {}
      BY <1>5 DEF Told, WrittenLast
    <3>2. ASSUME NEW p \in own, Latest(f[p], own2)
          PROVE  /\ line2[f[p]].signal # "eventsRemoved"
                 /\ SaysLast(line2[f[p]].items, x, v)
                 /\ \A r \in removals2 : r <= f[p]
      <4>1. /\ line[p].signal # "eventsRemoved"
            /\ SaysLast(line[p].items, x, v)
            /\ \A r \in removals : r <= p
        BY <1>2, <3>1, <3>2
      <4>2. \A r \in removals : f[r] <= f[p]
        BY <4>1, <1>1
      <4> QED
        BY <4>1, <4>2
    <3>3. \A p \in own2 : Latest(p, own2) =>
             /\ line2[p].signal # "eventsRemoved"
             /\ SaysLast(line2[p].items, x, v)
             /\ \A r \in removals2 : r <= p
      BY <3>2
    <3> QED
      BY <1>3, <1>4, <3>1, <3>3
  <2>2. RemovedLast(own2, removals2, line2, v)
    <3> SUFFICES ASSUME v = 0, NEW q \in own2, Latest(q, own2)
                 PROVE  \/ line2[q].signal = "eventsRemoved"
                        \/ \E r \in removals2 : r > q /\ line2[r].signal = "threadsRemoved"
      BY DEF RemovedLast
    <3>0. PICK p \in own : q = f[p]
      OBVIOUS
    <3>1. \/ line[p].signal = "eventsRemoved"
          \/ \E r \in removals : r > p /\ line[r].signal = "threadsRemoved"
      BY <1>2, <1>5, <3>0 DEF Told, RemovedLast
    <3>2. ASSUME NEW r \in removals, r > p, line[r].signal = "threadsRemoved"
          PROVE  f[r] \in removals2 /\ f[r] > f[p] /\ line2[f[r]].signal = "threadsRemoved"
      <4>1. p < r /\ p \in own \cup removals /\ r \in own \cup removals
        BY <3>2
      <4>2. f[p] < f[r] /\ f[p] \in Int /\ f[r] \in Int
        BY <4>1
      <4> QED
        BY <4>2, <3>2
    <3> QED
      BY <3>0, <3>1, <3>2
  <2>3. AddedOnce(own2, removals2, line2, x)
    <3> SUFFICES ASSUME NEW b \in own, line2[f[b]].signal = "eventsAdded"
                 PROVE  /\ Once(line2[f[b]].items, x)
                        /\ \A a \in own : f[a] < f[b] /\ line2[f[a]].signal # "eventsRemoved" =>
                              \E r \in removals2 : f[a] < r /\ r < f[b]
      BY DEF AddedOnce
    <3>1. /\ Once(line[b].items, x)
          /\ \A a \in own : a < b /\ line[a].signal # "eventsRemoved" =>
                \E r \in removals : a < r /\ r < b
      BY <1>5 DEF Told, AddedOnce
    <3>2. ASSUME NEW a \in own, f[a] < f[b], line2[f[a]].signal # "eventsRemoved"
          PROVE  \E r \in removals2 : f[a] < r /\ r < f[b]
      <4>1. a < b /\ line[a].signal # "eventsRemoved"
        BY <1>1, <3>2
      <4>2. PICK r \in removals : a < r /\ r < b
        BY <3>1, <4>1
      <4>3. f[a] < f[r] /\ f[r] < f[b] /\ f[r] \in removals2
        BY <4>2
      <4> QED
        BY <4>3
    <3> QED
      BY <3>1, <3>2
  <2>4. ModifiedIfThere(own2, removals2, line2)
    <3> SUFFICES ASSUME NEW c \in own2, Latest(c, own2), line2[c].signal = "eventsModified"
                 PROVE  \/ \A r \in removals2 : r >= c
                        \/ \E a \in own2 : /\ a < c /\ line2[a].signal # "eventsRemoved"
                                           /\ \A r \in removals2 : ~(a < r /\ r < c)
      BY DEF ModifiedIfThere
    <3>0. PICK b \in own : c = f[b]
      OBVIOUS
    <3>1. \/ \A r \in removals : r >= b
          \/ \E a \in own : a < b /\ line[a].signal # "eventsRemoved" /\ \A r \in removals : ~(a < r /\ r < b)
      <4>1. Latest(b, own) /\ line[b].signal = "eventsModified"
        BY <1>2, <3>0
      <4> QED
        BY <4>1, <1>5 DEF Told, ModifiedIfThere
    <3>2. CASE \A r \in removals : r >= b
      <4>1. ASSUME NEW r \in removals PROVE f[r] >= f[b]
        <5>1. b <= r /\ b \in own \cup removals /\ r \in own \cup removals
          BY <3>2
        <5>2. f[b] <= f[r] /\ f[b] \in Int /\ f[r] \in Int
          BY <5>1, <1>1
        <5> QED
          BY <5>2
      <4> QED
        BY <4>1, <3>0
    <3>3. ASSUME NEW a \in own, a < b, line[a].signal # "eventsRemoved",
                 \A r \in removals : ~(a < r /\ r < b)
          PROVE  f[a] < f[b] /\ line2[f[a]].signal # "eventsRemoved"
                 /\ \A r \in removals2 : ~(f[a] < r /\ r < f[b])
      BY <1>1, <3>3
    <3> QED
      BY <3>0, <3>1, <3>2, <3>3
  <2> QED
    BY <2>1, <2>2, <2>3, <2>4 DEF Told
<1>6. ASSUME NEW shown, Ready(own, removals, line, v, shown) PROVE Ready(own2, removals2, line2, v, shown)
  <2>1. v # 0 /\ own2 = {} => shown = {v}
    BY <1>3, <1>6 DEF Ready
  <2>2. v = 0 /\ own2 = {} /\ (\A r \in removals2 : line2[r].signal # "threadsRemoved") => shown = {}
    <3>1. (\A r \in removals2 : line2[r].signal # "threadsRemoved") =>
          (\A r \in removals : line[r].signal # "threadsRemoved")
      OBVIOUS
    <3> QED
      BY <3>1, <1>3, <1>6 DEF Ready
  <2>3. ASSUME NEW p \in own, Latest(f[p], own2), v # 0, \A r \in removals2 : r >= f[p]
        PROVE  /\ line2[f[p]].signal = "eventsAdded" => shown \subseteq {v}
               /\ line2[f[p]].signal = "eventsModified" /\ (\A a \in own2 : a >= f[p]) => shown # {}
    <3>1. ASSUME NEW s \in own \cup removals, f[s] >= f[p] PROVE s >= p
      <4>1. f[p] <= f[s] /\ p \in own \cup removals /\ p \in Int /\ s \in Int
        BY <3>1
      <4>2. p <= s
        BY <4>1, <1>1
      <4> QED
        BY <4>1, <4>2
    <3>2. Latest(p, own) /\ \A r \in removals : r >= p
      BY <1>2, <2>3, <3>1
    <3>3. (\A a \in own2 : a >= f[p]) => \A a \in own : a >= p
      BY <3>1
    <3>4. /\ line[p].signal = "eventsAdded" => shown \subseteq {v}
          /\ line[p].signal = "eventsModified" /\ (\A a \in own : a >= p) => shown # {}
      BY <3>2, <2>3, <1>6 DEF Ready
    <3>5. line2[f[p]].signal = line[p].signal
      OBVIOUS
    <3> QED
      BY <3>3, <3>4, <3>5
  <2>4. \A q \in own2 : Latest(q, own2) /\ v # 0 /\ (\A r \in removals2 : r >= q) =>
           /\ line2[q].signal = "eventsAdded" => shown \subseteq {v}
           /\ line2[q].signal = "eventsModified" /\ (\A a \in own2 : a >= q) => shown # {}
    <3> SUFFICES ASSUME NEW q \in own2, Latest(q, own2), v # 0, \A r \in removals2 : r >= q
                 PROVE  /\ line2[q].signal = "eventsAdded" => shown \subseteq {v}
                        /\ line2[q].signal = "eventsModified" /\ (\A a \in own2 : a >= q) => shown # {}
      OBVIOUS
    <3>1. PICK p \in own : q = f[p]
      OBVIOUS
    <3> QED
      BY <3>1, <2>3
  <2> QED
    BY <2>1, <2>2, <2>4 DEF Ready
<1> QED
  BY <1>5, <1>6

LEMMA ToldSame ==
    ASSUME NEW own, NEW removals, NEW line, NEW line2, NEW x, NEW v,
           \A s \in own \cup removals : s \in Int,
           \A s \in own \cup removals : line2[s].signal = line[s].signal,
           \A s \in own : /\ SaysLast(line[s].items, x, v) => SaysLast(line2[s].items, x, v)
                          /\ Once(line[s].items, x) => Once(line2[s].items, x)
    PROVE  /\ Told(own, removals, line, x, v) => Told(own, removals, line2, x, v)
           /\ \A shown : Ready(own, removals, line, v, shown) => Ready(own, removals, line2, v, shown)
<1> DEFINE f == [s \in own \cup removals |-> s]
<1>1. \A s \in own \cup removals : f[s] = s
  OBVIOUS
<1>2. own = {f[s] : s \in own} /\ removals = {f[s] : s \in removals}
  OBVIOUS
<1> HIDE DEF f
<1>3. /\ \A s \in own \cup removals : s \in Int /\ f[s] \in Int
      /\ \A s, t \in own \cup removals : s < t => f[s] < f[t]
      /\ \A s \in own \cup removals : line2[f[s]].signal = line[s].signal
      /\ \A s \in own : /\ SaysLast(line[s].items, x, v) => SaysLast(line2[f[s]].items, x, v)
                        /\ Once(line[s].items, x) => Once(line2[f[s]].items, x)
  BY <1>1
<1> QED
  BY <1>2, <1>3, ToldMoved

\* What is left when the first message has been received.
LEMMA ToldOfTheRest ==
    ASSUME NEW own, NEW removals, NEW line, NEW x, NEW v, NEW l \in Int,
           \A s \in own \cup removals : s \in Int /\ l <= s,
           Told(own, removals, line, x, v)
    PROVE  Told(own \ {l}, removals \ {l}, line, x, v)
<1> DEFINE own2 == own \ {l}
           removals2 == removals \ {l}
<1>1. \A p \in own2 : Latest(p, own2) => Latest(p, own) /\ l < p
  BY DEF Latest
<1>2. WrittenLast(own2, removals2, line, x, v)
  <2> SUFFICES ASSUME v # 0
               PROVE  /\ \A p \in own2 : Latest(p, own2) => /\ line[p].signal # "eventsRemoved"
                                                          /\ SaysLast(line[p].items, x, v)
                                                          /\ \A r \in removals2 : r <= p
                      /\ own2 = {} => removals2 = {}
    BY DEF WrittenLast
  <2>1. /\ \A p \in own : Latest(p, own) => /\ line[p].signal # "eventsRemoved"
                                          /\ SaysLast(line[p].items, x, v)
                                          /\ \A r \in removals : r <= p
        /\ own = {} => removals = {}
    BY DEF Told, WrittenLast
  <2>2. ASSUME own2 = {} PROVE removals2 = {}
    <3>1. CASE own = {}
      BY <3>1, <2>1
    <3>2. CASE own # {}
      <4>1. l \in own /\ Latest(l, own)
        BY <2>2, <3>2 DEF Latest
      <4>2. \A r \in removals : r <= l /\ l <= r /\ r \in Int
        BY <4>1, <2>1
      <4>3. \A r \in removals : r = l
        BY <4>2
      <4> QED
        BY <4>3
    <3> QED
      BY <3>1, <3>2
  <2> QED
    BY <2>1, <2>2, <1>1
<1>3. RemovedLast(own2, removals2, line, v)
  <2> SUFFICES ASSUME v = 0, NEW p \in own2, Latest(p, own2)
               PROVE  \/ line[p].signal = "eventsRemoved"
                      \/ \E r \in removals2 : r > p /\ line[r].signal = "threadsRemoved"
    BY DEF RemovedLast
  <2>1. \/ line[p].signal = "eventsRemoved"
        \/ \E r \in removals : r > p /\ line[r].signal = "threadsRemoved"
    BY <1>1 DEF Told, RemovedLast
  <2>2. \A r \in removals : r > p => r # l
    BY <1>1
  <2> QED
    BY <2>1, <2>2
<1>4. AddedOnce(own2, removals2, line, x)
  <2> SUFFICES ASSUME NEW b \in own2, line[b].signal = "eventsAdded"
               PROVE  /\ Once(line[b].items, x)
                      /\ \A a \in own2 : a < b /\ line[a].signal # "eventsRemoved" =>
                             \E r \in removals2 : a < r /\ r < b
    BY DEF AddedOnce
  <2>1. \A a \in own : \A r \in removals : a < r => r # l
    <3>1. \A a \in own : a \in Int /\ l <= a
      OBVIOUS
    <3> QED
      BY <3>1
  <2>2. /\ Once(line[b].items, x)
        /\ \A a \in own : a < b /\ line[a].signal # "eventsRemoved" =>
              \E r \in removals : a < r /\ r < b
    BY DEF Told, AddedOnce
  <2>3. ASSUME NEW a \in own2, a < b, line[a].signal # "eventsRemoved"
        PROVE  \E r \in removals2 : a < r /\ r < b
    <3>1. a \in own
      OBVIOUS
    <3>2. PICK r \in removals : a < r /\ r < b
      BY <2>2, <2>3, <3>1
    <3>3. r # l
      BY <2>1, <3>1, <3>2
    <3> QED
      BY <3>2, <3>3
  <2> QED
    BY <2>2, <2>3
<1>5. ModifiedIfThere(own2, removals2, line)
  <2> SUFFICES ASSUME NEW b \in own2, Latest(b, own2), line[b].signal = "eventsModified"
               PROVE  \/ \A r \in removals2 : r >= b
                      \/ \E a \in own2 : /\ a < b /\ line[a].signal # "eventsRemoved"
                                         /\ \A r \in removals2 : ~(a < r /\ r < b)
    BY DEF ModifiedIfThere
  <2>1. \/ \A r \in removals : r >= b
        \/ \E a \in own : a < b /\ line[a].signal # "eventsRemoved" /\ \A r \in removals : ~(a < r /\ r < b)
    BY <1>1 DEF Told, ModifiedIfThere
  <2>2. ASSUME NEW a \in own, a < b, line[a].signal # "eventsRemoved",
               \A r \in removals : ~(a < r /\ r < b), a = l
        PROVE  \A r \in removals2 : r >= b
    <3> SUFFICES ASSUME NEW r \in removals2 PROVE r >= b
      OBVIOUS
    <3>1. r \in removals /\ r # l /\ r \in Int /\ b \in Int /\ l <= r
      OBVIOUS
    <3>2. ~(l < r /\ r < b)
      BY <3>1, <2>2
    <3> QED
      BY <3>1, <3>2
  <2> QED
    BY <2>1, <2>2
<1> QED
  BY <1>2, <1>3, <1>4, <1>5 DEF Told

\* The first message is a signal about other events.
LEMMA ReadyForOthers ==
    ASSUME NEW own, NEW removals, NEW line, NEW v, NEW l, NEW shown,
           l \notin own, l \notin removals,
           Ready(own, removals, line, v, shown)
    PROVE  Ready(own \ {l}, removals \ {l}, line, v, shown)
<1>1. own \ {l} = own /\ removals \ {l} = removals
  OBVIOUS
<1> QED
  BY <1>1

\* It adds the event.
LEMMA ReadyAfterAdding ==
    ASSUME NEW own, NEW removals, NEW line, NEW x, NEW v, NEW l \in own, NEW shown, NEW new,
           \A s \in own \cup removals : s \in Int /\ l <= s,
           l \notin removals, line[l].signal = "eventsAdded",
           Told(own, removals, line, x, v), Ready(own, removals, line, v, shown),
           shown # {} => new = shown,
           shown = {} => \E i \in DOMAIN line[l].items : /\ line[l].items[i].item = x
                                                         /\ new = {line[l].items[i].version}
    PROVE  Ready(own \ {l}, removals \ {l}, line, v, new)
<1> DEFINE own2 == own \ {l}
           removals2 == removals \ {l}
<1>1. new # {}
  OBVIOUS
<1>2. ASSUME v # 0, own2 = {} PROVE new = {v}
  <2>1. Latest(l, own)
    BY <1>2 DEF Latest
  <2>2. SaysLast(line[l].items, x, v) /\ Once(line[l].items, x)
    BY <2>1, <1>2 DEF Told, WrittenLast, AddedOnce
  <2>3. shown \subseteq {v}
    <3>1. \A r \in removals : r >= l
      OBVIOUS
    <3> QED
      BY <2>1, <3>1, <1>2 DEF Ready
  <2>4. CASE shown # {}
    BY <2>3, <2>4
  <2>5. CASE shown = {}
    <3>1. PICK i \in DOMAIN line[l].items : line[l].items[i].item = x /\ new = {line[l].items[i].version}
      BY <2>5
    <3>2. PICK k \in DOMAIN line[l].items : line[l].items[k] = Versioned(x, v)
      BY <2>2 DEF SaysLast
    <3>3. k = i
      BY <2>2, <3>1, <3>2 DEF Once, Versioned
    <3> QED
      BY <3>1, <3>2, <3>3 DEF Versioned
  <2> QED
    BY <2>4, <2>5
<1>3. ASSUME v = 0, own2 = {}, \A r \in removals2 : line[r].signal # "threadsRemoved" PROVE new = {}
  <2>1. Latest(l, own)
    BY <1>3 DEF Latest
  <2>2. PICK r \in removals : r > l /\ line[r].signal = "threadsRemoved"
    BY <2>1, <1>3 DEF Told, RemovedLast
  <2>3. r # l
    BY <2>2
  <2> QED
    BY <2>2, <2>3, <1>3
<1>4. ASSUME NEW p \in own2, \A r \in removals2 : r >= p, line[p].signal = "eventsAdded" PROVE FALSE
  <2>1. l < p /\ line[l].signal # "eventsRemoved"
    OBVIOUS
  <2>2. PICK r \in removals : l < r /\ r < p
    BY <2>1, <1>4 DEF Told, AddedOnce
  <2>3. r \in removals2 /\ r \in Int /\ p \in Int
    BY <2>2
  <2>4. r >= p
    BY <2>3, <1>4
  <2> QED
    BY <2>2, <2>3, <2>4
<1> QED
  BY <1>1, <1>2, <1>3, <1>4 DEF Ready

\* It says what the event is now.
LEMMA ReadyAfterModifying ==
    ASSUME NEW own, NEW removals, NEW line, NEW x, NEW v, NEW l \in own, NEW shown, NEW new,
           \A s \in own \cup removals : s \in Int /\ l <= s,
           l \notin removals, line[l].signal = "eventsModified",
           Told(own, removals, line, x, v), Ready(own, removals, line, v, shown),
           new # {},
           shown # {} => \A w : SaysLast(line[l].items, x, w) => new = {w}
    PROVE  Ready(own \ {l}, removals \ {l}, line, v, new)
<1> DEFINE own2 == own \ {l}
           removals2 == removals \ {l}
<1>2. ASSUME v # 0, own2 = {} PROVE new = {v}
  <2>1. Latest(l, own)
    BY <1>2 DEF Latest
  <2>2. SaysLast(line[l].items, x, v)
    BY <2>1, <1>2 DEF Told, WrittenLast
  <2>3. shown # {}
    <3>1. (\A r \in removals : r >= l) /\ \A a \in own : a >= l
      OBVIOUS
    <3> QED
      BY <2>1, <3>1, <1>2 DEF Ready
  <2> QED
    BY <2>2, <2>3
<1>3. ASSUME v = 0, own2 = {}, \A r \in removals2 : line[r].signal # "threadsRemoved" PROVE new = {}
  <2>1. Latest(l, own)
    BY <1>3 DEF Latest
  <2>2. PICK r \in removals : r > l /\ line[r].signal = "threadsRemoved"
    BY <2>1, <1>3 DEF Told, RemovedLast
  <2>3. r # l
    BY <2>2
  <2> QED
    BY <2>2, <2>3, <1>3
<1>4. ASSUME NEW p \in own2, \A r \in removals2 : r >= p, line[p].signal = "eventsAdded" PROVE FALSE
  <2>1. l < p /\ line[l].signal # "eventsRemoved"
    OBVIOUS
  <2>2. PICK r \in removals : l < r /\ r < p
    BY <2>1, <1>4 DEF Told, AddedOnce
  <2>3. r \in removals2 /\ r \in Int /\ p \in Int
    BY <2>2
  <2>4. r >= p
    BY <2>3, <1>4
  <2> QED
    BY <2>2, <2>3, <2>4
<1> QED
  BY <1>2, <1>3, <1>4 DEF Ready

\* It removes the event, or the thread it is in.
LEMMA ReadyAfterRemoving ==
    ASSUME NEW own, NEW removals, NEW line, NEW x, NEW v, NEW l \in removals,
           \A s \in own \cup removals : s \in Int /\ l <= s,
           l \in own => line[l].signal = "eventsRemoved",
           Told(own, removals, line, x, v)
    PROVE  Ready(own \ {l}, removals \ {l}, line, v, {})
<1> DEFINE own2 == own \ {l}
           removals2 == removals \ {l}
<1>1. ASSUME v # 0, own2 = {} PROVE FALSE
  <2>1. CASE own = {}
    BY <2>1, <1>1 DEF Told, WrittenLast
  <2>2. CASE own # {}
    <3>1. l \in own /\ Latest(l, own)
      BY <1>1, <2>2 DEF Latest
    <3> QED
      BY <3>1, <1>1 DEF Told, WrittenLast
  <2> QED
    BY <2>1, <2>2
<1>2. ASSUME NEW p \in own2, Latest(p, own2), line[p].signal = "eventsModified", \A a \in own2 : a >= p
      PROVE  FALSE
  <2>1. l < p /\ l \in Int /\ p \in Int /\ p \in own
    OBVIOUS
  <2>2. Latest(p, own)
    BY <2>1, <1>2 DEF Latest
  <2>3. \/ \A r \in removals : r >= p
        \/ \E a \in own : a < p /\ line[a].signal # "eventsRemoved"
    BY <2>2, <1>2 DEF Told, ModifiedIfThere
  <2>4. ~ \A r \in removals : r >= p
    BY <2>1
  <2>5. PICK a \in own : a < p /\ line[a].signal # "eventsRemoved"
    BY <2>3, <2>4
  <2>6. a \in own2 /\ a \in Int
    BY <2>5
  <2>7. a >= p
    BY <2>6, <1>2
  <2> QED
    BY <2>1, <2>5, <2>6, <2>7
<1> QED
  BY <1>1, <1>2 DEF Ready

\* An event that is not stored is written: its signal is the fourth.
LEMMA ToldAfterAdding ==
    ASSUME NEW own, NEW removals, NEW line, NEW line2, NEW x, NEW v, v # 0,
           \A s \in own : s \in Int /\ s <= 0, \A s \in removals : s \in Int /\ s <= 3,
           \A s \in own : line[s].signal = "eventsRemoved" => s \in removals,
           Told(own, removals, line, x, 0),
           \A s \in own : line2[s] = line[s],
           line2[4].signal = "eventsAdded", SaysLast(line2[4].items, x, v), Once(line2[4].items, x)
    PROVE  /\ Told(own \cup {4}, removals, line2, x, v)
           /\ \A shown : Ready(own, removals, line, 0, shown) =>
                         Ready(own \cup {4}, removals, line2, v, shown)
<1> DEFINE own2 == own \cup {4}
<1>1. \A p \in own2 : Latest(p, own2) <=> p = 4
  BY DEF Latest
<1>2. ASSUME own # {} PROVE \E r \in removals : \A a \in own : line[a].signal # "eventsRemoved" => a < r
  <2>1. PICK p \in own : Latest(p, own)
    <3>1. 0 \in Int /\ \A s \in own : s \in Int /\ s <= 0
      OBVIOUS
    <3> QED
      BY <3>1, <1>2, LastExists, Zenon
  <2>2. CASE line[p].signal = "eventsRemoved"
    <3>1. ASSUME NEW a \in own, line[a].signal # "eventsRemoved" PROVE a < p
      <4>1. a <= p /\ a # p
        BY <2>1, <2>2, <3>1 DEF Latest
      <4> QED
        BY <4>1
    <3> QED
      BY <3>1, <2>2
  <2>3. CASE \E r \in removals : r > p /\ line[r].signal = "threadsRemoved"
    <3>1. PICK r \in removals : r > p
      BY <2>3
    <3>2. \A a \in own : a < r
      BY <2>1, <3>1 DEF Latest
    <3> QED
      BY <3>2
  <2> QED
    BY <2>1, <2>2, <2>3 DEF Told, RemovedLast
<1>3. WrittenLast(own2, removals, line2, x, v)
  <2>1. line2[4].signal # "eventsRemoved" /\ (\A r \in removals : r <= 4) /\ own2 # {}
    OBVIOUS
  <2> QED
    BY <1>1, <2>1 DEF WrittenLast
<1>4. RemovedLast(own2, removals, line2, v)
  BY DEF RemovedLast
<1>5. AddedOnce(own2, removals, line2, x)
  <2> SUFFICES ASSUME NEW b \in own2, line2[b].signal = "eventsAdded"
               PROVE  /\ Once(line2[b].items, x)
                      /\ \A a \in own2 : a < b /\ line2[a].signal # "eventsRemoved" =>
                             \E r \in removals : a < r /\ r < b
    BY DEF AddedOnce
  <2>1. CASE b \in own
    <3>1. \A a \in own2 : a < b => a \in own
      BY <2>1
    <3> QED
      BY <2>1, <3>1 DEF Told, AddedOnce
  <2>2. CASE b = 4
    <3>1. ASSUME NEW a \in own2, a < b, line2[a].signal # "eventsRemoved"
          PROVE  \E r \in removals : a < r /\ r < b
      <4>1. a \in own /\ line[a].signal # "eventsRemoved"
        BY <2>2, <3>1
      <4>2. PICK r \in removals : a < r
        BY <4>1, <1>2
      <4> QED
        BY <4>2, <2>2
    <3> QED
      BY <2>2, <3>1
  <2> QED
    BY <2>1, <2>2
<1>6. ModifiedIfThere(own2, removals, line2)
  BY <1>1 DEF ModifiedIfThere
<1>7. ASSUME NEW shown, Ready(own, removals, line, 0, shown) PROVE Ready(own2, removals, line2, v, shown)
  <2>1. ASSUME \A r \in removals : r >= 4 PROVE shown = {}
    <3>1. removals = {}
      BY <2>1
    <3>2. own = {}
      BY <3>1, <1>2
    <3> QED
      BY <3>1, <3>2, <1>7 DEF Ready
  <2> QED
    BY <2>1, <1>1 DEF Ready
<1> QED
  BY <1>3, <1>4, <1>5, <1>6, <1>7 DEF Told

\* One that is stored is written: its signal is the fifth.
LEMMA ToldAfterModifying ==
    ASSUME NEW own, NEW removals, NEW line, NEW line2, NEW x, NEW v, NEW w, v # 0, w # 0,
           \A s \in own : s \in Int /\ s <= 5, \A s \in removals : s \in Int /\ s <= 5,
           Told(own, removals, line, x, v),
           \A s \in own : line2[s].signal = line[s].signal,
           \A s \in own : s # 5 => line2[s] = line[s],
           line2[5].signal = "eventsModified", SaysLast(line2[5].items, x, w)
    PROVE  /\ Told(own \cup {5}, removals, line2, x, w)
           /\ \A shown : Ready(own, removals, line, v, shown) =>
                         Ready(own \cup {5}, removals, line2, w, shown)
<1> DEFINE own2 == own \cup {5}
<1>1. \A p \in own2 : Latest(p, own2) <=> p = 5
  BY DEF Latest
<1>2. WrittenLast(own2, removals, line2, x, w)
  BY <1>1 DEF WrittenLast
<1>3. RemovedLast(own2, removals, line2, w)
  BY DEF RemovedLast
<1>4. AddedOnce(own2, removals, line2, x)
  <2> SUFFICES ASSUME NEW b \in own2, line2[b].signal = "eventsAdded"
               PROVE  /\ Once(line2[b].items, x)
                      /\ \A a \in own2 : a < b /\ line2[a].signal # "eventsRemoved" =>
                             \E r \in removals : a < r /\ r < b
    BY DEF AddedOnce
  <2>1. b \in own /\ b # 5 /\ line[b].signal = "eventsAdded" /\ line2[b] = line[b]
    OBVIOUS
  <2>2. \A a \in own2 : a < b => a \in own /\ line2[a].signal = line[a].signal
    BY <2>1
  <2> QED
    BY <2>1, <2>2 DEF Told, AddedOnce
<1>5. ModifiedIfThere(own2, removals, line2)
  <2> SUFFICES \/ \A r \in removals : r >= 5
               \/ \E a \in own2 : /\ a < 5 /\ line2[a].signal # "eventsRemoved"
                                  /\ \A r \in removals : ~(a < r /\ r < 5)
    BY <1>1 DEF ModifiedIfThere
  <2>1. CASE own = {}
    BY <2>1 DEF Told, WrittenLast
  <2>2. CASE own # {}
    <3>1. PICK p \in own : Latest(p, own)
      BY <2>2, LastExists
    <3>2. line[p].signal # "eventsRemoved" /\ \A r \in removals : r <= p
      BY <3>1 DEF Told, WrittenLast
    <3>3. CASE p = 5
      <4>1. line[5].signal = "eventsModified" /\ Latest(5, own) /\ 5 \in own
        BY <3>1, <3>3
      <4>2. \/ \A r \in removals : r >= 5
            \/ \E a \in own : /\ a < 5 /\ line[a].signal # "eventsRemoved"
                              /\ \A r \in removals : ~(a < r /\ r < 5)
        BY <4>1 DEF Told, ModifiedIfThere
      <4> QED
        BY <4>2
    <3>4. CASE p # 5
      <4>1. p \in own2 /\ p < 5 /\ line2[p].signal # "eventsRemoved"
        BY <3>2, <3>4
      <4>2. \A r \in removals : ~(p < r /\ r < 5)
        BY <3>2
      <4> QED
        BY <4>1, <4>2
    <3> QED
      BY <3>3, <3>4
  <2> QED
    BY <2>1, <2>2
<1>6. ASSUME NEW shown, Ready(own, removals, line, v, shown) PROVE Ready(own2, removals, line2, w, shown)
  <2>1. ASSUME \A r \in removals : r >= 5, \A a \in own2 : a >= 5 PROVE shown # {}
    <3>1. \A a \in own : a = 5
      BY <2>1
    <3>2. CASE own = {}
      BY <3>2, <1>6 DEF Ready
    <3>3. CASE own # {}
      <4>1. 5 \in own /\ Latest(5, own) /\ line[5].signal = "eventsModified" /\ \A a \in own : a >= 5
        BY <3>1, <3>3 DEF Latest
      <4> QED
        BY <4>1, <2>1, <1>6 DEF Ready
    <3> QED
      BY <3>2, <3>3
  <2> QED
    BY <2>1, <1>1 DEF Ready
<1> QED
  BY <1>2, <1>3, <1>4, <1>5, <1>6 DEF Told

\* It is removed: its signal is the sixth, and the thread's may be the third.
LEMMA ToldAfterRemoving ==
    ASSUME NEW own, NEW removals, NEW removals2, NEW line, NEW line2, NEW x, NEW v, v # 0,
           \A s \in own : s \in Int /\ s <= 6, removals \subseteq removals2,
           Told(own, removals, line, x, v),
           \A s \in own : line2[s].signal = line[s].signal,
           \A s \in own : s # 6 => line2[s] = line[s],
           line2[6].signal = "eventsRemoved"
    PROVE  /\ Told(own \cup {6}, removals2, line2, x, 0)
           /\ \A shown : Ready(own \cup {6}, removals2, line2, 0, shown)
<1> DEFINE own2 == own \cup {6}
<1>1. \A p \in own2 : Latest(p, own2) <=> p = 6
  BY DEF Latest
<1>2. WrittenLast(own2, removals2, line2, x, 0)
  BY DEF WrittenLast
<1>3. RemovedLast(own2, removals2, line2, 0)
  BY <1>1 DEF RemovedLast
<1>4. AddedOnce(own2, removals2, line2, x)
  <2> SUFFICES ASSUME NEW b \in own2, line2[b].signal = "eventsAdded"
               PROVE  /\ Once(line2[b].items, x)
                      /\ \A a \in own2 : a < b /\ line2[a].signal # "eventsRemoved" =>
                             \E r \in removals2 : a < r /\ r < b
    BY DEF AddedOnce
  <2>1. b \in own /\ b # 6 /\ line[b].signal = "eventsAdded" /\ line2[b] = line[b]
    OBVIOUS
  <2>2. \A a \in own2 : a < b => a \in own /\ line2[a].signal = line[a].signal
    BY <2>1
  <2> QED
    BY <2>1, <2>2 DEF Told, AddedOnce
<1>5. ModifiedIfThere(own2, removals2, line2)
  BY <1>1 DEF ModifiedIfThere
<1>6. \A shown : Ready(own2, removals2, line2, 0, shown)
  BY DEF Ready
<1> QED
  BY <1>2, <1>3, <1>4, <1>5, <1>6 DEF Told

\* The thread of an event that is not stored any more is removed, with the
\* third signal.
LEMMA ToldAfterThread ==
    ASSUME NEW own, NEW removals, NEW line, NEW line2, NEW x, NEW v,
           \A s \in own : s \in Int /\ (s <= 0 \/ s = 6 \/ (s \in {4, 5} /\ v = 0)),
           \A s \in removals : s \in Int,
           6 \in own => line[6].signal = "eventsRemoved",
           \A s \in removals : s > 3 => line[s].signal # "threadsRemoved",
           Told(own, removals, line, x, v),
           \A s \in own : line2[s] = line[s],
           \A s \in removals : line2[s].signal = line[s].signal,
           line2[3].signal = "threadsRemoved"
    PROVE  /\ Told(own, removals \cup {3}, line2, x, 0)
           /\ \A shown : Ready(own, removals \cup {3}, line2, 0, shown)
<1> DEFINE removals2 == removals \cup {3}
<1>0. ASSUME NEW p \in own, Latest(p, own), line[p].signal # "eventsRemoved" PROVE p <= 0
  <2>1. CASE p \in {4, 5} /\ v = 0
    <3>1. PICK r \in removals : r > p /\ line[r].signal = "threadsRemoved"
      BY <1>0, <2>1 DEF Told, RemovedLast
    <3>2. r > 3
      BY <3>1, <2>1
    <3> QED
      BY <3>1, <3>2
  <2> QED
    BY <2>1, <1>0
<1>1. WrittenLast(own, removals2, line2, x, 0)
  BY DEF WrittenLast
<1>2. RemovedLast(own, removals2, line2, 0)
  BY <1>0 DEF RemovedLast
<1>3. AddedOnce(own, removals2, line2, x)
  BY DEF Told, AddedOnce
<1>4. ModifiedIfThere(own, removals2, line2)
  <2> SUFFICES ASSUME NEW b \in own, Latest(b, own), line2[b].signal = "eventsModified"
               PROVE  \/ \A r \in removals2 : r >= b
                      \/ \E a \in own : /\ a < b /\ line2[a].signal # "eventsRemoved"
                                        /\ \A r \in removals2 : ~(a < r /\ r < b)
    BY DEF ModifiedIfThere
  <2>1. b <= 0
    BY <1>0
  <2>2. \/ \A r \in removals : r >= b
        \/ \E a \in own : a < b /\ line[a].signal # "eventsRemoved" /\ \A r \in removals : ~(a < r /\ r < b)
    BY DEF Told, ModifiedIfThere
  <2>3. CASE \A r \in removals : r >= b
    BY <2>1, <2>3
  <2>4. ASSUME NEW a \in own, a < b, line[a].signal # "eventsRemoved", \A r \in removals : ~(a < r /\ r < b)
        PROVE  \A r \in removals2 : ~(a < r /\ r < b)
    BY <2>1, <2>4
  <2> QED
    BY <2>2, <2>3, <2>4
<1>5. \A shown : Ready(own, removals2, line2, 0, shown)
  BY DEF Ready
<1> QED
  BY <1>1, <1>2, <1>3, <1>4, <1>5 DEF Told

\* Nothing is said.
LEMMA ToldNothing ==
    ASSUME NEW line, NEW x, NEW v
    PROVE  Told({}, {}, line, x, v)
BY DEF Told, WrittenLast, RemovedLast, AddedOnce, ModifiedIfThere

-----------------------------------------------------------------------------
(* The line: what is in the inbox, and the lists that wait                 *)

ServiceSignals == {"serviceRegistered", "serviceUnregistered"}
EventNames == {"eventsAdded", "eventsModified", "eventsRemoved"}
Message == {m \in [signal : SignalNames \cup ServiceSignals, items : Seq(Notice)] :
               m.signal \in EventNames => m.items \in Seq(Row)}

QueueOK == /\ inbox \in Seq(Message)
           /\ pending \in [SignalNames -> Seq(Notice)]
           /\ \A name \in EventNames : pending[name] \in Seq(Row)

\* The line: the messages in the inbox, the last at 0, and the lists that wait,
\* in the order in which they will be sent, from 1 to 6.
Kinds == <<"threadsAdded", "threadsModified", "threadsRemoved",
           "eventsAdded", "eventsModified", "eventsRemoved">>
Slots == (1 - Len(inbox)) .. 6
Line == [s \in Slots |-> IF s <= 0 THEN inbox[Len(inbox) + s]
                         ELSE [signal |-> Kinds[s], items |-> pending[Kinds[s]]]]

\* The daemon has not changed since these were sent.
Services == {i \in DOMAIN inbox : inbox[i].signal \in ServiceSignals}
Live == {s \in Slots : \A i \in Services : i < Len(inbox) + s}

About(m, x) == m.signal \in EventNames /\ x \in ItemsOf(m.items)
Removes(m, x) == \/ m.signal = "eventsRemoved" /\ x \in ItemsOf(m.items)
                 \/ m.signal = "threadsRemoved" /\ m.items # <<>>

Own(x) == {s \in Live : About(Line[s], x)}
Removals(x) == {s \in Live : Removes(Line[s], x)}

LEMMA KindsAre ==
    /\ Kinds[1] = "threadsAdded" /\ Kinds[2] = "threadsModified" /\ Kinds[3] = "threadsRemoved"
    /\ Kinds[4] = "eventsAdded" /\ Kinds[5] = "eventsModified" /\ Kinds[6] = "eventsRemoved"
    /\ \A k \in 1 .. 6 : Kinds[k] \in SignalNames
    /\ SignalNames = {Kinds[k] : k \in 1 .. 6}
    /\ \A name \in SignalNames : name \notin ServiceSignals
<1>1. /\ Kinds[1] = "threadsAdded" /\ Kinds[2] = "threadsModified" /\ Kinds[3] = "threadsRemoved"
      /\ Kinds[4] = "eventsAdded" /\ Kinds[5] = "eventsModified" /\ Kinds[6] = "eventsRemoved"
  BY DEF Kinds
<1>2. \A k \in 1 .. 6 : k = 1 \/ k = 2 \/ k = 3 \/ k = 4 \/ k = 5 \/ k = 6
  OBVIOUS
<1>3. 1 \in 1 .. 6 /\ 2 \in 1 .. 6 /\ 3 \in 1 .. 6 /\ 4 \in 1 .. 6 /\ 5 \in 1 .. 6 /\ 6 \in 1 .. 6
  OBVIOUS
<1>4. \A k \in 1 .. 6 : Kinds[k] \in SignalNames
  BY <1>1, <1>2 DEF SignalNames
<1>5. SignalNames = {Kinds[k] : k \in 1 .. 6}
  BY <1>1, <1>3, <1>4 DEF SignalNames
<1>6. \A name \in SignalNames : name \notin ServiceSignals
  BY DEF SignalNames, ServiceSignals
<1> QED
  BY <1>1, <1>4, <1>5, <1>6

\* What is where in the line.
LEMMA LineIs ==
    ASSUME QueueOK
    PROVE  /\ Len(inbox) \in Nat /\ DOMAIN inbox = 1 .. Len(inbox)
           /\ \A s \in Slots : s \in Int /\ 1 - Len(inbox) <= s /\ s <= 6
           /\ \A s \in 1 .. 6 : /\ s \in Slots /\ s \in Live
                                /\ Line[s].signal = Kinds[s] /\ Line[s].items = pending[Kinds[s]]
           /\ \A s \in Slots : s <= 0 => /\ Len(inbox) + s \in DOMAIN inbox
                                         /\ Line[s] = inbox[Len(inbox) + s]
           /\ \A s \in Slots : s <= 0 \/ s \in 1 .. 6
           /\ Services = {} => Live = Slots
<1>1. Len(inbox) \in Nat /\ DOMAIN inbox = 1 .. Len(inbox)
  BY DEF QueueOK
<1>2. \A s \in Slots : s \in Int /\ 1 - Len(inbox) <= s /\ s <= 6 /\ (s <= 0 \/ s \in 1 .. 6)
  BY <1>1 DEF Slots
<1>3. \A s \in 1 .. 6 : s \in Slots /\ ~(s <= 0)
  BY <1>1 DEF Slots
<1>4. \A s \in 1 .. 6 : s \in Live
  <2> SUFFICES ASSUME NEW s \in 1 .. 6, NEW i \in Services PROVE i < Len(inbox) + s
    BY <1>3 DEF Live
  <2>1. i \in 1 .. Len(inbox)
    BY <1>1 DEF Services
  <2> QED
    BY <1>1, <2>1
<1>5. \A s \in 1 .. 6 : Line[s].signal = Kinds[s] /\ Line[s].items = pending[Kinds[s]]
  BY <1>3 DEF Line
<1>6. \A s \in Slots : s <= 0 => Len(inbox) + s \in DOMAIN inbox /\ Line[s] = inbox[Len(inbox) + s]
  <2> SUFFICES ASSUME NEW s \in Slots, s <= 0
               PROVE  Len(inbox) + s \in DOMAIN inbox /\ Line[s] = inbox[Len(inbox) + s]
    OBVIOUS
  <2>1. Len(inbox) + s \in 1 .. Len(inbox)
    BY <1>1, <1>2
  <2>2. Line[s] = inbox[Len(inbox) + s]
    BY DEF Line
  <2> QED
    BY <2>1, <2>2, <1>1
<1>7. Services = {} => Live = Slots
  BY DEF Live
<1> QED
  BY <1>1, <1>2, <1>3, <1>4, <1>5, <1>6, <1>7

LEMMA OwnAre ==
    ASSUME QueueOK, NEW x
    PROVE  /\ Own(x) \subseteq Slots /\ Removals(x) \subseteq Slots
           /\ \A s \in Own(x) \cup Removals(x) : s \in Int /\ 1 - Len(inbox) <= s /\ s <= 6
           /\ \A s \in Own(x) : s <= 0 \/ s \in {4, 5, 6}
           /\ \A s \in Removals(x) : s <= 3 \/ s = 6
           /\ \A s \in Own(x) : Line[s].signal \in EventNames
           /\ \A s \in Own(x) : Line[s].signal = "eventsRemoved" => s \in Removals(x)
           /\ \A s \in Removals(x) : Line[s].signal \in {"eventsRemoved", "threadsRemoved"}
           /\ \A s \in 4 .. 6 : s \in Own(x) <=> x \in ItemsOf(pending[Kinds[s]])
           /\ 6 \in Removals(x) <=> x \in ItemsOf(pending["eventsRemoved"])
           /\ 3 \in Removals(x) <=> pending["threadsRemoved"] # <<>>
<1>1. Own(x) \subseteq Slots /\ Removals(x) \subseteq Slots
  BY DEF Own, Removals, Live
<1>2. \A s \in Own(x) : About(Line[s], x) /\ Line[s].signal \in EventNames
  BY DEF Own, About
<1>3. \A s \in Removals(x) : Removes(Line[s], x) /\ Line[s].signal \in {"eventsRemoved", "threadsRemoved"}
  BY DEF Removals, Removes
<1>4. \A s \in 1 .. 6 : Line[s].signal \in EventNames => s \in {4, 5, 6}
  <2>1. \A s \in 1 .. 6 : s \in {1, 2, 3, 4, 5, 6}
    OBVIOUS
  <2>2. Kinds[1] \notin EventNames /\ Kinds[2] \notin EventNames /\ Kinds[3] \notin EventNames
    BY KindsAre DEF EventNames
  <2> QED
    BY <2>1, <2>2, LineIs
<1>5. \A s \in 1 .. 6 : Line[s].signal \in {"eventsRemoved", "threadsRemoved"} => s <= 3 \/ s = 6
  <2>1. \A s \in 1 .. 6 : s \in {1, 2, 3, 4, 5, 6}
    OBVIOUS
  <2>2. Kinds[4] \notin {"eventsRemoved", "threadsRemoved"} /\ Kinds[5] \notin {"eventsRemoved", "threadsRemoved"}
    BY KindsAre
  <2> QED
    BY <2>1, <2>2, LineIs
<1>6. \A s \in Own(x) : s <= 0 \/ s \in {4, 5, 6}
  BY <1>1, <1>2, <1>4, LineIs
<1>7. \A s \in Removals(x) : s <= 3 \/ s = 6
  <2> SUFFICES ASSUME NEW s \in Removals(x) PROVE s <= 3 \/ s = 6
    OBVIOUS
  <2>1. s \in Int /\ (s <= 0 \/ s \in 1 .. 6)
    BY <1>1, LineIs
  <2>2. CASE s <= 0
    BY <2>1, <2>2
  <2>3. CASE s \in 1 .. 6
    BY <2>3, <1>3, <1>5
  <2> QED
    BY <2>1, <2>2, <2>3
<1>8. \A s \in Own(x) : Line[s].signal = "eventsRemoved" => s \in Removals(x)
  BY DEF Own, Removals, About, Removes
<1>9. \A s \in 4 .. 6 : s \in Own(x) <=> x \in ItemsOf(pending[Kinds[s]])
  <2> SUFFICES ASSUME NEW s \in 4 .. 6 PROVE s \in Own(x) <=> x \in ItemsOf(pending[Kinds[s]])
    OBVIOUS
  <2>1. s \in 1 .. 6 /\ s \in {4, 5, 6}
    OBVIOUS
  <2>2. s \in Live /\ Line[s].signal = Kinds[s] /\ Line[s].items = pending[Kinds[s]]
    BY <2>1, LineIs
  <2>3. Kinds[s] \in EventNames
    BY <2>1, KindsAre DEF EventNames
  <2> QED
    BY <2>2, <2>3 DEF Own, About
<1>10. 6 \in Removals(x) <=> x \in ItemsOf(pending["eventsRemoved"])
  <2>1. 6 \in Live /\ Line[6].signal = "eventsRemoved" /\ Line[6].items = pending["eventsRemoved"]
    BY LineIs, KindsAre
  <2> QED
    BY <2>1 DEF Removals, Removes
<1>11. 3 \in Removals(x) <=> pending["threadsRemoved"] # <<>>
  <2>1. 3 \in Live /\ Line[3].signal = "threadsRemoved" /\ Line[3].items = pending["threadsRemoved"]
    BY LineIs, KindsAre
  <2> QED
    BY <2>1 DEF Removals, Removes
<1> QED
  BY <1>1, <1>2, <1>3, <1>6, <1>7, <1>8, <1>9, <1>10, <1>11, LineIs

\* The line when its first message has been received.
LEMMA LineAfterReceiving ==
    ASSUME QueueOK, inbox # <<>>, inbox' = Tail(inbox), pending' = pending
    PROVE  /\ QueueOK'
           /\ 1 - Len(inbox) \in Slots /\ Line[1 - Len(inbox)] = Head(inbox) /\ Head(inbox) \in Message
           /\ \A s \in Slots' : s \in Slots /\ Line'[s] = Line[s]
           /\ \A x : Own(x)' = Own(x) \ {1 - Len(inbox)} /\ Removals(x)' = Removals(x) \ {1 - Len(inbox)}
           /\ Head(inbox).signal \notin ServiceSignals => (Services' = {} <=> Services = {})
           /\ Services' = {i - 1 : i \in Services \ {1}}
<1> DEFINE n == Len(inbox)
           l == 1 - n
<1>1. n \in Nat /\ n >= 1 /\ DOMAIN inbox = 1 .. n /\ inbox[1] \in Message /\ Head(inbox) = inbox[1]
  BY DEF QueueOK
<1>2. /\ Tail(inbox) \in Seq(Message) /\ Len(Tail(inbox)) = n - 1
      /\ \A i \in 1 .. (n - 1) : Tail(inbox)[i] = inbox[i + 1]
  BY <1>1 DEF QueueOK
<1>3. QueueOK'
  BY <1>2 DEF QueueOK
<1>4. Slots' = Slots \ {l} /\ l \in Slots /\ DOMAIN inbox' = 1 .. (n - 1) /\ Len(inbox') = n - 1
  BY <1>1, <1>2 DEF Slots
<1>5. Line[l] = Head(inbox)
  <2>1. l <= 0 /\ Len(inbox) + l = 1
    BY <1>1
  <2> QED
    BY <2>1, <1>1, <1>4 DEF Line
<1>6. ASSUME NEW s \in Slots' PROVE Line'[s] = Line[s]
  <2>1. s \in Slots /\ s \in Int /\ s > l
    BY <1>1, <1>4 DEF Slots
  <2>2. CASE s <= 0
    <3>1. (n - 1) + s \in 1 .. (n - 1) /\ ((n - 1) + s) + 1 = n + s
      BY <1>1, <2>1, <2>2
    <3>2. inbox'[(n - 1) + s] = inbox[n + s]
      BY <3>1, <1>2
    <3> QED
      BY <2>1, <2>2, <3>2, <1>4 DEF Line
  <2>3. CASE ~(s <= 0)
    BY <2>1, <2>3 DEF Line
  <2> QED
    BY <2>2, <2>3
<1>7. Services' = {i - 1 : i \in Services \ {1}}
  <2>1. ASSUME NEW i \in Services' PROVE i \in {j - 1 : j \in Services \ {1}}
    <3>1. i \in 1 .. (n - 1) /\ inbox'[i].signal \in ServiceSignals
      BY <1>4 DEF Services
    <3>2. i + 1 \in 1 .. n /\ i + 1 # 1 /\ (i + 1) - 1 = i
      BY <1>1, <3>1
    <3>3. inbox[i + 1].signal \in ServiceSignals
      BY <3>1, <1>2
    <3>4. i + 1 \in Services \ {1}
      BY <3>2, <3>3, <1>1 DEF Services
    <3> QED
      BY <3>2, <3>4
  <2>2. ASSUME NEW j \in Services \ {1} PROVE j - 1 \in Services'
    <3>1. j \in 1 .. n /\ j # 1 /\ inbox[j].signal \in ServiceSignals
      BY <1>1 DEF Services
    <3>2. j - 1 \in 1 .. (n - 1) /\ (j - 1) + 1 = j
      BY <1>1, <3>1
    <3>3. inbox'[j - 1] = inbox[j]
      BY <3>2, <1>2
    <3> QED
      BY <3>1, <3>2, <3>3, <1>4 DEF Services
  <2> QED
    BY <2>1, <2>2
<1>8. ASSUME NEW s \in Slots' PROVE s \in Live' <=> s \in Live
  <2>1. s \in Slots /\ s \in Int /\ s > l
    BY <1>1, <1>4 DEF Slots
  <2>2. ASSUME NEW i \in Services PROVE (i = 1 => i < n + s) /\ (i < n + s <=> i - 1 < (n - 1) + s)
    <3>1. i \in Int
      BY <1>1 DEF Services
    <3> QED
      BY <3>1, <2>1, <1>1
  <2>3. s \in Live' <=> \A i \in Services' : i < (n - 1) + s
    BY <1>4 DEF Live
  <2>4. (\A i \in Services' : i < (n - 1) + s) <=> (\A i \in Services \ {1} : i - 1 < (n - 1) + s)
    BY <1>7
  <2>5. s \in Live <=> \A i \in Services : i < n + s
    BY <2>1 DEF Live
  <2> QED
    BY <2>2, <2>3, <2>4, <2>5
<1>9. Live' = Live \ {l}
  <2>1. Live' \subseteq Slots' /\ Live \subseteq Slots
    BY DEF Live
  <2> QED
    BY <2>1, <1>4, <1>8
<1>10. ASSUME NEW x PROVE Own(x)' = Own(x) \ {l} /\ Removals(x)' = Removals(x) \ {l}
  <2>1. \A s \in Live' : Line'[s] = Line[s]
    BY <1>6 DEF Live
  <2>2. Own(x)' = {s \in Live' : About(Line'[s], x)} /\ Removals(x)' = {s \in Live' : Removes(Line'[s], x)}
    BY DEF Own, Removals, About, Removes
  <2> QED
    BY <2>1, <2>2, <1>9 DEF Own, Removals
<1>11. Head(inbox).signal \notin ServiceSignals => (Services' = {} <=> Services = {})
  <2>1. Head(inbox).signal \notin ServiceSignals => 1 \notin Services
    BY <1>1 DEF Services
  <2> QED
    BY <2>1, <1>7
<1> QED
  BY <1>1, <1>3, <1>4, <1>5, <1>6, <1>7, <1>10, <1>11

LEMMA ListsJoined ==
    ASSUME NEW s \in Seq(Notice), NEW t \in Seq(Notice)
    PROVE  /\ s \o t \in Seq(Notice)
           /\ s \in Seq(Row) /\ t \in Seq(Row) => s \o t \in Seq(Row)
           /\ ItemsOf(s \o t) = ItemsOf(s) \cup ItemsOf(t)
           /\ s \o t = <<>> <=> s = <<>> /\ t = <<>>
<1>1. Len(s) \in Nat /\ Len(t) \in Nat /\ DOMAIN s = 1 .. Len(s) /\ DOMAIN t = 1 .. Len(t)
  OBVIOUS
<1>2. /\ s \o t \in Seq(Notice) /\ Len(s \o t) = Len(s) + Len(t)
      /\ DOMAIN (s \o t) = 1 .. (Len(s) + Len(t))
      /\ \A i \in 1 .. Len(s) : (s \o t)[i] = s[i]
      /\ \A i \in (Len(s) + 1) .. (Len(s) + Len(t)) : (s \o t)[i] = t[i - Len(s)]
  BY <1>1
<1>3. s \in Seq(Row) /\ t \in Seq(Row) => s \o t \in Seq(Row)
  OBVIOUS
<1>4. ItemsOf(s \o t) \subseteq ItemsOf(s) \cup ItemsOf(t)
  <2> SUFFICES ASSUME NEW i \in 1 .. (Len(s) + Len(t))
               PROVE  (s \o t)[i].item \in ItemsOf(s) \cup ItemsOf(t)
    BY <1>2 DEF ItemsOf
  <2>1. CASE i <= Len(s)
    <3>1. i \in 1 .. Len(s)
      BY <1>1, <2>1
    <3> QED
      BY <3>1, <1>1, <1>2 DEF ItemsOf
  <2>2. CASE i > Len(s)
    <3>1. i \in (Len(s) + 1) .. (Len(s) + Len(t)) /\ i - Len(s) \in 1 .. Len(t)
      BY <1>1, <2>2
    <3>2. (s \o t)[i] = t[i - Len(s)]
      BY <3>1, <1>2
    <3> QED
      BY <3>1, <3>2, <1>1 DEF ItemsOf
  <2> QED
    BY <2>1, <2>2, <1>1
<1>5. ItemsOf(s) \subseteq ItemsOf(s \o t)
  <2> SUFFICES ASSUME NEW i \in 1 .. Len(s) PROVE s[i].item \in ItemsOf(s \o t)
    BY <1>1 DEF ItemsOf
  <2>1. i \in DOMAIN (s \o t) /\ (s \o t)[i] = s[i]
    BY <1>1, <1>2
  <2> QED
    BY <2>1 DEF ItemsOf
<1>6. ItemsOf(t) \subseteq ItemsOf(s \o t)
  <2> SUFFICES ASSUME NEW i \in 1 .. Len(t) PROVE t[i].item \in ItemsOf(s \o t)
    BY <1>1 DEF ItemsOf
  <2>1. PICK j \in (Len(s) + 1) .. (Len(s) + Len(t)) : j - Len(s) = i
    <3>1. Len(s) + i \in (Len(s) + 1) .. (Len(s) + Len(t)) /\ (Len(s) + i) - Len(s) = i
      BY <1>1
    <3> QED
      BY <3>1
  <2>2. j \in DOMAIN (s \o t)
    BY <1>1, <1>2
  <2>3. (s \o t)[j] = t[i]
    BY <2>1, <1>2
  <2> QED
    BY <2>2, <2>3 DEF ItemsOf
<1>7. s \o t = <<>> <=> s = <<>> /\ t = <<>>
  OBVIOUS
<1> QED
  BY <1>2, <1>3, <1>4, <1>5, <1>6, <1>7

\* The line when an operation has been announced.
LEMMA LineAfterNotifying ==
    ASSUME QueueOK, NEW lists \in [SignalNames -> Seq(Notice)],
           \A name \in EventNames : lists[name] \in Seq(Row),
           pending' = [name \in SignalNames |-> pending[name] \o lists[name]], inbox' = inbox
    PROVE  /\ QueueOK'
           /\ Slots' = Slots /\ Services' = Services
           /\ \A s \in Slots : Line'[s].signal = Line[s].signal
           /\ \A s \in Slots : s <= 0 => Line'[s] = Line[s]
           /\ \A s \in 1 .. 6 : Line'[s].items = Line[s].items \o lists[Kinds[s]]
           /\ \A x : \A s \in Slots : s \in Own(x)' <=>
                   s \in Own(x) \/ (s \in 4 .. 6 /\ x \in ItemsOf(lists[Kinds[s]]))
           /\ \A x : \A s \in Slots : s \in Removals(x)' <=>
                   \/ s \in Removals(x)
                   \/ s = 6 /\ x \in ItemsOf(lists["eventsRemoved"])
                   \/ s = 3 /\ lists["threadsRemoved"] # <<>>
<1>1. \A name \in SignalNames : /\ pending'[name] = pending[name] \o lists[name]
                                /\ pending[name] \in Seq(Notice) /\ lists[name] \in Seq(Notice)
  BY DEF QueueOK
<1>2. \A name \in SignalNames : /\ pending'[name] \in Seq(Notice)
                                /\ ItemsOf(pending'[name]) = ItemsOf(pending[name]) \cup ItemsOf(lists[name])
                                /\ pending'[name] = <<>> <=> pending[name] = <<>> /\ lists[name] = <<>>
  BY <1>1, ListsJoined
<1>3. \A name \in EventNames : name \in SignalNames /\ pending'[name] \in Seq(Row)
  <2> SUFFICES ASSUME NEW name \in EventNames PROVE name \in SignalNames /\ pending'[name] \in Seq(Row)
    OBVIOUS
  <2>1. name \in SignalNames
    BY DEF EventNames, SignalNames
  <2>2. pending[name] \in Seq(Row) /\ lists[name] \in Seq(Row)
    BY DEF QueueOK
  <2> QED
    BY <2>1, <2>2, <1>1, ListsJoined
<1>4. pending' \in [SignalNames -> Seq(Notice)]
  BY <1>2
<1>5. QueueOK'
  BY <1>3, <1>4 DEF QueueOK
<1>6. Slots' = Slots /\ Services' = Services /\ Live' = Live
  BY DEF Slots, Services, Live
<1>7. \A s \in Slots : s <= 0 => Line'[s] = Line[s]
  BY <1>6 DEF Line
<1>8. \A s \in 1 .. 6 : /\ Line'[s].signal = Line[s].signal
                        /\ Line'[s].items = Line[s].items \o lists[Kinds[s]]
                        /\ s \in Live /\ s \in Live'
  <2> SUFFICES ASSUME NEW s \in 1 .. 6
               PROVE  /\ Line'[s].signal = Line[s].signal
                      /\ Line'[s].items = Line[s].items \o lists[Kinds[s]]
                      /\ s \in Live /\ s \in Live'
    OBVIOUS
  <2>1. s \in Slots /\ Line[s].signal = Kinds[s] /\ Line[s].items = pending[Kinds[s]] /\ s \in Live
    BY LineIs
  <2>2. ~(s <= 0)
    OBVIOUS
  <2>3. Line'[s] = [signal |-> Kinds[s], items |-> pending'[Kinds[s]]]
    BY <2>1, <2>2, <1>6 DEF Line
  <2>4. Kinds[s] \in SignalNames
    BY KindsAre
  <2>5. Line'[s].signal = Kinds[s] /\ Line'[s].items = pending'[Kinds[s]]
    BY <2>3
  <2>6. pending'[Kinds[s]] = pending[Kinds[s]] \o lists[Kinds[s]]
    BY <2>4, <1>1
  <2> QED
    BY <2>1, <2>5, <2>6, <1>6
<1>9. \A s \in Slots : Line'[s].signal = Line[s].signal
  BY <1>7, <1>8, LineIs
<1>10. ASSUME NEW x, NEW s \in Slots
       PROVE  s \in Own(x)' <=> s \in Own(x) \/ (s \in 4 .. 6 /\ x \in ItemsOf(lists[Kinds[s]]))
  <2>1. s \in Own(x)' <=> s \in Live /\ About(Line'[s], x)
    BY <1>6 DEF Own, About
  <2>2. CASE s <= 0
    <3>1. s \notin 4 .. 6 /\ Line'[s] = Line[s]
      BY <2>2, <1>7
    <3> QED
      BY <2>1, <3>1 DEF Own
  <2>3. CASE s \in 1 .. 6
    <3>1. Kinds[s] \in SignalNames /\ Line[s].signal = Kinds[s] /\ Line[s].items = pending[Kinds[s]]
          /\ Line'[s].signal = Kinds[s] /\ s \in Live
      BY <2>3, <1>8, LineIs, KindsAre
    <3>2. ItemsOf(Line'[s].items) = ItemsOf(Line[s].items) \cup ItemsOf(lists[Kinds[s]])
      <4>1. Line'[s].items = Line[s].items \o lists[Kinds[s]]
        BY <2>3, <1>8
      <4>2. Line[s].items \in Seq(Notice) /\ lists[Kinds[s]] \in Seq(Notice)
        BY <3>1, <1>1
      <4> QED
        BY <4>1, <4>2, ListsJoined
    <3>3. Kinds[s] \in EventNames <=> s \in 4 .. 6
      <4>1. s \in {1, 2, 3, 4, 5, 6}
        BY <2>3
      <4>2. /\ Kinds[1] \notin EventNames /\ Kinds[2] \notin EventNames /\ Kinds[3] \notin EventNames
            /\ Kinds[4] \in EventNames /\ Kinds[5] \in EventNames /\ Kinds[6] \in EventNames
        BY KindsAre DEF EventNames
      <4>3. 4 \in 4 .. 6 /\ 5 \in 4 .. 6 /\ 6 \in 4 .. 6 /\ 1 \notin 4 .. 6 /\ 2 \notin 4 .. 6 /\ 3 \notin 4 .. 6
        OBVIOUS
      <4> QED
        BY <4>1, <4>2, <4>3
    <3> QED
      BY <2>1, <3>1, <3>2, <3>3 DEF Own, About
  <2> QED
    BY <2>2, <2>3, LineIs
<1>11. ASSUME NEW x, NEW s \in Slots
       PROVE  s \in Removals(x)' <=>
                   \/ s \in Removals(x)
                   \/ s = 6 /\ x \in ItemsOf(lists["eventsRemoved"])
                   \/ s = 3 /\ lists["threadsRemoved"] # <<>>
  <2>1. s \in Removals(x)' <=> s \in Live /\ Removes(Line'[s], x)
    BY <1>6 DEF Removals, Removes
  <2>2. CASE s <= 0
    <3>1. s # 6 /\ s # 3 /\ Line'[s] = Line[s]
      BY <2>2, <1>7
    <3> QED
      BY <2>1, <3>1 DEF Removals
  <2>3. CASE s \in 1 .. 6
    <3>1. Kinds[s] \in SignalNames /\ Line[s].signal = Kinds[s] /\ Line[s].items = pending[Kinds[s]]
          /\ Line'[s].signal = Kinds[s] /\ s \in Live
      BY <2>3, <1>8, LineIs, KindsAre
    <3>2. /\ ItemsOf(Line'[s].items) = ItemsOf(Line[s].items) \cup ItemsOf(lists[Kinds[s]])
          /\ Line'[s].items = <<>> <=> Line[s].items = <<>> /\ lists[Kinds[s]] = <<>>
      <4>1. Line'[s].items = Line[s].items \o lists[Kinds[s]]
        BY <2>3, <1>8
      <4>2. Line[s].items \in Seq(Notice) /\ lists[Kinds[s]] \in Seq(Notice)
        BY <3>1, <1>1
      <4> QED
        BY <4>1, <4>2, ListsJoined
    <3>3. (Kinds[s] = "eventsRemoved" <=> s = 6) /\ (Kinds[s] = "threadsRemoved" <=> s = 3)
      <4>1. s \in {1, 2, 3, 4, 5, 6}
        BY <2>3
      <4> QED
        BY <4>1, KindsAre
    <3> QED
      BY <2>1, <3>1, <3>2, <3>3 DEF Removals, Removes
  <2> QED
    BY <2>2, <2>3, LineIs
<1> QED
  BY <1>5, <1>6, <1>7, <1>8, <1>9, <1>10, <1>11

\* The line when the bus tells that the daemon is gone or back: nothing that
\* is to come counts any more.
LEMMA LineAfterService ==
    ASSUME QueueOK, NEW signal \in ServiceSignals,
           inbox' = Append(inbox, [signal |-> signal, items |-> <<>>]), pending' = NothingPending
    PROVE  /\ QueueOK'
           /\ \A x : Own(x)' = {} /\ Removals(x)' = {}
           /\ Len(inbox') \in Services' /\ inbox'[Len(inbox')].signal = signal
           /\ \A i \in Services' : i <= Len(inbox')
<1> DEFINE m == [signal |-> signal, items |-> <<>>]
           n == Len(inbox)
<1>1. <<>> \in Seq(Notice) /\ <<>> \in Seq(Row)
  OBVIOUS
<1>2. m \in Message /\ m.signal = signal
  <2>1. signal \notin EventNames
    BY DEF EventNames, ServiceSignals
  <2> QED
    BY <1>1, <2>1 DEF Message
<1>3. n \in Nat /\ inbox \in Seq(Message)
  BY DEF QueueOK
<1> HIDE DEF m
<1>4. inbox' \in Seq(Message) /\ Len(inbox') = n + 1 /\ DOMAIN inbox' = 1 .. (n + 1) /\ inbox'[n + 1] = m
  <2>1. inbox' = Append(inbox, m)
    BY DEF m
  <2> QED
    BY <2>1, <1>2, <1>3
<1>5. \A name \in SignalNames : pending'[name] = <<>>
  BY DEF NothingPending
<1>6. \A name \in EventNames : name \in SignalNames
  BY DEF EventNames, SignalNames
<1>7. pending' \in [SignalNames -> Seq(Notice)]
  BY <1>1 DEF NothingPending
<1>8. QueueOK'
  BY <1>1, <1>4, <1>5, <1>6, <1>7 DEF QueueOK
<1>9. n + 1 \in Services'
  BY <1>2, <1>3, <1>4 DEF Services
<1>10. Live' \subseteq 1 .. 6
  <2> SUFFICES ASSUME NEW s \in Live' PROVE s \in 1 .. 6
    OBVIOUS
  <2>1. s \in (1 - (n + 1)) .. 6
    BY <1>4 DEF Live, Slots
  <2>2. n + 1 < (n + 1) + s
    BY <1>4, <1>9 DEF Live
  <2> QED
    BY <2>1, <2>2, <1>3
<1>11. \A s \in 1 .. 6 : Line'[s].items = <<>>
  <2> SUFFICES ASSUME NEW s \in 1 .. 6 PROVE Line'[s].items = <<>>
    OBVIOUS
  <2>1. s \in Slots' /\ ~(s <= 0)
    BY <1>3, <1>4 DEF Slots
  <2>2. Line'[s] = [signal |-> Kinds[s], items |-> pending'[Kinds[s]]]
    BY <2>1 DEF Line
  <2> QED
    BY <2>2, <1>5, KindsAre
<1>12. ASSUME NEW x PROVE Own(x)' = {} /\ Removals(x)' = {}
  <2>1. \A s \in Live' : Line'[s].items = <<>>
    BY <1>10, <1>11
  <2>2. x \notin ItemsOf(<<>>)
    BY DEF ItemsOf
  <2>3. Own(x)' = {s \in Live' : About(Line'[s], x)} /\ Removals(x)' = {s \in Live' : Removes(Line'[s], x)}
    BY DEF Own, Removals, About, Removes
  <2> QED
    BY <2>1, <2>2, <2>3 DEF About, Removes
<1>13. \A i \in Services' : i <= n + 1
  BY <1>3, <1>4 DEF Services
<1> QED
  BY <1>2, <1>4, <1>8, <1>9, <1>12, <1>13

LEMMA NothingIsInLine ==
    ASSUME QueueOK, pending = NothingPending, inbox = <<>>, NEW x
    PROVE  Own(x) = {} /\ Removals(x) = {} /\ Services = {}
<1>1. DOMAIN inbox = {} /\ Len(inbox) = 0
  OBVIOUS
<1>2. \A s \in Slots : s \in 1 .. 6
  BY <1>1 DEF Slots
<1>3. \A s \in Slots : Line[s].items = <<>>
  BY <1>2, LineIs, KindsAre DEF NothingPending
<1>4. x \notin ItemsOf(<<>>)
  BY DEF ItemsOf
<1> QED
  BY <1>1, <1>3, <1>4 DEF Own, Removals, Live, Services, About, Removes

\* The signals of the first n lists, and where each of them is.
Waits(k) == pending[Kinds[k]] # <<>>
MessageOf(k) == [signal |-> Kinds[k], items |-> pending[Kinds[k]]]

Placed(sent, at, n) ==
    /\ sent \in Seq(Message)
    /\ \A k \in 1 .. n : Waits(k) => at[k] \in 1 .. Len(sent) /\ sent[at[k]] = MessageOf(k)
    /\ \A j, k \in 1 .. n : j < k /\ Waits(j) /\ Waits(k) => at[j] < at[k]
    /\ \A i \in 1 .. Len(sent) : \E k \in 1 .. n : Waits(k) /\ at[k] = i

LEMMA PlacedNext ==
    ASSUME QueueOK, NEW sent, NEW at, NEW n \in 0 .. 5, Placed(sent, at, n)
    PROVE  \E next : Placed(sent \o SignalOf(Kinds[n + 1]), next, n + 1)
<1> DEFINE m == MessageOf(n + 1)
           long == sent \o SignalOf(Kinds[n + 1])
           len == Len(sent)
<1>1. n \in Int /\ n + 1 \in 1 .. 6 /\ n + 1 \in 1 .. (n + 1) /\ n + 1 \notin 1 .. n
      /\ \A k \in 1 .. (n + 1) : k \in Int /\ (k \in 1 .. n \/ k = n + 1)
  OBVIOUS
<1>2. len \in Nat /\ sent \in Seq(Message)
  BY DEF Placed
<1>3. CASE ~Waits(n + 1)
  <2>1. SignalOf(Kinds[n + 1]) = <<>>
    BY <1>3 DEF SignalOf, Waits
  <2>2. long = sent
    BY <2>1, <1>2
  <2>3. Placed(sent, at, n + 1)
    BY <1>1, <1>3 DEF Placed
  <2> QED
    BY <2>2, <2>3
<1>4. CASE Waits(n + 1)
  <2> DEFINE next == [k \in 1 .. (n + 1) |-> IF k = n + 1 THEN len + 1 ELSE at[k]]
  <2>1. m \in Message
    <3>1. Kinds[n + 1] \in SignalNames
      BY <1>1, KindsAre
    <3>2. pending[Kinds[n + 1]] \in Seq(Notice)
          /\ (Kinds[n + 1] \in EventNames => pending[Kinds[n + 1]] \in Seq(Row))
      BY <3>1 DEF QueueOK
    <3> QED
      BY <3>1, <3>2 DEF Message, MessageOf
  <2>2. long = Append(sent, m)
    <3>1. SignalOf(Kinds[n + 1]) = <<m>>
      BY <1>4 DEF SignalOf, Waits, MessageOf
    <3> HIDE DEF m
    <3> QED
      BY <3>1, <2>1, <1>2
  <2>3. /\ long \in Seq(Message) /\ Len(long) = len + 1
        /\ \A i \in 1 .. len : long[i] = sent[i]
        /\ long[len + 1] = m
    <3> HIDE DEF long, m
    <3> QED
      BY <2>1, <2>2, <1>2
  <2> HIDE DEF long, m
  <2>4. \A k \in 1 .. n : k \in 1 .. (n + 1) /\ next[k] = at[k]
    BY <1>1
  <2>5. next[n + 1] = len + 1
    BY <1>1
  <2> HIDE DEF next
  <2>6. \A k \in 1 .. n : Waits(k) => at[k] \in 1 .. len /\ at[k] \in 1 .. (len + 1) /\ sent[at[k]] = MessageOf(k)
                                      /\ at[k] < len + 1
    <3>1. \A i \in 1 .. len : i \in 1 .. (len + 1) /\ i < len + 1
      BY <1>2
    <3> QED
      BY <3>1 DEF Placed
  <2>7. ASSUME NEW k \in 1 .. (n + 1), Waits(k)
        PROVE  next[k] \in 1 .. Len(long) /\ long[next[k]] = MessageOf(k)
    <3>1. CASE k \in 1 .. n
      BY <3>1, <2>3, <2>4, <2>6, <2>7
    <3>2. CASE k = n + 1
      <4>1. len + 1 \in 1 .. (len + 1)
        BY <1>2
      <4> QED
        BY <4>1, <3>2, <2>3, <2>5 DEF m
    <3> QED
      BY <3>1, <3>2, <1>1
  <2>8. ASSUME NEW j \in 1 .. (n + 1), NEW k \in 1 .. (n + 1), j < k, Waits(j), Waits(k)
        PROVE  next[j] < next[k]
    <3>1. j \in 1 .. n
      BY <2>8, <1>1
    <3>2. CASE k \in 1 .. n
      BY <3>1, <3>2, <2>4, <2>8 DEF Placed
    <3>3. CASE k = n + 1
      BY <3>1, <3>3, <2>4, <2>5, <2>6, <2>8
    <3> QED
      BY <3>2, <3>3, <1>1
  <2>9. ASSUME NEW i \in 1 .. Len(long) PROVE \E k \in 1 .. (n + 1) : Waits(k) /\ next[k] = i
    <3>1. i \in 1 .. len \/ i = len + 1
      BY <2>3, <1>2
    <3>2. CASE i \in 1 .. len
      <4>1. PICK k \in 1 .. n : Waits(k) /\ at[k] = i
        BY <3>2 DEF Placed
      <4> QED
        BY <4>1, <2>4
    <3>3. CASE i = len + 1
      BY <3>3, <1>1, <1>4, <2>5
    <3> QED
      BY <3>1, <3>2, <3>3
  <2>10. Placed(long, next, n + 1)
    BY <2>3, <2>7, <2>8, <2>9 DEF Placed
  <2> QED
    BY <2>10 DEF long
<1> QED
  BY <1>3, <1>4

\* processSignals: the lists that wait leave in their order, the empty ones do not.
LEMMA EmittedInOrder ==
    ASSUME QueueOK
    PROVE  \E at : Placed(Emitted, at, 6)
<1> DEFINE e1 == SignalOf("threadsAdded")
           e2 == e1 \o SignalOf("threadsModified")
           e3 == e2 \o SignalOf("threadsRemoved")
           e4 == e3 \o SignalOf("eventsAdded")
           e5 == e4 \o SignalOf("eventsModified")
           e6 == e5 \o SignalOf("eventsRemoved")
<1>1. Placed(<<>>, <<>>, 0)
  BY DEF Placed
<1>2. \E at : Placed(e1, at, 1)
  <2>1. \E at : Placed(<<>> \o SignalOf(Kinds[0 + 1]), at, 0 + 1)
    <3>1. 0 \in 0 .. 5
      OBVIOUS
    <3> QED
      BY <1>1, <3>1, PlacedNext, Zenon
  <2>2. <<>> \o SignalOf(Kinds[0 + 1]) = e1
    <3>1. Kinds[0 + 1] = "threadsAdded"
      BY KindsAre
    <3>2. pending["threadsAdded"] \in Seq(Notice)
      BY DEF QueueOK, SignalNames
    <3> QED
      BY <3>1, <3>2 DEF SignalOf
  <2> QED
    BY <2>1, <2>2
<1>3. \E at : Placed(e2, at, 2)
  <2>1. \E at : Placed(e1 \o SignalOf(Kinds[1 + 1]), at, 1 + 1)
    BY <1>2, PlacedNext
  <2> QED
    BY <2>1, KindsAre
<1>4. \E at : Placed(e3, at, 3)
  <2>1. \E at : Placed(e2 \o SignalOf(Kinds[2 + 1]), at, 2 + 1)
    BY <1>3, PlacedNext
  <2> QED
    BY <2>1, KindsAre
<1>5. \E at : Placed(e4, at, 4)
  <2>1. \E at : Placed(e3 \o SignalOf(Kinds[3 + 1]), at, 3 + 1)
    BY <1>4, PlacedNext
  <2> QED
    BY <2>1, KindsAre
<1>6. \E at : Placed(e5, at, 5)
  <2>1. \E at : Placed(e4 \o SignalOf(Kinds[4 + 1]), at, 4 + 1)
    BY <1>5, PlacedNext
  <2> QED
    BY <2>1, KindsAre
<1>7. \E at : Placed(e6, at, 6)
  <2>1. \E at : Placed(e5 \o SignalOf(Kinds[5 + 1]), at, 5 + 1)
    BY <1>6, PlacedNext
  <2> QED
    BY <2>1, KindsAre
<1> QED
  BY <1>7 DEF Emitted

\* The line when the daemon has sent its signals: the same messages in the
\* same order.
LEMMA LineAfterSending ==
    ASSUME QueueOK, inbox' = inbox \o Emitted, pending' = NothingPending
    PROVE  /\ QueueOK'
           /\ Services' = Services
           /\ \A x : \E f : /\ \A s \in Own(x) \cup Removals(x) : s \in Int /\ f[s] \in Int
                            /\ \A s, t \in Own(x) \cup Removals(x) : s < t => f[s] < f[t]
                            /\ Own(x)' = {f[s] : s \in Own(x)} /\ Removals(x)' = {f[s] : s \in Removals(x)}
                            /\ \A s \in Own(x) \cup Removals(x) : Line'[f[s]] = Line[s]
<1> DEFINE n == Len(inbox)
           e == Len(Emitted)
<1>1. PICK at : Placed(Emitted, at, 6)
  BY EmittedInOrder
<1>2. n \in Nat /\ e \in Nat /\ inbox \in Seq(Message) /\ Emitted \in Seq(Message) /\ DOMAIN inbox = 1 .. n
  BY <1>1 DEF QueueOK, Placed
<1>3. /\ inbox' \in Seq(Message) /\ Len(inbox') = n + e /\ DOMAIN inbox' = 1 .. (n + e)
      /\ \A i \in 1 .. n : inbox'[i] = inbox[i]
      /\ \A i \in (n + 1) .. (n + e) : inbox'[i] = Emitted[i - n]
  <2> HIDE DEF Emitted
  <2>1. inbox' = inbox \o Emitted
    OBVIOUS
  <2>2. /\ inbox \o Emitted \in Seq(Message) /\ Len(inbox \o Emitted) = n + e
        /\ \A i \in 1 .. n : (inbox \o Emitted)[i] = inbox[i]
        /\ \A i \in (n + 1) .. (n + e) : (inbox \o Emitted)[i] = Emitted[i - n]
    BY <1>2
  <2> QED
    BY <2>1, <2>2, <1>2
<1>4. \A k \in 1 .. 6 : Waits(k) => at[k] \in 1 .. e /\ Emitted[at[k]] = MessageOf(k)
  BY <1>1 DEF Placed
<1>5. \A i \in 1 .. e : \E k \in 1 .. 6 : Waits(k) /\ at[k] = i
  BY <1>1 DEF Placed
<1>6. \A i \in 1 .. e : \E k \in 1 .. 6 : Waits(k) /\ at[k] = i /\ Emitted[i] = MessageOf(k)
  BY <1>4, <1>5
<1> HIDE DEF n, e
<1>7. QueueOK'
  <2>1. <<>> \in Seq(Notice) /\ <<>> \in Seq(Row)
    OBVIOUS
  <2>2. pending' \in [SignalNames -> Seq(Notice)] /\ \A name \in SignalNames : pending'[name] = <<>>
    BY <2>1 DEF NothingPending
  <2>3. \A name \in EventNames : name \in SignalNames
    BY DEF EventNames, SignalNames
  <2> QED
    BY <2>1, <2>2, <2>3, <1>3 DEF QueueOK
<1>8. Services' = Services
  <2>1. \A i \in 1 .. n : i \in 1 .. (n + e)
    BY <1>2
  <2>2. ASSUME NEW i \in 1 .. (n + e), inbox'[i].signal \in ServiceSignals PROVE i \in 1 .. n
    <3> SUFFICES ASSUME i \notin 1 .. n PROVE FALSE
      OBVIOUS
    <3>1. i \in (n + 1) .. (n + e) /\ i - n \in 1 .. e
      BY <1>2
    <3>2. PICK k \in 1 .. 6 : Emitted[i - n] = MessageOf(k)
      BY <3>1, <1>6
    <3>3. inbox'[i] = MessageOf(k)
      BY <3>1, <3>2, <1>3
    <3> QED
      BY <3>3, <2>2, KindsAre DEF MessageOf
  <2>3. Services' = {i \in 1 .. (n + e) : inbox'[i].signal \in ServiceSignals}
    BY <1>3 DEF Services
  <2>4. Services = {i \in 1 .. n : inbox[i].signal \in ServiceSignals}
    BY <1>2 DEF Services
  <2> QED
    BY <2>1, <2>2, <2>3, <2>4, <1>3
<1> DEFINE f == [s \in Slots |-> IF s <= 0 THEN s - e ELSE at[s] - e]
           Full(s) == s > 0 => Waits(s)
<1>9. \A s \in Slots : s \in Int /\ 1 - n <= s /\ s <= 6 /\ (s <= 0 \/ s \in 1 .. 6)
  BY LineIs DEF n
<1>10. ASSUME NEW s \in Slots, Full(s)
       PROVE  /\ f[s] \in Int /\ f[s] \in Slots' /\ f[s] <= 0
              /\ Line'[f[s]] = Line[s]
              /\ f[s] \in Live' <=> s \in Live
  <2>1. CASE s <= 0
    <3>1. f[s] = s - e
      BY <2>1
    <3>2. f[s] \in Int /\ f[s] <= 0 /\ 1 - (n + e) <= f[s] /\ f[s] <= 6 /\ (n + e) + f[s] = n + s
          /\ n + s \in 1 .. n
      BY <3>1, <2>1, <1>2, <1>9
    <3> HIDE DEF f
    <3>3. f[s] \in Slots'
      BY <3>2, <1>3, <1>2 DEF Slots
    <3>4. Line'[f[s]] = inbox'[n + s]
      BY <3>2, <3>3, <1>3 DEF Line
    <3>5. Line[s] = inbox[n + s]
      BY <2>1 DEF Line, n
    <3>6. f[s] \in Live' <=> \A i \in Services' : i < (n + e) + f[s]
      BY <3>3, <1>3 DEF Live
    <3>7. s \in Live <=> \A i \in Services : i < n + s
      BY DEF Live, n
    <3> QED
      BY <3>2, <3>3, <3>4, <3>5, <3>6, <3>7, <1>3, <1>8
  <2>2. CASE s \in 1 .. 6
    <3>0. Waits(s) /\ ~(s <= 0)
      BY <2>2, <1>10
    <3>1. f[s] = at[s] - e /\ at[s] \in 1 .. e /\ Emitted[at[s]] = MessageOf(s)
      BY <3>0, <2>2, <1>4
    <3>2. f[s] \in Int /\ f[s] <= 0 /\ 1 - (n + e) <= f[s] /\ f[s] <= 6 /\ (n + e) + f[s] = n + at[s]
          /\ n + at[s] \in (n + 1) .. (n + e) /\ (n + at[s]) - n = at[s]
      <4> DEFINE a == at[s]
                 g == f[s]
      <4>1. g = a - e /\ a \in 1 .. e /\ n \in Nat /\ e \in Nat
        BY <3>1, <1>2
      <4> HIDE DEF a, g, e, n
      <4>2. g \in Int /\ g <= 0 /\ 1 - (n + e) <= g /\ g <= 6 /\ (n + e) + g = n + a
            /\ n + a \in (n + 1) .. (n + e) /\ (n + a) - n = a
        BY <4>1
      <4> QED
        BY <4>2 DEF a, g
    <3> HIDE DEF f
    <3>3. f[s] \in Slots'
      BY <3>2, <1>3, <1>2 DEF Slots
    <3>4. Line'[f[s]] = inbox'[n + at[s]]
      BY <3>2, <3>3, <1>3 DEF Line
    <3>5. inbox'[n + at[s]] = MessageOf(s)
      BY <3>1, <3>2, <1>3
    <3>6. Line[s] = MessageOf(s)
      BY <3>0 DEF Line, MessageOf
    <3>7. f[s] \in Live' <=> \A i \in Services' : i < (n + e) + f[s]
      BY <3>3, <1>3 DEF Live
    <3>8. \A i \in Services' : i < n + at[s]
      <4>1. \A i \in Services' : i \in 1 .. n
        BY <1>2, <1>8 DEF Services
      <4> QED
        BY <4>1, <3>1, <1>2
    <3>9. s \in Live
      BY <2>2, LineIs
    <3> QED
      BY <3>2, <3>3, <3>4, <3>5, <3>6, <3>7, <3>8, <3>9
  <2> QED
    BY <2>1, <2>2, <1>9
<1>11. ASSUME NEW s \in Slots, NEW t \in Slots, Full(s), Full(t), s < t PROVE f[s] < f[t]
  <2>1. CASE t <= 0
    <3>1. f[s] = s - e /\ f[t] = t - e
      BY <2>1, <1>9, <1>11
    <3> QED
      BY <3>1, <1>2, <1>9, <1>11
  <2>2. CASE t \in 1 .. 6 /\ s <= 0
    <3>1. f[s] = s - e /\ f[t] = at[t] - e /\ at[t] \in 1 .. e
      BY <2>2, <1>4, <1>9, <1>11
    <3> QED
      BY <3>1, <2>2, <1>2, <1>9
  <2>3. CASE t \in 1 .. 6 /\ s \in 1 .. 6
    <3>1. f[s] = at[s] - e /\ f[t] = at[t] - e /\ at[t] \in 1 .. e /\ at[s] \in 1 .. e
      BY <2>3, <1>4, <1>9, <1>11
    <3>2. at[s] < at[t]
      BY <2>3, <1>1, <1>11 DEF Placed
    <3> QED
      BY <3>1, <3>2, <1>2
  <2> QED
    BY <2>1, <2>2, <2>3, <1>9
<1>12. ASSUME NEW t \in Slots' PROVE t \in 1 .. 6 \/ \E s \in Slots : Full(s) /\ t = f[s]
  <2> SUFFICES ASSUME t \notin 1 .. 6 PROVE \E s \in Slots : Full(s) /\ t = f[s]
    OBVIOUS
  <2>0. t \in Int /\ t <= 0 /\ 1 - (n + e) <= t
    BY <1>2, <1>3 DEF Slots
  <2>1. CASE t + e <= 0
    <3>1. t + e \in Slots
      BY <2>0, <2>1, <1>2 DEF Slots, n
    <3>2. f[t + e] = (t + e) - e
      BY <3>1, <2>1
    <3>3. (t + e) - e = t /\ ~(t + e > 0)
      BY <2>0, <2>1, <1>2
    <3> QED
      BY <3>1, <3>2, <3>3
  <2>2. CASE t + e > 0
    <3>1. t + e \in 1 .. e
      BY <2>0, <2>2, <1>2
    <3>2. PICK k \in 1 .. 6 : Waits(k) /\ at[k] = t + e
      BY <3>1, <1>5
    <3>3. k \in Slots /\ ~(k <= 0)
      BY LineIs
    <3>4. f[k] = (t + e) - e
      BY <3>2, <3>3
    <3>5. (t + e) - e = t
      BY <2>0, <1>2
    <3> QED
      BY <3>2, <3>3, <3>4, <3>5
  <2> QED
    BY <2>0, <2>1, <2>2, <1>2
<1>13. \A s \in 1 .. 6 : Line'[s].items = <<>>
  <2> SUFFICES ASSUME NEW s \in 1 .. 6 PROVE Line'[s].items = <<>>
    OBVIOUS
  <2>1. s \in Slots' /\ ~(s <= 0)
    BY <1>2, <1>3 DEF Slots
  <2>2. Line'[s] = [signal |-> Kinds[s], items |-> pending'[Kinds[s]]]
    BY <2>1 DEF Line
  <2>3. pending'[Kinds[s]] = <<>>
    BY KindsAre DEF NothingPending
  <2> QED
    BY <2>2, <2>3
<1> HIDE DEF f
<1>14. ASSUME NEW x
       PROVE  /\ \A s \in Own(x) \cup Removals(x) : s \in Slots /\ Full(s)
              /\ Own(x)' = {f[s] : s \in Own(x)} /\ Removals(x)' = {f[s] : s \in Removals(x)}
  <2>1. x \notin ItemsOf(<<>>)
    BY DEF ItemsOf
  <2>2. \A s \in Own(x) \cup Removals(x) : s \in Slots /\ Full(s)
    <3> SUFFICES ASSUME NEW s \in Own(x) \cup Removals(x) PROVE s \in Slots /\ Full(s)
      OBVIOUS
    <3>1. s \in Slots /\ (About(Line[s], x) \/ Removes(Line[s], x))
      BY DEF Own, Removals, Live
    <3>2. Line[s].items # <<>>
      BY <3>1, <2>1 DEF About, Removes
    <3>3. ASSUME s > 0 PROVE Waits(s)
      <4>1. s \in 1 .. 6
        BY <3>1, <3>3, <1>9
      <4> QED
        BY <4>1, <3>2, LineIs DEF Waits
    <3> QED
      BY <3>1, <3>3
  <2>3. \A t \in 1 .. 6 : ~About(Line'[t], x) /\ ~Removes(Line'[t], x)
    BY <1>13, <2>1 DEF About, Removes
  <2>4. Own(x)' = {s \in Live' : About(Line'[s], x)} /\ Removals(x)' = {s \in Live' : Removes(Line'[s], x)}
    BY DEF Own, Removals, About, Removes
  <2>5. ASSUME NEW s \in Slots, Full(s)
        PROVE  (s \in Own(x) <=> f[s] \in Own(x)') /\ (s \in Removals(x) <=> f[s] \in Removals(x)')
    <3>1. Line'[f[s]] = Line[s] /\ (f[s] \in Live' <=> s \in Live)
      BY <2>5, <1>10
    <3> QED
      BY <3>1, <2>4 DEF Own, Removals
  <2>6. \A t \in Own(x)' \cup Removals(x)' : \E s \in Slots : Full(s) /\ t = f[s]
    <3> SUFFICES ASSUME NEW t \in Own(x)' \cup Removals(x)' PROVE \E s \in Slots : Full(s) /\ t = f[s]
      OBVIOUS
    <3>1. t \in Slots' /\ (About(Line'[t], x) \/ Removes(Line'[t], x))
      BY <2>4 DEF Live
    <3> QED
      BY <3>1, <2>3, <1>12
  <2> HIDE DEF Full
  <2>7. Own(x)' = {f[s] : s \in Own(x)}
    BY <2>2, <2>5, <2>6
  <2>8. Removals(x)' = {f[s] : s \in Removals(x)}
    BY <2>2, <2>5, <2>6
  <2> QED
    BY <2>2, <2>7, <2>8
<1>15. ASSUME NEW x
       PROVE  \E g : /\ \A s \in Own(x) \cup Removals(x) : s \in Int /\ g[s] \in Int
                     /\ \A s, t \in Own(x) \cup Removals(x) : s < t => g[s] < g[t]
                     /\ Own(x)' = {g[s] : s \in Own(x)} /\ Removals(x)' = {g[s] : s \in Removals(x)}
                     /\ \A s \in Own(x) \cup Removals(x) : Line'[g[s]] = Line[s]
  <2> HIDE DEF Full
  <2>1. /\ \A s \in Own(x) \cup Removals(x) : s \in Int /\ f[s] \in Int /\ Line'[f[s]] = Line[s]
        /\ \A s, t \in Own(x) \cup Removals(x) : s < t => f[s] < f[t]
    BY <1>9, <1>10, <1>11, <1>14
  <2> QED
    BY <2>1, <1>14
<1> QED
  BY <1>7, <1>8, <1>15

-----------------------------------------------------------------------------
(* Pages and snapshots                                                     *)

LEMMA PagesOf ==
    ASSUME NEW list \in Seq(Row)
    PROVE  /\ FirstPage(list) \in Seq(Row) /\ OtherPages(list) \in Seq(Row)
           /\ ItemsOf(list) = ItemsOf(FirstPage(list) \o OtherPages(list))
           /\ OtherPages(list) = <<>> => FirstPage(list) = list
           /\ list = <<>> => FirstPage(list) = <<>> /\ OtherPages(list) = <<>>
<1> DEFINE n == Len(list)
<1>1. n \in Nat /\ PageSize \in Nat /\ PageSize >= 1
  BY ClientAssumption
<1>2. FirstPage(list) \in Seq(Row) /\ OtherPages(list) \in Seq(Row)
  BY <1>1 DEF FirstPage, OtherPages
<1>3. CASE n < PageSize
  <2>1. FirstPage(list) = SubSeq(list, 1, n)
    BY <1>3 DEF FirstPage
  <2>2. SubSeq(list, 1, n) = list
    OBVIOUS
  <2>3. OtherPages(list) = <<>>
    BY <1>1, <1>3 DEF OtherPages
  <2>4. list \o <<>> = list
    OBVIOUS
  <2> QED
    BY <1>2, <2>1, <2>2, <2>3, <2>4
<1>4. CASE n >= PageSize
  <2>1. FirstPage(list) = SubSeq(list, 1, PageSize)
    BY <1>1, <1>4 DEF FirstPage
  <2>2. OtherPages(list) = SubSeq(list, PageSize + 1, n)
    BY DEF OtherPages
  <2>3. Len(OtherPages(list)) = n - PageSize
    BY <2>2, <1>1, <1>4
  <2>4. OtherPages(list) = <<>> => n = PageSize
    BY <2>3, <1>1, <1>2
  <2>5. SubSeq(list, 1, n) = list
    OBVIOUS
  <2>6. OtherPages(list) = <<>> => FirstPage(list) = list
    BY <2>1, <2>4, <2>5
  <2>7. n # 0
    BY <1>1, <1>4
  <2>8. FirstPage(list) \o OtherPages(list) = list
    <3>1. SubSeq(list, 1, PageSize) \o SubSeq(list, PageSize + 1, n) = list
      BY <1>1, <1>4
    <3> QED
      BY <3>1, <2>1, <2>2
  <2> QED
    BY <1>2, <2>6, <2>7, <2>8
<1> QED
  BY <1>1, <1>3, <1>4

\* A snapshot shows the database.
LEMMA SnapshotShows ==
    ASSUME stored \in [Items -> 0 .. MaxOperations], NEW snapshot \in Snapshots
    PROVE  /\ snapshot \in Seq(Row) /\ Ordered(snapshot)
           /\ \A x \in Items : VersionsIn(snapshot, x) = IF stored[x] = 0 THEN {} ELSE {stored[x]}
<1> DEFINE n == Cardinality(StoredItems)
<1>0. IsFiniteSet(StoredItems) /\ n \in Nat
  <2>1. StoredItems \subseteq Items /\ IsFiniteSet(Items)
    BY ClientAssumption DEF StoredItems
  <2> QED
    BY <2>1, FS_Subset, FS_CardinalityType
<1>1. /\ snapshot \in [1 .. n -> {Versioned(item, stored[item]) : item \in StoredItems}]
      /\ \A i, j \in DOMAIN snapshot : i < j =>
             snapshot[i].item # snapshot[j].item /\ ~Before(snapshot[j].item, snapshot[i].item)
  BY DEF Snapshots, Listings
<1>2. {Versioned(item, stored[item]) : item \in StoredItems} \subseteq Row
  <2>1. \A item \in StoredItems : item \in Items /\ stored[item] \in 1 .. MaxOperations
    BY ClientAssumption DEF StoredItems
  <2> QED
    BY <2>1 DEF Versioned, Row
<1>3. snapshot \in Seq(Row)
  BY <1>0, <1>1, <1>2
<1>4. Ordered(snapshot)
  BY <1>1 DEF Ordered
<1>5. \A i \in 1 .. n : snapshot[i].item \in StoredItems /\ snapshot[i].version = stored[snapshot[i].item]
  BY <1>1 DEF Versioned
<1>6. DOMAIN snapshot = 1 .. n
  BY <1>1
<1>7. ItemsOf(snapshot) = StoredItems
  <2> DEFINE image == ItemsOf(snapshot)
             g == [i \in 1 .. n |-> snapshot[i].item]
  <2>1. image \subseteq StoredItems
    BY <1>5, <1>6 DEF ItemsOf
  <2>2. g \in Bijection(1 .. n, image)
    <3>1. g \in [1 .. n -> image]
      BY <1>6 DEF ItemsOf
    <3>2. \A i, j \in 1 .. n : g[i] = g[j] => i = j
      <4> SUFFICES ASSUME NEW i \in 1 .. n, NEW j \in 1 .. n, g[i] = g[j] PROVE i = j
        OBVIOUS
      <4>1. snapshot[i].item = snapshot[j].item
        OBVIOUS
      <4>2. ~(i < j) /\ ~(j < i)
        BY <4>1, <1>1, <1>6
      <4> QED
        BY <4>2, <1>0
    <3>3. \A y \in image : \E i \in 1 .. n : g[i] = y
      BY <1>6 DEF ItemsOf
    <3> QED
      BY <3>1, <3>2, <3>3 DEF Bijection, Injection, Surjection, IsInjective
  <2>3. Cardinality(image) = n
    BY <2>2, <1>0, FS_CountingElements DEF ExistsBijection
  <2> HIDE DEF image
  <2>4. image = StoredItems
    BY <2>1, <2>3, <1>0, FS_Subset
  <2> QED
    BY <2>4 DEF image
<1>8. ASSUME NEW x \in Items PROVE VersionsIn(snapshot, x) = IF stored[x] = 0 THEN {} ELSE {stored[x]}
  <2>1. ASSUME NEW v
        PROVE  v \in VersionsIn(snapshot, x) <=> \E i \in 1 .. n : snapshot[i].item = x /\ snapshot[i].version = v
    <3>1. v \in VersionsIn(snapshot, x) <=>
             \E i \in DOMAIN snapshot : snapshot[i].item = x /\ snapshot[i].version = v
      BY VersionsMean
    <3> QED
      BY <3>1, <1>6
  <2>2. CASE stored[x] = 0
    <3>1. \A i \in 1 .. n : snapshot[i].item # x
      BY <2>2, <1>5 DEF StoredItems
    <3> QED
      BY <3>1, <2>1, <2>2
  <2>3. CASE stored[x] # 0
    <3>1. x \in ItemsOf(snapshot)
      BY <2>3, <1>7 DEF StoredItems
    <3>2. PICK i \in 1 .. n : snapshot[i].item = x
      BY <3>1, <1>6, InListMeans
    <3>3. \A v : v \in VersionsIn(snapshot, x) <=> v = stored[x]
      BY <3>2, <2>1, <1>5
    <3> QED
      BY <3>3, <2>3
  <2> QED
    BY <2>2, <2>3
<1> QED
  BY <1>3, <1>4, <1>8

\* What an operation announces.
LEMMA OneList ==
    ASSUME NEW name \in SignalNames, NEW notice \in Notice, name \in EventNames => notice \in Row
    PROVE  /\ Lists(name, <<notice>>) \in [SignalNames -> Seq(Notice)]
           /\ Lists(name, <<notice>>)[name] = <<notice>>
           /\ \A other \in SignalNames \ {name} : Lists(name, <<notice>>)[other] = <<>>
           /\ \A other \in EventNames : Lists(name, <<notice>>)[other] \in Seq(Row)
           /\ \E other \in SignalNames : Lists(name, <<notice>>)[other] # <<>>
<1>1. <<>> \in Seq(Notice) /\ <<>> \in Seq(Row) /\ <<notice>> \in Seq(Notice) /\ <<notice>> # <<>>
      /\ (notice \in Row => <<notice>> \in Seq(Row))
  OBVIOUS
<1>2. NothingPending \in [SignalNames -> Seq(Notice)] /\ \A other \in SignalNames : NothingPending[other] = <<>>
  BY <1>1 DEF NothingPending
<1>3. /\ Lists(name, <<notice>>) \in [SignalNames -> Seq(Notice)]
      /\ Lists(name, <<notice>>)[name] = <<notice>>
      /\ \A other \in SignalNames \ {name} : Lists(name, <<notice>>)[other] = <<>>
  BY <1>1, <1>2 DEF Lists
<1>4. \A other \in EventNames : other \in SignalNames
  BY DEF EventNames, SignalNames
<1>5. ASSUME NEW other \in EventNames PROVE Lists(name, <<notice>>)[other] \in Seq(Row)
  BY <1>1, <1>3, <1>4
<1> QED
  BY <1>1, <1>3, <1>5

LEMMA OneNotice ==
    ASSUME NEW x, NEW v, NEW item
    PROVE  /\ ItemsOf(<<Versioned(item, v)>>) = {item}
           /\ ItemsOf(<<>>) = {}
BY DEF ItemsOf, Versioned

-----------------------------------------------------------------------------
(* Notices                                                                 *)

LEMMA NoticesAre ==
    /\ Row \subseteq Notice
    /\ \A list \in Seq(Row) : list \in Seq(Notice)
    /\ \A item \in Items : \A v \in 1 .. MaxOperations : Versioned(item, v) \in Row
    /\ \A v \in 1 .. MaxOperations : Versioned(Thread, v) \in Notice
<1>1. Row \subseteq Notice
  BY DEF Row, Notice
<1>2. \A list \in Seq(Row) : list \in Seq(Notice)
  <2> SUFFICES ASSUME NEW list \in Seq(Row) PROVE list \in Seq(Notice)
    OBVIOUS
  <2>1. \A i \in 1 .. Len(list) : list[i] \in Notice
    BY <1>1, ElementOfSeq
  <2>2. Len(list) \in Nat /\ list = [i \in 1 .. Len(list) |-> list[i]]
    OBVIOUS
  <2>3. list \in [1 .. Len(list) -> Notice]
    BY <2>1, <2>2
  <2> QED
    BY <2>2, <2>3
<1>3. \A item \in Items : \A v \in 1 .. MaxOperations : Versioned(item, v) \in Row
  BY DEF Row, Versioned
<1>4. \A v \in 1 .. MaxOperations : Versioned(Thread, v) \in Notice
  BY DEF Notice, Versioned
<1> QED
  BY <1>1, <1>2, <1>3, <1>4

\* The six lists of each kind of operation.
WriteLists(item) == Lists(IF stored[item] = 0 THEN "eventsAdded" ELSE "eventsModified",
                          <<Versioned(item, operations + 1)>>)
RemoveLists(item) == [Lists("eventsRemoved", <<Versioned(item, operations + 1)>>) EXCEPT
                        !["threadsRemoved"] = IF StoredItems = {item}
                                              THEN <<Versioned(Thread, operations + 1)>> ELSE <<>>]
ThreadLists == Lists("threadsRemoved", <<Versioned(Thread, operations + 1)>>)

GoodLists(lists) == /\ lists \in [SignalNames -> Seq(Notice)]
                    /\ \A name \in EventNames : lists[name] \in Seq(Row)
                    /\ \E name \in SignalNames : lists[name] # <<>>

LEMMA WriteListsAre ==
    ASSUME NEW item \in Items, operations + 1 \in 1 .. MaxOperations
    PROVE  /\ GoodLists(WriteLists(item))
           /\ \A name \in SignalNames :
                 WriteLists(item)[name] = IF name = (IF stored[item] = 0 THEN "eventsAdded" ELSE "eventsModified")
                                          THEN <<Versioned(item, operations + 1)>> ELSE <<>>
<1> DEFINE name == IF stored[item] = 0 THEN "eventsAdded" ELSE "eventsModified"
           notice == Versioned(item, operations + 1)
<1>1. name \in SignalNames /\ notice \in Row /\ notice \in Notice
  BY NoticesAre DEF SignalNames
<1>2. WriteLists(item) = Lists(name, <<notice>>)
  BY DEF WriteLists
<1> HIDE DEF name, notice
<1>3. /\ Lists(name, <<notice>>) \in [SignalNames -> Seq(Notice)]
      /\ Lists(name, <<notice>>)[name] = <<notice>>
      /\ \A other \in SignalNames \ {name} : Lists(name, <<notice>>)[other] = <<>>
      /\ \A other \in EventNames : Lists(name, <<notice>>)[other] \in Seq(Row)
      /\ \E other \in SignalNames : Lists(name, <<notice>>)[other] # <<>>
  BY <1>1, OneList
<1>4. GoodLists(WriteLists(item))
  BY <1>2, <1>3 DEF GoodLists
<1>5. \A other \in SignalNames : WriteLists(item)[other] = IF other = name THEN <<notice>> ELSE <<>>
  BY <1>2, <1>3
<1> QED
  BY <1>4, <1>5 DEF name, notice

LEMMA ThreadListsAre ==
    ASSUME operations + 1 \in 1 .. MaxOperations
    PROVE  /\ GoodLists(ThreadLists)
           /\ \A name \in SignalNames :
                 ThreadLists[name] = IF name = "threadsRemoved" THEN <<Versioned(Thread, operations + 1)>> ELSE <<>>
<1> DEFINE name == "threadsRemoved"
           notice == Versioned(Thread, operations + 1)
<1>1. name \in SignalNames /\ name \notin EventNames /\ notice \in Notice
  BY NoticesAre DEF SignalNames, EventNames
<1>2. ThreadLists = Lists(name, <<notice>>)
  BY DEF ThreadLists
<1> HIDE DEF name, notice
<1>3. /\ Lists(name, <<notice>>) \in [SignalNames -> Seq(Notice)]
      /\ Lists(name, <<notice>>)[name] = <<notice>>
      /\ \A other \in SignalNames \ {name} : Lists(name, <<notice>>)[other] = <<>>
      /\ \A other \in EventNames : Lists(name, <<notice>>)[other] \in Seq(Row)
      /\ \E other \in SignalNames : Lists(name, <<notice>>)[other] # <<>>
  BY <1>1, OneList
<1>4. GoodLists(ThreadLists)
  BY <1>2, <1>3 DEF GoodLists
<1>5. \A other \in SignalNames : ThreadLists[other] = IF other = name THEN <<notice>> ELSE <<>>
  BY <1>2, <1>3
<1> QED
  BY <1>4, <1>5 DEF name, notice

LEMMA RemoveListsAre ==
    ASSUME NEW item \in Items, operations + 1 \in 1 .. MaxOperations
    PROVE  /\ GoodLists(RemoveLists(item))
           /\ \A name \in SignalNames :
                 RemoveLists(item)[name] =
                     IF name = "eventsRemoved" THEN <<Versioned(item, operations + 1)>>
                     ELSE IF name = "threadsRemoved" /\ StoredItems = {item}
                     THEN <<Versioned(Thread, operations + 1)>> ELSE <<>>
<1> DEFINE name == "eventsRemoved"
           notice == Versioned(item, operations + 1)
           thread == IF StoredItems = {item} THEN <<Versioned(Thread, operations + 1)>> ELSE <<>>
<1>1. name \in SignalNames /\ notice \in Row /\ notice \in Notice /\ "threadsRemoved" \in SignalNames
      /\ "threadsRemoved" \notin EventNames /\ name # "threadsRemoved"
  BY NoticesAre DEF SignalNames, EventNames
<1>2. thread \in Seq(Notice)
  <2>1. Versioned(Thread, operations + 1) \in Notice
    BY NoticesAre
  <2> QED
    BY <2>1
<1>3. RemoveLists(item) = [Lists(name, <<notice>>) EXCEPT !["threadsRemoved"] = thread]
  BY DEF RemoveLists
<1> HIDE DEF name, notice, thread
<1>4. /\ Lists(name, <<notice>>) \in [SignalNames -> Seq(Notice)]
      /\ Lists(name, <<notice>>)[name] = <<notice>>
      /\ \A other \in SignalNames \ {name} : Lists(name, <<notice>>)[other] = <<>>
      /\ \A other \in EventNames : Lists(name, <<notice>>)[other] \in Seq(Row)
  BY <1>1, OneList
<1>5. RemoveLists(item) \in [SignalNames -> Seq(Notice)]
  BY <1>2, <1>3, <1>4
<1>6. \A other \in SignalNames : RemoveLists(item)[other] =
          IF other = "threadsRemoved" THEN thread ELSE Lists(name, <<notice>>)[other]
  BY <1>3, <1>4
<1>7. \A other \in EventNames : other \in SignalNames /\ other # "threadsRemoved"
  BY DEF EventNames, SignalNames
<1>8. <<notice>> # <<>>
  OBVIOUS
<1>9. GoodLists(RemoveLists(item))
  BY <1>1, <1>4, <1>5, <1>6, <1>7, <1>8 DEF GoodLists
<1>10. \A other \in SignalNames : RemoveLists(item)[other] =
           IF other = name THEN <<notice>> ELSE IF other = "threadsRemoved" THEN thread ELSE <<>>
  BY <1>1, <1>4, <1>6
<1> QED
  BY <1>9, <1>10 DEF name, notice, thread

-----------------------------------------------------------------------------
(* The inductive invariant.                                                *)

\* The client knows of the daemon what the last such message in its inbox says.
ServiceKnown ==
    /\ (view.connected /\ view.alive) \/ update \/ ~up \/ Services # {}
    /\ up # running => Services # {}
    /\ ~up => pending = NothingPending
    /\ \A i \in Services : (\A j \in Services : j <= i) =>
           inbox[i].signal = IF up THEN "serviceRegistered" ELSE "serviceUnregistered"

\* A view that has loaded everything has no rest, and an invalid one no object.
ViewOK ==
    /\ view.whole => view.rest = <<>>
    /\ ~more /\ view.connected /\ view.valid => view.rest = <<>>
    /\ view.connected /\ ~view.valid => ~view.alive

Following == view.connected /\ ~update /\ Services = {}

ToldOf(x) == Told(Own(x), Removals(x), Line, x, stored[x])

ReadyFor(x) ==
    IF view.whole THEN Ready(Own(x), Removals(x), Line, stored[x], VersionsIn(rows, x))
    ELSE stored[x] # 0 /\ Own(x) = {} => x \in ItemsOf(rows \o view.rest)

Typing == TypeOK /\ QueueOK /\ NothingStranded
AllTold == \A x \in Items \ crossed : ToldOf(x)
AllReady == Following => \A x \in Items \ crossed : ReadyFor(x)
ClientInv == Typing /\ RowsSorted /\ ServiceKnown /\ ViewOK /\ AllTold /\ AllReady

LEMMA QueueTyped ==
    ASSUME QueueOK
    PROVE  /\ \A i \in DOMAIN inbox : inbox[i].items \in Seq(Notice)
           /\ inbox # <<>> => /\ Head(inbox) \in Message /\ Head(inbox) = inbox[1] /\ 1 \in DOMAIN inbox
                              /\ Head(inbox).signal \in EventNames => Head(inbox).items \in Seq(Row)
<1>1. \A i \in DOMAIN inbox : inbox[i] \in Message
  BY DEF QueueOK
<1>2. inbox # <<>> => Head(inbox) = inbox[1] /\ 1 \in DOMAIN inbox
  BY DEF QueueOK
<1> QED
  BY <1>1, <1>2 DEF Message

LEMMA OrderedRows == RowsSorted <=> (view.whole => Ordered(rows))
BY DEF RowsSorted, Ordered

LEMMA Initially == Init => ClientInv
<1> SUFFICES ASSUME Init PROVE ClientInv
  OBVIOUS
<1>1. <<>> \in Seq(Notice) /\ <<>> \in Seq(Row) /\ <<>> \in Seq(Message) /\ DOMAIN inbox = {}
  BY DEF Init, SignalQueueInit
<1>2. pending \in [SignalNames -> Seq(Notice)] /\ \A name \in SignalNames : pending[name] = <<>>
  BY <1>1 DEF Init, SignalQueueInit, NothingPending
<1>3. \A name \in EventNames : name \in SignalNames
  BY DEF EventNames, SignalNames
<1>4. QueueOK
  BY <1>1, <1>2, <1>3 DEF QueueOK, Init, SignalQueueInit
<1>5. view \in [connected : BOOLEAN, valid : BOOLEAN, alive : BOOLEAN, rest : Seq(Row), whole : BOOLEAN]
      /\ view.rest = <<>> /\ view.connected = FALSE
  BY <1>1 DEF Init, NoView
<1>6. MaxOperations \in Nat
  BY ClientAssumption
<1>7. Typing
  BY <1>1, <1>2, <1>4, <1>5, <1>6 DEF Typing, TypeOK, NothingStranded, Init, SignalQueueInit
<1>8. RowsSorted
  BY DEF RowsSorted, Init
<1>9. ServiceKnown /\ ViewOK
  BY <1>1, <1>5 DEF ServiceKnown, ViewOK, Services, Init
<1>10. AllTold
  <2> SUFFICES ASSUME NEW x \in Items PROVE ToldOf(x)
    BY DEF AllTold
  <2>1. Own(x) = {} /\ Removals(x) = {}
    BY <1>4, NothingIsInLine DEF Init, SignalQueueInit
  <2> QED
    BY <2>1, ToldNothing DEF ToldOf
<1>11. AllReady
  BY <1>5 DEF AllReady, Following
<1> QED
  BY <1>7, <1>8, <1>9, <1>10, <1>11 DEF ClientInv

-----------------------------------------------------------------------------
(* Types                                                                   *)

\* The operations of the daemon, with their lists named.
LEMMA OperationsNotify ==
    ASSUME TypeOK
    PROVE  /\ \A item \in Items : WriteEvent(item) => Notify(WriteLists(item))
           /\ \A item \in Items : RemoveEvent(item) => Notify(RemoveLists(item))
           /\ RemoveThread => Notify(ThreadLists)
           /\ DaemonOperation => /\ operations + 1 \in 1 .. MaxOperations
                                 /\ operations' = operations + 1 /\ operations' \in 0 .. MaxOperations
                                 /\ up /\ up' = up /\ running' = running /\ view' = view
                                 /\ rows' = rows /\ more' = more /\ update' = update
<1>1. DaemonOperation => operations' = operations + 1 /\ operations < MaxOperations
  BY DEF DaemonOperation, Operate
<1>2. operations \in 0 .. MaxOperations /\ MaxOperations \in Nat
  BY ClientAssumption DEF TypeOK
<1>3. \A item \in Items : WriteEvent(item) => Notify(WriteLists(item))
  BY <1>1 DEF WriteEvent, WriteLists
<1>4. \A item \in Items : RemoveEvent(item) => Notify(RemoveLists(item))
  BY <1>1 DEF RemoveEvent, RemoveLists
<1>5. RemoveThread => Notify(ThreadLists)
  BY <1>1 DEF RemoveThread, ThreadLists
<1>6. DaemonOperation => operations + 1 \in 1 .. MaxOperations /\ operations' \in 0 .. MaxOperations
  BY <1>1, <1>2
<1> QED
  BY <1>1, <1>3, <1>4, <1>5, <1>6 DEF DaemonOperation, client

LEMMA NotifyTyped ==
    ASSUME Typing, NEW lists, GoodLists(lists), Notify(lists)
    PROVE  /\ QueueOK' /\ NothingStranded'
           /\ pending' \in [SignalNames -> Seq(Notice)]
           /\ timer' = "running" /\ inbox' = inbox
           /\ pending' = [name \in SignalNames |-> pending[name] \o lists[name]]
<1>1. /\ pending' = [name \in SignalNames |-> pending[name] \o lists[name]] /\ inbox' = inbox
      /\ timer' = "running"
  BY DEF Notify, GoodLists
<1>2. QueueOK'
  BY <1>1, LineAfterNotifying DEF Typing, GoodLists
<1>3. pending' # NothingPending
  <2>1. PICK name \in SignalNames : lists[name] # <<>>
    BY DEF GoodLists
  <2>2. pending[name] \in Seq(Notice) /\ lists[name] \in Seq(Notice)
    BY DEF Typing, QueueOK, GoodLists
  <2>3. pending[name] \o lists[name] # <<>>
    BY <2>1, <2>2, ListsJoined
  <2> QED
    BY <2>3, <1>1 DEF NothingPending
<1> QED
  BY <1>1, <1>2, <1>3 DEF NothingStranded, QueueOK

\* The row lists of a signal are typed, so what the model makes of them is.
LEMMA ReceivedRows ==
    ASSUME Typing
    PROVE  /\ OnEventsAdded => rows' \in Seq(Row)
           /\ OnEventsModified => rows' \in Seq(Row)
           /\ OnEventsRemoved => rows' \in Seq(Row)
<1>1. rows \in Seq(Row)
  BY DEF Typing, TypeOK
<1>2. \A signal \in EventNames : Receive(signal) => Head(inbox).items \in Seq(Row)
  BY QueueTyped DEF Typing, Receive
<1>3. OnEventsAdded => rows' \in Seq(Row)
  BY <1>1, <1>2, AddRowsEffect DEF OnEventsAdded, ReceiveEvents, EventNames
<1>4. OnEventsModified => rows' \in Seq(Row)
  BY <1>1, <1>2, ModifyRowsEffect DEF OnEventsModified, ReceiveEvents, EventNames
<1>5. OnEventsRemoved => rows' \in Seq(Row)
  BY <1>1, <1>2, RemoveRowsEffect DEF OnEventsRemoved, ReceiveEvents, EventNames
<1> QED
  BY <1>3, <1>4, <1>5

LEMMA TypingStep ==
    ASSUME Typing, ServiceKnown, [Next]_vars
    PROVE  Typing'
<1>0. /\ pending \in [SignalNames -> Seq(Notice)] /\ timer \in {"off", "running", "due"}
      /\ stored \in [Items -> 0..MaxOperations] /\ operations \in 0..MaxOperations
      /\ {up, running, more, update} \subseteq BOOLEAN
      /\ view \in [connected : BOOLEAN, valid : BOOLEAN, alive : BOOLEAN, rest : Seq(Row), whole : BOOLEAN]
      /\ rows \in Seq(Row) /\ crossed \subseteq Items /\ QueueOK /\ NothingStranded
  BY DEF Typing, TypeOK
<1>00. TypeOK
  BY DEF Typing
<1>1. ASSUME QueueOK' PROVE \A i \in DOMAIN inbox' : inbox'[i].items \in Seq(Notice)
  <2>1. inbox' \in Seq(Message)
    BY <1>1 DEF QueueOK
  <2>2. \A i \in DOMAIN inbox' : inbox'[i] \in Message
    BY <2>1
  <2> QED
    BY <2>2 DEF Message
<1>2. \A item \in Items : ItemsOf(pending["eventsAdded"]) \subseteq Items
                          /\ ItemsOf(pending["eventsModified"]) \subseteq Items
  BY <1>0, RowsAre DEF QueueOK, EventNames
<1>3. ASSUME NEW item \in Items, WriteEvent(item) PROVE Typing'
  <2>1. DaemonOperation /\ Notify(WriteLists(item))
    BY <1>00, <1>3, OperationsNotify DEF WriteEvent
  <2>2. operations + 1 \in 1 .. MaxOperations /\ operations' = operations + 1 /\ operations' \in 0 .. MaxOperations
        /\ up' = up /\ running' = running /\ view' = view /\ rows' = rows /\ more' = more /\ update' = update
    BY <1>00, <2>1, OperationsNotify
  <2>3. GoodLists(WriteLists(item))
    BY <2>2, WriteListsAre
  <2>4. QueueOK' /\ NothingStranded' /\ pending' \in [SignalNames -> Seq(Notice)] /\ timer' = "running"
    BY <2>1, <2>3, NotifyTyped
  <2>5. stored' \in [Items -> 0 .. MaxOperations] /\ crossed' \subseteq Items
    BY <1>0, <1>3, <2>2 DEF WriteEvent
  <2> QED
    BY <1>0, <1>1, <2>2, <2>4, <2>5 DEF Typing, TypeOK
<1>4. ASSUME NEW item \in Items, RemoveEvent(item) PROVE Typing'
  <2>1. DaemonOperation /\ Notify(RemoveLists(item))
    BY <1>00, <1>4, OperationsNotify DEF RemoveEvent
  <2>2. operations + 1 \in 1 .. MaxOperations /\ operations' = operations + 1 /\ operations' \in 0 .. MaxOperations
        /\ up' = up /\ running' = running /\ view' = view /\ rows' = rows /\ more' = more /\ update' = update
    BY <1>00, <2>1, OperationsNotify
  <2>3. GoodLists(RemoveLists(item))
    BY <2>2, RemoveListsAre
  <2>4. QueueOK' /\ NothingStranded' /\ pending' \in [SignalNames -> Seq(Notice)] /\ timer' = "running"
    BY <2>1, <2>3, NotifyTyped
  <2>5. stored' \in [Items -> 0 .. MaxOperations] /\ crossed' \subseteq Items
    <3>1. 0 \in 0 .. MaxOperations
      BY ClientAssumption
    <3> QED
      BY <1>0, <1>4, <3>1 DEF RemoveEvent
  <2> QED
    BY <1>0, <1>1, <2>2, <2>4, <2>5 DEF Typing, TypeOK
<1>5. ASSUME RemoveThread PROVE Typing'
  <2>1. DaemonOperation /\ Notify(ThreadLists)
    BY <1>00, <1>5, OperationsNotify DEF RemoveThread
  <2>2. operations + 1 \in 1 .. MaxOperations /\ operations' = operations + 1 /\ operations' \in 0 .. MaxOperations
        /\ up' = up /\ running' = running /\ view' = view /\ rows' = rows /\ more' = more /\ update' = update
    BY <1>00, <2>1, OperationsNotify
  <2>3. GoodLists(ThreadLists)
    BY <2>2, ThreadListsAre
  <2>4. QueueOK' /\ NothingStranded' /\ pending' \in [SignalNames -> Seq(Notice)] /\ timer' = "running"
    BY <2>1, <2>3, NotifyTyped
  <2>5. stored' \in [Items -> 0 .. MaxOperations] /\ crossed' \subseteq Items
    <3>1. 0 \in 0 .. MaxOperations
      BY ClientAssumption
    <3>2. ItemsOf(pending["eventsAdded"]) \subseteq Items /\ ItemsOf(pending["eventsModified"]) \subseteq Items
      BY <1>0, RowsAre DEF QueueOK, EventNames
    <3> QED
      BY <1>0, <1>5, <3>1, <3>2 DEF RemoveThread
  <2> QED
    BY <1>0, <1>1, <2>2, <2>4, <2>5 DEF Typing, TypeOK
<1>6. ASSUME Crash PROVE Typing'
  <2>1. QueueOK'
    <3>1. inbox' = Append(inbox, [signal |-> "serviceUnregistered", items |-> <<>>]) /\ pending' = NothingPending
      BY <1>6 DEF Crash, LoseSignals
    <3>2. "serviceUnregistered" \in ServiceSignals
      BY DEF ServiceSignals
    <3> QED
      BY <1>0, <3>1, <3>2, LineAfterService
  <2>2. operations' \in 0 .. MaxOperations
    BY <1>0, <1>6, ClientAssumption DEF Crash, Operate
  <2>3. view' \in [connected : BOOLEAN, valid : BOOLEAN, alive : BOOLEAN, rest : Seq(Row), whole : BOOLEAN]
    BY <1>0, <1>6 DEF Crash
  <2>4. NothingStranded' /\ timer' = "off"
    BY <1>6 DEF Crash, LoseSignals, NothingStranded
  <2>5. stored' = stored /\ running' = running /\ rows' = rows /\ more' = more /\ update' = update
        /\ crossed' = crossed /\ up' = FALSE
    BY <1>6 DEF Crash
  <2>6. pending' \in [SignalNames -> Seq(Notice)]
    BY <2>1 DEF QueueOK
  <2> QED
    BY <1>0, <1>1, <2>1, <2>2, <2>3, <2>4, <2>5, <2>6 DEF Typing, TypeOK
<1>7. ASSUME Restart PROVE Typing'
  <2>0. ~up /\ pending = NothingPending
    BY <1>7 DEF Restart, ServiceKnown
  <2>1. QueueOK'
    <3>1. inbox' = Append(inbox, [signal |-> "serviceRegistered", items |-> <<>>]) /\ pending' = NothingPending
      BY <1>7, <2>0 DEF Restart, RegisterService
    <3>2. "serviceRegistered" \in ServiceSignals
      BY DEF ServiceSignals
    <3> QED
      BY <1>0, <3>1, <3>2, LineAfterService
  <2>2. NothingStranded' /\ timer' = timer /\ pending' = pending
    BY <1>0, <1>7 DEF Restart, RegisterService, NothingStranded
  <2>3. stored' = stored /\ operations' = operations /\ running' = running /\ rows' = rows /\ more' = more
        /\ update' = update /\ crossed' = crossed /\ up' = TRUE /\ view' = view
    BY <1>7 DEF Restart, client
  <2> QED
    BY <1>0, <1>1, <2>1, <2>2, <2>3 DEF Typing, TypeOK
<1>8. ASSUME SendSignals PROVE Typing'
  <2>1. stored' = stored /\ operations' = operations /\ running' = running /\ rows' = rows /\ more' = more
        /\ update' = update /\ crossed' = crossed /\ up' = up /\ view' = view
    BY <1>8 DEF SendSignals, client
  <2>2. CASE Expire
    <3>1. pending' = pending /\ inbox' = inbox /\ timer = "running" /\ timer' = "due"
      BY <2>2 DEF Expire
    <3>2. QueueOK' /\ NothingStranded'
      BY <1>0, <3>1 DEF QueueOK, NothingStranded
    <3> QED
      BY <1>0, <1>1, <2>1, <3>1, <3>2 DEF Typing, TypeOK
  <2>3. CASE ProcessSignals
    <3>1. inbox' = inbox \o Emitted /\ pending' = NothingPending /\ timer' = "off"
      BY <2>3 DEF ProcessSignals
    <3>2. QueueOK' /\ NothingStranded'
      BY <1>0, <3>1, LineAfterSending DEF NothingStranded
    <3>3. pending' \in [SignalNames -> Seq(Notice)]
      BY <3>2 DEF QueueOK
    <3> QED
      BY <1>0, <1>1, <2>1, <3>1, <3>2, <3>3 DEF Typing, TypeOK
  <2> QED
    BY <1>8, <2>2, <2>3 DEF SendSignals
<1> DEFINE QueueSame == pending' = pending /\ timer' = timer /\ inbox' = inbox
<1>9. QueueSame => QueueOK' /\ NothingStranded'
  BY <1>0 DEF QueueOK, NothingStranded
<1>10. ASSUME UpdateQuery PROVE Typing'
  <2>1. QueueSame /\ stored' = stored /\ operations' = operations /\ up' = up /\ running' = running
        /\ update' = FALSE /\ crossed' \subseteq Items
    BY <1>0, <1>10 DEF UpdateQuery
  <2>2. /\ rows' \in Seq(Row) /\ more' \in BOOLEAN
        /\ view' \in [connected : BOOLEAN, valid : BOOLEAN, alive : BOOLEAN, rest : Seq(Row), whole : BOOLEAN]
    <3>1. ASSUME NEW snapshot \in Snapshots, rows' = FirstPage(snapshot),
                 view' = [connected |-> TRUE, valid |-> TRUE, alive |-> TRUE,
                          rest |-> OtherPages(snapshot), whole |-> OtherPages(snapshot) = <<>>],
                 more' = (snapshot # <<>>)
          PROVE  /\ rows' \in Seq(Row) /\ more' \in BOOLEAN
                 /\ view' \in [connected : BOOLEAN, valid : BOOLEAN, alive : BOOLEAN, rest : Seq(Row), whole : BOOLEAN]
      <4>1. snapshot \in Seq(Row)
        BY <1>0, SnapshotShows
      <4>2. FirstPage(snapshot) \in Seq(Row) /\ OtherPages(snapshot) \in Seq(Row)
        BY <4>1, PagesOf
      <4> QED
        BY <3>1, <4>2
    <3>2. ASSUME rows' = <<>>, view' = NoView, more' = FALSE
          PROVE  /\ rows' \in Seq(Row) /\ more' \in BOOLEAN
                 /\ view' \in [connected : BOOLEAN, valid : BOOLEAN, alive : BOOLEAN, rest : Seq(Row), whole : BOOLEAN]
      <4>1. <<>> \in Seq(Row)
        OBVIOUS
      <4> QED
        BY <3>2, <4>1 DEF NoView
    <3> QED
      BY <1>10, <3>1, <3>2 DEF UpdateQuery
  <2> QED
    BY <1>0, <1>1, <1>9, <2>1, <2>2 DEF Typing, TypeOK
<1>11. ASSUME FetchMore PROVE Typing'
  <2>1. QueueSame /\ stored' = stored /\ operations' = operations /\ up' = up /\ running' = running
        /\ crossed' = crossed
    BY <1>11 DEF FetchMore
  <2>2. view.rest \in Seq(Row) /\ view.valid \in BOOLEAN
    BY <1>0
  <2>3. FirstPage(view.rest) \in Seq(Row) /\ OtherPages(view.rest) \in Seq(Row)
    BY <2>2, PagesOf
  <2>4. CASE view.valid /\ view.alive
    <3>1. rows' = rows \o FirstPage(view.rest) /\ view' = [view EXCEPT !.rest = OtherPages(@)]
          /\ more' = (view.rest # <<>>) /\ update' = update
      BY <1>11, <2>4 DEF FetchMore
    <3>2. rows' \in Seq(Row)
      BY <1>0, <2>3, <3>1
    <3>3. view' \in [connected : BOOLEAN, valid : BOOLEAN, alive : BOOLEAN, rest : Seq(Row), whole : BOOLEAN]
      BY <1>0, <2>3, <3>1
    <3> QED
      BY <1>0, <1>1, <1>9, <2>1, <3>1, <3>2, <3>3 DEF Typing, TypeOK
  <2>5. CASE ~(view.valid /\ view.alive)
    <3>1. rows' = rows /\ view' = [view EXCEPT !.valid = FALSE] /\ more' = FALSE
          /\ update' = (update \/ view.valid)
      BY <1>11, <2>5 DEF FetchMore
    <3>2. view' \in [connected : BOOLEAN, valid : BOOLEAN, alive : BOOLEAN, rest : Seq(Row), whole : BOOLEAN]
      BY <1>0, <3>1
    <3>3. update' \in BOOLEAN
      BY <3>1
    <3> QED
      BY <1>0, <1>1, <1>9, <2>1, <3>1, <3>2, <3>3 DEF Typing, TypeOK
  <2> QED
    BY <2>4, <2>5
<1>12. ASSUME ChangeQuery PROVE Typing'
  <2>1. QueueSame /\ stored' = stored /\ up' = up /\ running' = running
        /\ crossed' = crossed /\ rows' = rows /\ view' = view /\ more' = more /\ update' = TRUE
    BY <1>12 DEF ChangeQuery
  <2>2. operations' \in 0 .. MaxOperations
    BY <1>0, <1>12, ClientAssumption DEF ChangeQuery, Operate
  <2> QED
    BY <1>0, <1>1, <1>9, <2>1, <2>2 DEF Typing, TypeOK
<1>13. ASSUME NEW signal, Receive(signal)
       PROVE  /\ QueueOK' /\ NothingStranded' /\ pending' = pending /\ timer' = timer /\ stored' = stored
              /\ operations' = operations /\ up' = up /\ view' = view /\ more' = more /\ crossed' = crossed
  <2>1. pending' = pending /\ timer' = timer /\ inbox # <<>> /\ inbox' = Tail(inbox)
    BY <1>13 DEF Receive
  <2>2. QueueOK'
    BY <1>0, <2>1, LineAfterReceiving
  <2> QED
    BY <1>0, <1>13, <2>1, <2>2 DEF Receive, NothingStranded
<1>14. ASSUME ReceiveNext PROVE Typing'
  <2>1. \E signal : Receive(signal)
    BY <1>14 DEF ReceiveNext, OnEventsAdded, OnEventsModified, OnEventsRemoved, ReceiveEvents,
                 OnThreadsRemoved, OnServiceRunningChanged
  <2>2. rows' \in Seq(Row)
    BY <1>0, <1>14, ReceivedRows DEF ReceiveNext, OnThreadsRemoved, OnServiceRunningChanged
  <2>3. {running', update'} \subseteq BOOLEAN
    BY <1>0, <1>14 DEF ReceiveNext, OnEventsAdded, OnEventsModified, OnEventsRemoved, ReceiveEvents,
                       OnThreadsRemoved, OnServiceRunningChanged
  <2> QED
    BY <1>0, <1>1, <1>13, <2>1, <2>2, <2>3 DEF Typing, TypeOK
<1>15. CASE UNCHANGED vars
  <2>1. QueueSame /\ stored' = stored /\ operations' = operations /\ up' = up /\ running' = running
        /\ crossed' = crossed /\ rows' = rows /\ view' = view /\ more' = more /\ update' = update
    BY <1>15 DEF vars
  <2> QED
    BY <1>0, <1>1, <1>9, <2>1 DEF Typing, TypeOK
<1> QED
  BY <1>3, <1>4, <1>5, <1>6, <1>7, <1>8, <1>10, <1>11, <1>12, <1>14, <1>15 DEF Next

-----------------------------------------------------------------------------
(* What an operation puts in line                                          *)

\* A list whose end is about other events says what it said; one that ends
\* with a notice about an event says that.
LEMMA SaysAppended ==
    ASSUME NEW s \in Seq(Notice), NEW t \in Seq(Notice), NEW x
    PROVE  /\ x \notin ItemsOf(t) => /\ \A v : SaysLast(s, x, v) => SaysLast(s \o t, x, v)
                                     /\ Once(s, x) => Once(s \o t, x)
           /\ \A v : t = <<Versioned(x, v)>> => /\ SaysLast(s \o t, x, v)
                                                /\ x \notin ItemsOf(s) => Once(s \o t, x)
<1> DEFINE n == Len(s)
           m == Len(t)
           u == s \o t
<1>1. /\ n \in Nat /\ m \in Nat /\ Len(u) = n + m
      /\ DOMAIN s = 1 .. n /\ DOMAIN t = 1 .. m /\ DOMAIN u = 1 .. (n + m)
      /\ \A i \in 1 .. (n + m) : u[i] = IF i <= n THEN s[i] ELSE t[i - n]
  OBVIOUS
<1> HIDE DEF n, m, u
<1>2. \A i \in 1 .. n : i \in 1 .. (n + m) /\ u[i] = s[i]
  BY <1>1
<1>3. \A i \in 1 .. (n + m) : i \notin 1 .. n => i - n \in 1 .. m /\ u[i] = t[i - n]
  BY <1>1
<1>4. ASSUME x \notin ItemsOf(t)
      PROVE  (\A v : SaysLast(s, x, v) => SaysLast(u, x, v)) /\ (Once(s, x) => Once(u, x))
  <2>1. \A i \in 1 .. m : t[i].item # x
    BY <1>1, <1>4 DEF ItemsOf
  <2>2. \A i \in 1 .. (n + m) : u[i].item = x => i \in 1 .. n /\ s[i].item = x
    BY <1>2, <1>3, <2>1
  <2>3. ASSUME NEW v, SaysLast(s, x, v) PROVE SaysLast(u, x, v)
    <3>1. PICK k \in 1 .. n : s[k] = Versioned(x, v) /\ \A j \in 1 .. n : j > k => s[j].item # x
      BY <1>1, <2>3 DEF SaysLast
    <3>2. k \in 1 .. (n + m) /\ u[k] = Versioned(x, v)
      BY <1>2, <3>1
    <3>3. \A j \in 1 .. (n + m) : j > k => u[j].item # x
      BY <2>2, <3>1
    <3> QED
      BY <1>1, <3>2, <3>3 DEF SaysLast
  <2>4. Once(s, x) => Once(u, x)
    BY <1>1, <2>2 DEF Once
  <2> QED
    BY <2>3, <2>4
<1>5. ASSUME NEW v, t = <<Versioned(x, v)>>
      PROVE  SaysLast(u, x, v) /\ (x \notin ItemsOf(s) => Once(u, x))
  <2>1. m = 1 /\ t[1] = Versioned(x, v)
    BY <1>5 DEF m
  <2>2. n + 1 \in 1 .. (n + m) /\ n + 1 \notin 1 .. n /\ (n + 1) - n = 1
    BY <1>1, <2>1
  <2>3. u[n + 1] = Versioned(x, v)
    BY <1>3, <2>1, <2>2
  <2>4. \A j \in 1 .. (n + m) : ~(j > n + 1)
    BY <1>1, <2>1
  <2>5. SaysLast(u, x, v)
    BY <1>1, <2>2, <2>3, <2>4 DEF SaysLast
  <2>6. ASSUME x \notin ItemsOf(s) PROVE Once(u, x)
    <3>1. \A i \in 1 .. n : s[i].item # x
      BY <1>1, <2>6 DEF ItemsOf
    <3>2. \A i \in 1 .. (n + m) : u[i].item = x => i \notin 1 .. n
      BY <1>2, <3>1
    <3>3. \A i \in 1 .. (n + m) : i \notin 1 .. n => i = n + 1
      BY <1>1, <2>1
    <3> QED
      BY <1>1, <3>2, <3>3 DEF Once
  <2> QED
    BY <2>5, <2>6
<1> QED
  BY <1>4, <1>5 DEF u

\* What an operation's notices leave for the events they are not about.
LEMMA LineForOthers ==
    ASSUME Typing, NEW lists, GoodLists(lists), Notify(lists), NEW x,
           \A name \in EventNames : x \notin ItemsOf(lists[name])
    PROVE  /\ Own(x)' = Own(x)
           /\ Removals(x)' = IF lists["threadsRemoved"] = <<>> THEN Removals(x) ELSE Removals(x) \cup {3}
           /\ \A v : Told(Own(x), Removals(x), Line, x, v) => Told(Own(x), Removals(x), Line', x, v)
           /\ \A v, shown : Ready(Own(x), Removals(x), Line, v, shown)
                                => Ready(Own(x), Removals(x), Line', v, shown)
<1>1. QueueOK /\ lists \in [SignalNames -> Seq(Notice)] /\ (\A name \in EventNames : lists[name] \in Seq(Row))
      /\ pending' = [name \in SignalNames |-> pending[name] \o lists[name]] /\ inbox' = inbox
  BY NotifyTyped DEF Typing, GoodLists
<1>2. /\ QueueOK'
      /\ Slots' = Slots /\ Services' = Services
      /\ \A s \in Slots : Line'[s].signal = Line[s].signal
      /\ \A s \in Slots : s <= 0 => Line'[s] = Line[s]
      /\ \A s \in 1 .. 6 : Line'[s].items = Line[s].items \o lists[Kinds[s]]
      /\ \A s \in Slots : s \in Own(x)' <=> s \in Own(x) \/ (s \in 4 .. 6 /\ x \in ItemsOf(lists[Kinds[s]]))
      /\ \A s \in Slots : s \in Removals(x)' <=>
              \/ s \in Removals(x)
              \/ s = 6 /\ x \in ItemsOf(lists["eventsRemoved"])
              \/ s = 3 /\ lists["threadsRemoved"] # <<>>
  BY <1>1, LineAfterNotifying
<1>3. \A s \in 4 .. 6 : s \in 1 .. 6 /\ s \in {4, 5, 6}
  OBVIOUS
<1>4. \A s \in 4 .. 6 : Kinds[s] \in EventNames /\ Kinds[s] \in SignalNames
  BY <1>3, KindsAre DEF EventNames
<1>5. Own(x)' \subseteq Slots /\ Own(x) \subseteq Slots /\ Removals(x)' \subseteq Slots /\ Removals(x) \subseteq Slots
      /\ \A s \in Own(x) \cup Removals(x) : s \in Int
  <2>1. Own(x)' \subseteq Slots' /\ Removals(x)' \subseteq Slots'
    BY DEF Own, Removals, Live
  <2> QED
    BY <2>1, <1>1, <1>2, OwnAre
<1>6. Own(x)' = Own(x)
  BY <1>2, <1>4, <1>5
<1>7. 3 \in Slots
  BY <1>1, LineIs
<1>8. "eventsRemoved" \in EventNames
  BY DEF EventNames
<1>9. Removals(x)' = IF lists["threadsRemoved"] = <<>> THEN Removals(x) ELSE Removals(x) \cup {3}
  <2>1. \A s \in Slots : s \in Removals(x)' <=> s \in Removals(x) \/ (s = 3 /\ lists["threadsRemoved"] # <<>>)
    BY <1>2, <1>8
  <2>2. CASE lists["threadsRemoved"] = <<>>
    BY <2>1, <2>2, <1>5
  <2>3. CASE lists["threadsRemoved"] # <<>>
    <3> DEFINE R == Removals(x)'
               Q == Removals(x)
    <3>1. \A s \in Slots : s \in R <=> s \in Q \/ s = 3
      BY <2>1, <2>3
    <3>2. R \subseteq Slots /\ Q \subseteq Slots
      BY <1>5
    <3> HIDE DEF R, Q
    <3>3. R = Q \cup {3}
      BY <3>1, <3>2, <1>7
    <3> QED
      BY <3>3, <2>3 DEF R, Q
  <2> QED
    BY <2>2, <2>3
<1>10. \A s \in Own(x) : s <= 0 \/ s \in {4, 5, 6}
  BY <1>1, OwnAre
<1>11. ASSUME NEW v, NEW s \in Own(x)
       PROVE  /\ SaysLast(Line[s].items, x, v) => SaysLast(Line'[s].items, x, v)
              /\ Once(Line[s].items, x) => Once(Line'[s].items, x)
  <2>1. CASE s <= 0
    BY <2>1, <1>2, <1>5
  <2>2. CASE s \in {4, 5, 6}
    <3>1. s \in 1 .. 6 /\ s \in 4 .. 6
      BY <2>2
    <3>2. Line[s].items = pending[Kinds[s]] /\ Kinds[s] \in EventNames /\ Kinds[s] \in SignalNames
      BY <3>1, <1>1, <1>4, LineIs
    <3>3. Line[s].items \in Seq(Notice) /\ lists[Kinds[s]] \in Seq(Notice) /\ x \notin ItemsOf(lists[Kinds[s]])
      BY <3>2, <1>1 DEF QueueOK
    <3>4. Line'[s].items = Line[s].items \o lists[Kinds[s]]
      BY <3>1, <1>2
    <3> QED
      BY <3>3, <3>4, SaysAppended
  <2> QED
    BY <2>1, <2>2, <1>10
<1>12. \A s \in Own(x) \cup Removals(x) : Line'[s].signal = Line[s].signal
  BY <1>2, <1>5
<1> DEFINE new == Line'
<1>13. ASSUME NEW v
       PROVE  /\ Told(Own(x), Removals(x), Line, x, v) => Told(Own(x), Removals(x), new, x, v)
              /\ \A shown : Ready(Own(x), Removals(x), Line, v, shown) => Ready(Own(x), Removals(x), new, v, shown)
  <2>1. \A s \in Own(x) \cup Removals(x) : s \in Int
    BY <1>5
  <2>2. \A s \in Own(x) \cup Removals(x) : new[s].signal = Line[s].signal
    BY <1>12
  <2>3. \A s \in Own(x) : /\ SaysLast(Line[s].items, x, v) => SaysLast(new[s].items, x, v)
                          /\ Once(Line[s].items, x) => Once(new[s].items, x)
    BY <1>11
  <2> HIDE DEF new
  <2> QED
    BY <2>1, <2>2, <2>3, ToldSame
<1> QED
  BY <1>6, <1>9, <1>13

\* An operation of the daemon leaves the client alone.
LEMMA ClientWhenNotified ==
    ASSUME ClientInv, NEW lists, GoodLists(lists), Notify(lists),
           up, up' = up, running' = running, view' = view, rows' = rows, more' = more, update' = update
    PROVE  RowsSorted' /\ ServiceKnown' /\ ViewOK' /\ (Following' <=> Following)
<1>1. inbox' = inbox
  BY NotifyTyped DEF ClientInv, GoodLists
<1>2. Services' = Services
  BY <1>1 DEF Services
<1>3. RowsSorted'
  BY DEF ClientInv, RowsSorted
<1>4. ServiceKnown'
  BY <1>1, <1>2 DEF ClientInv, ServiceKnown
<1>5. ViewOK'
  BY DEF ClientInv, ViewOK
<1>6. Following' <=> Following
  BY <1>2 DEF Following
<1> QED
  BY <1>3, <1>4, <1>5, <1>6

\* What is to be shown of an event that has just been written or removed.
LEMMA ReadyWhenNotified ==
    ASSUME NEW x, view' = view, rows' = rows,
           stored'[x] # 0 /\ stored[x] # 0 /\ Own(x)' = {} => Own(x) = {},
           stored'[x] # 0 /\ stored[x] = 0 => Own(x)' # {},
           \A shown : Ready(Own(x), Removals(x), Line, stored[x], shown)
                          => Ready(Own(x)', Removals(x)', Line', stored'[x], shown)
    PROVE  ReadyFor(x) => ReadyFor(x)'
<1>1. CASE view.whole
  <2>1. ReadyFor(x)' <=> Ready(Own(x)', Removals(x)', Line', stored'[x], VersionsIn(rows', x))
    BY <1>1 DEF ReadyFor, Ready, VersionsIn
  <2>2. ReadyFor(x) <=> Ready(Own(x), Removals(x), Line, stored[x], VersionsIn(rows, x))
    BY <1>1 DEF ReadyFor
  <2> QED
    BY <2>1, <2>2
<1>2. CASE ~view.whole
  <2>1. ReadyFor(x)' <=> (stored'[x] # 0 /\ Own(x)' = {} => x \in ItemsOf(rows' \o view'.rest))
    BY <1>2 DEF ReadyFor, ItemsOf
  <2>2. ReadyFor(x) <=> (stored[x] # 0 /\ Own(x) = {} => x \in ItemsOf(rows \o view.rest))
    BY <1>2 DEF ReadyFor
  <2> QED
    BY <2>1, <2>2
<1> QED
  BY <1>1, <1>2

\* The events an operation's notices are not about.
LEMMA OthersWhenNotified ==
    ASSUME Typing, NEW lists, GoodLists(lists), Notify(lists), NEW x,
           \A name \in EventNames : x \notin ItemsOf(lists[name]),
           view' = view, rows' = rows, ToldOf(x),
           \/ lists["threadsRemoved"] = <<>> /\ stored'[x] = stored[x]
           \/ /\ lists["threadsRemoved"] # <<>> /\ stored'[x] = 0
              /\ stored[x] # 0 => 4 \notin Own(x) /\ 5 \notin Own(x)
    PROVE  ToldOf(x)' /\ (ReadyFor(x) => ReadyFor(x)')
<1> DEFINE own == Own(x)
           removals == Removals(x)
           new == Line'
           v == stored[x]
<1>1. /\ Own(x)' = own
      /\ Removals(x)' = IF lists["threadsRemoved"] = <<>> THEN removals ELSE removals \cup {3}
      /\ Told(own, removals, Line, x, v) => Told(own, removals, new, x, v)
      /\ \A shown : Ready(own, removals, Line, v, shown) => Ready(own, removals, new, v, shown)
  BY LineForOthers
<1>2. Told(own, removals, new, x, v)
  BY <1>1 DEF ToldOf
<1>3. ToldOf(x)' <=> Told(Own(x)', Removals(x)', new, x, stored'[x])
  BY DEF ToldOf
<1>4. CASE lists["threadsRemoved"] = <<>> /\ stored'[x] = stored[x]
  <2>1. ToldOf(x)'
    BY <1>1, <1>2, <1>3, <1>4
  <2>2. ReadyFor(x) => ReadyFor(x)'
    BY <1>1, <1>4, ReadyWhenNotified
  <2> QED
    BY <2>1, <2>2
<1>5. CASE /\ lists["threadsRemoved"] # <<>> /\ stored'[x] = 0
           /\ stored[x] # 0 => 4 \notin Own(x) /\ 5 \notin Own(x)
  <2>0. QueueOK /\ QueueOK' /\ pending' \in [SignalNames -> Seq(Notice)]
    BY NotifyTyped DEF Typing
  <2>1. \A s \in own : s \in Int /\ (s <= 0 \/ s = 6 \/ (s \in {4, 5} /\ v = 0))
    BY <1>5, <2>0, OwnAre
  <2>2. \A s \in removals : s \in Int /\ (s <= 3 \/ s = 6)
    BY <2>0, OwnAre
  <2>3. new[6].signal = "eventsRemoved" /\ new[3].signal = "threadsRemoved"
    <3>1. \A s \in 1 .. 6 : new[s].signal = Kinds[s]
      <4>1. \A s \in 1 .. 6 : s \in Slots /\ Line[s].signal = Kinds[s]
        BY <2>0, LineIs
      <4>2. \A s \in Slots : new[s].signal = Line[s].signal
        BY <2>0, LineAfterNotifying, NotifyTyped DEF GoodLists
      <4> QED
        BY <4>1, <4>2
    <3> QED
      BY <3>1, KindsAre
  <2>4. \A s \in removals : s > 3 => new[s].signal # "threadsRemoved"
    BY <2>2, <2>3
  <2> HIDE DEF own, removals, new, v
  <2>5. /\ Told(own, removals \cup {3}, new, x, 0)
        /\ \A shown : Ready(own, removals \cup {3}, new, 0, shown)
    BY <1>2, <2>1, <2>2, <2>3, <2>4, ToldAfterThread
  <2>6. Own(x)' = own /\ Removals(x)' = removals \cup {3}
    BY <1>1, <1>5
  <2>7. ToldOf(x)'
    BY <2>5, <2>6, <1>3, <1>5 
  <2>8. ReadyFor(x) => ReadyFor(x)'
    <3>1. \A shown : Ready(own, Removals(x), Line, stored[x], shown)
                          => Ready(Own(x)', Removals(x)', Line', stored'[x], shown)
      BY <2>5, <2>6, <1>5 DEF new
    <3> QED
      BY <3>1, <1>5, ReadyWhenNotified DEF own
  <2> QED
    BY <2>7, <2>8
<1> QED
  BY <1>4, <1>5

-----------------------------------------------------------------------------
(* The operations of the daemon                                            *)

\* The notices of one operation and the line after them.
LEMMA LineWhenNotified ==
    ASSUME Typing, NEW lists, GoodLists(lists), Notify(lists), NEW x
    PROVE  /\ \A s \in 1 .. 6 : Line'[s].signal = Kinds[s]
           /\ \A s \in 4 .. 6 : Line'[s].items = pending[Kinds[s]] \o lists[Kinds[s]]
           /\ \A s \in 1 .. 6 : lists[Kinds[s]] = <<>> => Line'[s] = Line[s]
           /\ \A s \in Slots : s <= 0 => Line'[s] = Line[s]
           /\ Own(x)' = Own(x) \cup {s \in 4 .. 6 : x \in ItemsOf(lists[Kinds[s]])}
           /\ Removals(x)' = Removals(x) \cup {s \in {3, 6} : \/ s = 6 /\ x \in ItemsOf(lists["eventsRemoved"])
                                                              \/ s = 3 /\ lists["threadsRemoved"] # <<>>}
           /\ Own(x) \subseteq Slots /\ Removals(x) \subseteq Slots
<1>1. QueueOK /\ lists \in [SignalNames -> Seq(Notice)] /\ (\A name \in EventNames : lists[name] \in Seq(Row))
      /\ pending' = [name \in SignalNames |-> pending[name] \o lists[name]] /\ inbox' = inbox
      /\ pending \in [SignalNames -> Seq(Notice)]
  BY NotifyTyped DEF Typing, GoodLists, QueueOK
<1>2. /\ QueueOK'
      /\ Slots' = Slots /\ Services' = Services
      /\ \A s \in Slots : Line'[s].signal = Line[s].signal
      /\ \A s \in Slots : s <= 0 => Line'[s] = Line[s]
      /\ \A s \in 1 .. 6 : Line'[s].items = Line[s].items \o lists[Kinds[s]]
      /\ \A s \in Slots : s \in Own(x)' <=> s \in Own(x) \/ (s \in 4 .. 6 /\ x \in ItemsOf(lists[Kinds[s]]))
      /\ \A s \in Slots : s \in Removals(x)' <=>
              \/ s \in Removals(x)
              \/ s = 6 /\ x \in ItemsOf(lists["eventsRemoved"])
              \/ s = 3 /\ lists["threadsRemoved"] # <<>>
  BY <1>1, LineAfterNotifying
<1>3. \A s \in 1 .. 6 : s \in Slots /\ Line[s].signal = Kinds[s] /\ Line[s].items = pending[Kinds[s]]
                        /\ Kinds[s] \in SignalNames
  BY <1>1, LineIs, KindsAre
<1>4. \A s \in 1 .. 6 : Line'[s].signal = Kinds[s] /\ Line'[s].items = pending[Kinds[s]] \o lists[Kinds[s]]
  BY <1>2, <1>3
<1>5. \A s \in 4 .. 6 : s \in 1 .. 6
  OBVIOUS
<1>6. ASSUME NEW s \in 1 .. 6, lists[Kinds[s]] = <<>> PROVE Line'[s] = Line[s]
  <2>1. pending[Kinds[s]] \in Seq(Notice)
    BY <1>1, <1>3
  <2>2. pending[Kinds[s]] \o <<>> = pending[Kinds[s]]
    BY <2>1
  <2>3. pending'[Kinds[s]] = pending[Kinds[s]]
    BY <2>2, <1>1, <1>3, <1>6
  <2>4. s \in Slots /\ s \in Slots' /\ ~(s <= 0)
    BY <1>2, <1>3
  <2> QED
    BY <2>3, <2>4 DEF Line
<1>7. Own(x)' \subseteq Slots /\ Own(x) \subseteq Slots /\ Removals(x)' \subseteq Slots /\ Removals(x) \subseteq Slots
  <2>1. Own(x)' \subseteq Slots' /\ Removals(x)' \subseteq Slots'
    BY DEF Own, Removals, Live
  <2> QED
    BY <2>1, <1>1, <1>2, OwnAre
<1> DEFINE O == Own(x)'
           R == Removals(x)'
           P == Own(x)
           Q == Removals(x)
           A == {s \in 4 .. 6 : x \in ItemsOf(lists[Kinds[s]])}
           B == {s \in {3, 6} : \/ s = 6 /\ x \in ItemsOf(lists["eventsRemoved"])
                                \/ s = 3 /\ lists["threadsRemoved"] # <<>>}
<1>8. (\A s \in Slots : s \in O <=> s \in P \/ s \in A) /\ (\A s \in Slots : s \in R <=> s \in Q \/ s \in B)
  BY <1>2
<1>9. A \subseteq Slots /\ B \subseteq Slots
  <2>1. 3 \in Slots /\ 6 \in Slots
    BY <1>3
  <2> QED
    BY <2>1, <1>3, <1>5
<1>10. O \subseteq Slots /\ P \subseteq Slots /\ R \subseteq Slots /\ Q \subseteq Slots
  BY <1>7
<1>11. O = P \cup A /\ R = Q \cup B
  <2> HIDE DEF O, R, P, Q, A, B
  <2>1. \A s : s \in O <=> s \in P \cup A
    BY <1>8, <1>9, <1>10
  <2>2. \A s : s \in R <=> s \in Q \cup B
    BY <1>8, <1>9, <1>10
  <2> QED
    BY <2>1, <2>2
<1>12. /\ \A s \in 1 .. 6 : Line'[s].signal = Kinds[s]
       /\ \A s \in 4 .. 6 : Line'[s].items = pending[Kinds[s]] \o lists[Kinds[s]]
       /\ \A s \in Slots : s <= 0 => Line'[s] = Line[s]
  BY <1>2, <1>4, <1>5
<1>13. Own(x)' = P \cup A /\ Removals(x)' = Q \cup B
  BY <1>11
<1> HIDE DEF A, B
<1> QED
  BY <1>6, <1>7, <1>12, <1>13 DEF A, B

\* writeEvents of one event.
LEMMA WriteStep ==
    ASSUME ClientInv, NEW item \in Items, WriteEvent(item)
    PROVE  (RowsSorted /\ ServiceKnown /\ ViewOK /\ AllTold /\ AllReady)'
<1> DEFINE lists == WriteLists(item)
           w == operations + 1
           kind == IF stored[item] = 0 THEN 4 ELSE 5
<1>0. Typing /\ TypeOK /\ QueueOK /\ AllTold /\ AllReady
  BY DEF ClientInv, Typing
<1>1. DaemonOperation /\ Notify(lists)
  BY <1>0, OperationsNotify DEF WriteEvent
<1>2. /\ operations + 1 \in 1 .. MaxOperations /\ operations' = operations + 1 /\ operations' \in 0 .. MaxOperations
      /\ up /\ up' = up /\ running' = running /\ view' = view /\ rows' = rows /\ more' = more /\ update' = update
  BY <1>0, <1>1, OperationsNotify
<1>3. GoodLists(lists)
  BY <1>2, WriteListsAre
<1>4. \A name \in SignalNames : lists[name] = IF name = Kinds[kind] THEN <<Versioned(item, w)>> ELSE <<>>
  BY <1>2, WriteListsAre, KindsAre
<1>5. RowsSorted' /\ ServiceKnown' /\ ViewOK' /\ (Following' <=> Following)
  BY <1>1, <1>2, <1>3, ClientWhenNotified
<1>6. stored' = [stored EXCEPT ![item] = w] /\ stored \in [Items -> 0 .. MaxOperations]
  BY <1>0, <1>2 DEF WriteEvent, TypeOK
<1>7. w # 0 /\ stored'[item] = w
  BY <1>2, <1>6
<1>8. /\ crossed \subseteq crossed'
      /\ item \notin crossed' => item \notin ItemsOf(pending["eventsRemoved"])
  BY DEF WriteEvent
<1>9. EventNames \subseteq SignalNames /\ "threadsRemoved" \in SignalNames /\ "threadsRemoved" # Kinds[kind]
  BY KindsAre DEF EventNames, SignalNames
<1>10. lists["threadsRemoved"] = <<>>
  BY <1>4, <1>9
<1> HIDE DEF lists, w
<1>11. ASSUME NEW x \in Items \ crossed', x # item
       PROVE  ToldOf(x)' /\ (ReadyFor(x) => ReadyFor(x)')
  <2>1. \A name \in EventNames : x \notin ItemsOf(lists[name])
    <3>1. x \notin ItemsOf(<<Versioned(item, w)>>) /\ x \notin ItemsOf(<<>>)
      BY <1>11, OneNotice
    <3> QED
      BY <3>1, <1>4, <1>9
  <2>2. ToldOf(x)
    BY <1>0, <1>8 DEF AllTold
  <2>3. stored'[x] = stored[x]
    BY <1>6, <1>11
  <2> QED
    BY <2>1, <2>2, <2>3, <1>0, <1>1, <1>2, <1>3, <1>10, OthersWhenNotified
<1>12. ASSUME item \notin crossed'
       PROVE  ToldOf(item)' /\ (ReadyFor(item) => ReadyFor(item)')
  <2> DEFINE own == Own(item)
             removals == Removals(item)
             new == Line'
  <2>1. item \notin ItemsOf(pending["eventsRemoved"]) /\ ToldOf(item)
    BY <1>0, <1>8, <1>12 DEF AllTold
  <2>2. 6 \notin own /\ 6 \notin removals
    <3>1. 6 \in 4 .. 6
      OBVIOUS
    <3> QED
      BY <2>1, <3>1, <1>0, OwnAre, KindsAre
  <2>3. /\ \A s \in 1 .. 6 : new[s].signal = Kinds[s]
        /\ \A s \in 4 .. 6 : new[s].items = pending[Kinds[s]] \o lists[Kinds[s]]
        /\ \A s \in 1 .. 6 : lists[Kinds[s]] = <<>> => new[s] = Line[s]
        /\ \A s \in Slots : s <= 0 => new[s] = Line[s]
        /\ own \subseteq Slots /\ removals \subseteq Slots
    BY <1>0, <1>1, <1>3, LineWhenNotified, ZenonT(20)
  <2>4. Own(item)' = own \cup {kind} /\ Removals(item)' = removals
    <3>1. /\ Own(item)' = own \cup {s \in 4 .. 6 : item \in ItemsOf(lists[Kinds[s]])}
          /\ Removals(item)' = removals \cup {s \in {3, 6} : \/ s = 6 /\ item \in ItemsOf(lists["eventsRemoved"])
                                                             \/ s = 3 /\ lists["threadsRemoved"] # <<>>}
      BY <1>0, <1>1, <1>3, LineWhenNotified, ZenonT(20)
    <3>2. \A s \in 4 .. 6 : Kinds[s] \in SignalNames /\ (Kinds[s] = Kinds[kind] <=> s = kind)
      <4>1. \A s \in 4 .. 6 : s = 4 \/ s = 5 \/ s = 6
        OBVIOUS
      <4> QED
        BY <4>1, KindsAre DEF SignalNames
    <3>3. item \in ItemsOf(<<Versioned(item, w)>>) /\ item \notin ItemsOf(<<>>)
      BY OneNotice
    <3>4. \A s \in 4 .. 6 : item \in ItemsOf(lists[Kinds[s]]) <=> s = kind
      BY <3>2, <3>3, <1>4
    <3>5. kind \in 4 .. 6
      OBVIOUS
    <3>6. lists["eventsRemoved"] = <<>>
      BY <1>4, KindsAre
    <3>7. {s \in 4 .. 6 : item \in ItemsOf(lists[Kinds[s]])} = {kind}
      BY <3>4, <3>5
    <3>8. {s \in {3, 6} : \/ s = 6 /\ item \in ItemsOf(lists["eventsRemoved"])
                          \/ s = 3 /\ lists["threadsRemoved"] # <<>>} = {}
      BY <3>3, <3>6, <1>10
    <3> QED
      BY <3>1, <3>7, <3>8
  <2>5. /\ \A s \in own \cup removals : s \in Int
        /\ \A s \in own : s <= 0 \/ s \in {4, 5}
        /\ \A s \in removals : s <= 3
        /\ \A s \in own : Line[s].signal = "eventsRemoved" => s \in removals
    BY <2>2, <1>0, OwnAre
  <2>6. Line[4].signal = "eventsAdded" /\ Line[5].signal = "eventsModified"
        /\ new[4].signal = "eventsAdded" /\ new[5].signal = "eventsModified"
    BY <2>3, <1>0, LineIs, KindsAre
  <2>7. pending[Kinds[kind]] \in Seq(Notice) /\ lists[Kinds[kind]] = <<Versioned(item, w)>>
        /\ <<Versioned(item, w)>> \in Seq(Notice)
    <3>1. Kinds[kind] \in SignalNames
      BY KindsAre
    <3>2. lists[Kinds[kind]] \in Seq(Notice)
      BY <3>1, <1>3 DEF GoodLists
    <3> QED
      BY <3>1, <3>2, <1>0, <1>4 DEF QueueOK
  <2>8. new[kind].items = pending[Kinds[kind]] \o <<Versioned(item, w)>>
    <3>1. kind \in 4 .. 6
      OBVIOUS
    <3> QED
      BY <3>1, <2>3, <2>7
  <2>9. SaysLast(new[kind].items, item, w)
        /\ (item \notin ItemsOf(pending[Kinds[kind]]) => Once(new[kind].items, item))
    <3> DEFINE s == pending[Kinds[kind]]
               u == <<Versioned(item, w)>>
    <3>1. s \in Seq(Notice) /\ u \in Seq(Notice) /\ new[kind].items = s \o u
      BY <2>7, <2>8
    <3> HIDE DEF s, u
    <3>2. \A v : u = <<Versioned(item, v)>> => SaysLast(s \o u, item, v)
                                              /\ (item \notin ItemsOf(s) => Once(s \o u, item))
      BY <3>1, SaysAppended
    <3>3. u = <<Versioned(item, w)>>
      BY DEF u
    <3>4. SaysLast(s \o u, item, w) /\ (item \notin ItemsOf(s) => Once(s \o u, item))
      BY <3>2, <3>3
    <3> QED
      BY <3>1, <3>4 DEF s
  <2>10. Told(own, removals, Line, item, stored[item])
    BY <2>1 DEF ToldOf
  <2>11. CASE stored[item] = 0
    <3>1. \A s \in own : s <= 0
      <4>1. ASSUME NEW s \in own, s > 0 PROVE FALSE
        <5>1. \A r \in own : r <= 5
          BY <2>5
        <5>2. \E p \in own : Latest(p, own)
          <6>1. own # {} /\ 5 \in Int /\ \A r \in own : r \in Int /\ r <= 5
            BY <4>1, <5>1, <2>5
          <6> HIDE DEF own
          <6> QED
            BY <6>1, LastExists
        <5>3. PICK p \in own : Latest(p, own)
          BY <5>2
        <5>4. p >= s /\ p \in Int /\ s \in Int
          BY <5>3, <2>5 DEF Latest
        <5>5. p \in {4, 5}
          BY <5>4, <4>1, <2>5
        <5>6. Line[p].signal # "eventsRemoved"
          BY <5>5, <2>6
        <5>7. PICK r \in removals : r > p
          BY <5>3, <5>6, <2>10, <2>11 DEF Told, RemovedLast
        <5>8. r <= 3 /\ r \in Int
          BY <2>5
        <5> QED
          BY <5>5, <5>7, <5>8
      <4> QED
        BY <4>1, <2>5
    <3>2. item \notin ItemsOf(pending[Kinds[kind]])
      <4>1. kind = 4 /\ 4 \in 4 .. 6
        BY <2>11
      <4>2. 4 \notin own
        BY <3>1
      <4> QED
        BY <4>1, <4>2, <1>0, OwnAre
    <3>3. SaysLast(new[4].items, item, w) /\ Once(new[4].items, item)
      BY <2>9, <3>2, <2>11
    <3>4. \A s \in own : new[s] = Line[s]
      BY <2>3, <3>1
    <3>5. Own(item)' = own \cup {4}
      BY <2>4, <2>11
    <3>6. Told(own, removals, Line, item, 0)
      BY <2>10, <2>11
    <3>7. /\ Told(own \cup {4}, removals, new, item, w)
          /\ \A shown : Ready(own, removals, Line, 0, shown) => Ready(own \cup {4}, removals, new, w, shown)
      <4>1. \A s \in own : s \in Int /\ s <= 0
        BY <3>1, <2>5
      <4>2. \A s \in removals : s \in Int /\ s <= 3
        BY <2>5
      <4> HIDE DEF own, removals, new
      <4> QED
        BY <4>1, <4>2, <2>5, <2>6, <3>3, <3>4, <3>6, <1>7, ToldAfterAdding, ZenonT(20)
    <3>8. ToldOf(item)'
      BY <3>5, <3>7, <2>4, <1>7 DEF ToldOf
    <3>9. ReadyFor(item) => ReadyFor(item)'
      <4>1. \A shown : Ready(Own(item), Removals(item), Line, stored[item], shown)
                           => Ready(Own(item)', Removals(item)', Line', stored'[item], shown)
        BY <3>5, <3>7, <2>4, <1>7, <2>11
      <4>2. Own(item)' # {}
        BY <3>5
      <4> QED
        BY <4>1, <4>2, <2>11, <1>2, ReadyWhenNotified
    <3> QED
      BY <3>8, <3>9
  <2>12. CASE stored[item] # 0
    <3>1. Own(item)' = own \cup {5} /\ SaysLast(new[5].items, item, w)
      BY <2>4, <2>9, <2>12
    <3>2. \A s \in own : s # 5 => new[s] = Line[s]
      <4>1. new[4] = Line[4]
        <5>1. Kinds[4] # Kinds[5] /\ Kinds[4] \in SignalNames
          BY KindsAre DEF SignalNames
        <5>2. lists[Kinds[4]] = <<>>
          BY <5>1, <1>4, <2>12
        <5> QED
          BY <5>2, <2>3
      <4> QED
        BY <4>1, <2>3, <2>5
    <3>3. \A s \in own : new[s].signal = Line[s].signal
      BY <3>2, <2>6
    <3>4. /\ Told(own \cup {5}, removals, new, item, w)
          /\ \A shown : Ready(own, removals, Line, stored[item], shown)
                            => Ready(own \cup {5}, removals, new, w, shown)
      <4>1. \A s \in own : s \in Int /\ s <= 5
        BY <2>5
      <4>2. \A s \in removals : s \in Int /\ s <= 5
        BY <2>5
      <4> HIDE DEF own, removals, new
      <4> QED
        BY <4>1, <4>2, <2>6, <3>1, <3>2, <3>3, <2>10, <2>12, <1>7, ToldAfterModifying
    <3>5. ToldOf(item)'
      BY <3>1, <3>4, <2>4, <1>7 DEF ToldOf
    <3>6. ReadyFor(item) => ReadyFor(item)'
      <4>1. \A shown : Ready(Own(item), Removals(item), Line, stored[item], shown)
                           => Ready(Own(item)', Removals(item)', Line', stored'[item], shown)
        BY <3>1, <3>4, <2>4, <1>7
      <4>2. Own(item)' # {}
        BY <3>1
      <4> QED
        BY <4>1, <4>2, <2>12, <1>2, ReadyWhenNotified
    <3> QED
      BY <3>5, <3>6
  <2> QED
    BY <2>11, <2>12
<1>13. AllTold'
  BY <1>11, <1>12 DEF AllTold
<1>14. AllReady'
  <2> SUFFICES ASSUME Following', NEW x \in Items \ crossed' PROVE ReadyFor(x)'
    BY DEF AllReady
  <2>1. ReadyFor(x)
    BY <1>0, <1>5, <1>8 DEF AllReady
  <2> QED
    BY <2>1, <1>11, <1>12
<1> QED
  BY <1>5, <1>13, <1>14

\* removeEvents of one event, with its thread if it was the last.
LEMMA RemoveStep ==
    ASSUME ClientInv, NEW item \in Items, RemoveEvent(item)
    PROVE  (RowsSorted /\ ServiceKnown /\ ViewOK /\ AllTold /\ AllReady)'
<1> DEFINE lists == RemoveLists(item)
           w == operations + 1
           thread == IF StoredItems = {item} THEN <<Versioned(Thread, w)>> ELSE <<>>
<1>0. Typing /\ TypeOK /\ QueueOK /\ AllTold /\ AllReady
  BY DEF ClientInv, Typing
<1>1. DaemonOperation /\ Notify(lists)
  BY <1>0, OperationsNotify DEF RemoveEvent
<1>2. /\ operations + 1 \in 1 .. MaxOperations /\ operations' = operations + 1 /\ operations' \in 0 .. MaxOperations
      /\ up /\ up' = up /\ running' = running /\ view' = view /\ rows' = rows /\ more' = more /\ update' = update
  BY <1>0, <1>1, OperationsNotify
<1>3. GoodLists(lists)
  BY <1>2, RemoveListsAre
<1>4. \A name \in SignalNames : lists[name] = IF name = "eventsRemoved" THEN <<Versioned(item, w)>>
                                              ELSE IF name = "threadsRemoved" THEN thread ELSE <<>>
  BY <1>2, RemoveListsAre
<1>5. RowsSorted' /\ ServiceKnown' /\ ViewOK' /\ (Following' <=> Following)
  BY <1>1, <1>2, <1>3, ClientWhenNotified
<1>6. stored' = [stored EXCEPT ![item] = 0] /\ stored \in [Items -> 0 .. MaxOperations]
      /\ stored[item] # 0 /\ crossed' = crossed /\ StoredItems = {y \in Items : stored[y] # 0}
  BY <1>0, <1>2 DEF RemoveEvent, TypeOK, StoredItems
<1>7. stored'[item] = 0
  BY <1>6
<1>8. "threadsRemoved" \in SignalNames /\ "eventsRemoved" \in SignalNames /\ EventNames \subseteq SignalNames
      /\ "threadsRemoved" \notin EventNames
  BY DEF EventNames, SignalNames
<1>9. lists["threadsRemoved"] = thread /\ (thread # <<>> <=> StoredItems = {item})
  BY <1>4, <1>8
<1> HIDE DEF lists, w, thread
<1>10. ASSUME NEW x \in Items \ crossed, x # item
       PROVE  ToldOf(x)' /\ (ReadyFor(x) => ReadyFor(x)')
  <2>1. \A name \in EventNames : x \notin ItemsOf(lists[name])
    <3>1. x \notin ItemsOf(<<Versioned(item, w)>>) /\ x \notin ItemsOf(<<>>)
      BY <1>10, OneNotice
    <3> QED
      BY <3>1, <1>4, <1>8
  <2>2. ToldOf(x)
    BY <1>0, <1>10 DEF AllTold
  <2>3. stored'[x] = stored[x]
    BY <1>6, <1>10
  <2>4. lists["threadsRemoved"] # <<>> => stored[x] = 0
    BY <1>6, <1>9, <1>10
  <2> QED
    BY <2>1, <2>2, <2>3, <2>4, <1>0, <1>1, <1>2, <1>3, OthersWhenNotified
<1>11. ToldOf(item) => ToldOf(item)' /\ (ReadyFor(item) => ReadyFor(item)')
  <2> DEFINE own == Own(item)
             removals == Removals(item)
             removals2 == Removals(item)'
             new == Line'
  <2> SUFFICES ASSUME ToldOf(item) PROVE ToldOf(item)' /\ (ReadyFor(item) => ReadyFor(item)')
    OBVIOUS
  <2>1. /\ \A s \in 1 .. 6 : new[s].signal = Kinds[s]
        /\ \A s \in 1 .. 6 : lists[Kinds[s]] = <<>> => new[s] = Line[s]
        /\ \A s \in Slots : s <= 0 => new[s] = Line[s]
        /\ own \subseteq Slots /\ removals \subseteq Slots
        /\ Own(item)' = own \cup {s \in 4 .. 6 : item \in ItemsOf(lists[Kinds[s]])}
        /\ removals \subseteq removals2
    BY <1>0, <1>1, <1>3, LineWhenNotified, ZenonT(20)
  <2>2. lists[Kinds[4]] = <<>> /\ lists[Kinds[5]] = <<>> /\ lists[Kinds[6]] = <<Versioned(item, w)>>
    BY <1>4, KindsAre DEF SignalNames
  <2>3. Own(item)' = own \cup {6}
    <3>1. item \in ItemsOf(<<Versioned(item, w)>>) /\ item \notin ItemsOf(<<>>)
      BY OneNotice
    <3>2. \A s \in 4 .. 6 : s = 4 \/ s = 5 \/ s = 6
      OBVIOUS
    <3>3. \A s \in 4 .. 6 : item \in ItemsOf(lists[Kinds[s]]) <=> s = 6
      BY <3>1, <3>2, <2>2
    <3>4. {s \in 4 .. 6 : item \in ItemsOf(lists[Kinds[s]])} = {6}
      BY <3>3
    <3> QED
      BY <3>4, <2>1
  <2>4. \A s \in own : s \in Int /\ s <= 6 /\ (s <= 0 \/ s \in {4, 5, 6})
    BY <1>0, OwnAre
  <2>5. \A s \in own : s # 6 => new[s] = Line[s]
    <3>1. new[4] = Line[4] /\ new[5] = Line[5]
      BY <2>1, <2>2
    <3> QED
      BY <3>1, <2>1, <2>4
  <2>6. new[6].signal = "eventsRemoved" /\ Line[6].signal = "eventsRemoved"
    BY <2>1, <1>0, LineIs, KindsAre
  <2>7. \A s \in own : new[s].signal = Line[s].signal
    BY <2>5, <2>6
  <2>8. Told(own, removals, Line, item, stored[item])
    BY DEF ToldOf
  <2>9. /\ Told(own \cup {6}, removals2, new, item, 0)
        /\ \A shown : Ready(own \cup {6}, removals2, new, 0, shown)
    <3>1. \A s \in own : s \in Int /\ s <= 6
      BY <2>4
    <3>2. removals \subseteq removals2
      BY <2>1
    <3> HIDE DEF own, removals, removals2, new
    <3> QED
      BY <3>1, <3>2, <2>5, <2>6, <2>7, <2>8, <1>6, ToldAfterRemoving
  <2>10. ToldOf(item)'
    BY <2>3, <2>9, <1>7 DEF ToldOf
  <2>11. ReadyFor(item) => ReadyFor(item)'
    <3>1. \A shown : Ready(Own(item), Removals(item), Line, stored[item], shown)
                         => Ready(Own(item)', Removals(item)', Line', stored'[item], shown)
      BY <2>3, <2>9, <1>7
    <3> QED
      BY <3>1, <1>2, <1>7, ReadyWhenNotified
  <2> QED
    BY <2>10, <2>11
<1>12. AllTold'
  <2> SUFFICES ASSUME NEW x \in Items \ crossed' PROVE ToldOf(x)'
    BY DEF AllTold
  <2>1. ToldOf(x) /\ x \in Items \ crossed
    BY <1>0, <1>6 DEF AllTold
  <2> QED
    BY <2>1, <1>10, <1>11
<1>13. AllReady'
  <2> SUFFICES ASSUME Following', NEW x \in Items \ crossed' PROVE ReadyFor(x)'
    BY DEF AllReady
  <2>1. ReadyFor(x) /\ ToldOf(x) /\ x \in Items \ crossed
    BY <1>0, <1>5, <1>6 DEF AllReady, AllTold
  <2> QED
    BY <2>1, <1>10, <1>11
<1> QED
  BY <1>5, <1>12, <1>13

\* removeThreads
LEMMA RemoveThreadStep ==
    ASSUME ClientInv, RemoveThread
    PROVE  (RowsSorted /\ ServiceKnown /\ ViewOK /\ AllTold /\ AllReady)'
<1> DEFINE lists == ThreadLists
<1>0. Typing /\ TypeOK /\ QueueOK /\ AllTold /\ AllReady
  BY DEF ClientInv, Typing
<1>1. DaemonOperation /\ Notify(lists)
  BY <1>0, OperationsNotify DEF RemoveThread
<1>2. /\ operations + 1 \in 1 .. MaxOperations /\ operations' = operations + 1 /\ operations' \in 0 .. MaxOperations
      /\ up /\ up' = up /\ running' = running /\ view' = view /\ rows' = rows /\ more' = more /\ update' = update
  BY <1>0, <1>1, OperationsNotify
<1>3. GoodLists(lists)
  BY <1>2, ThreadListsAre
<1>4. \A name \in SignalNames : lists[name] = IF name = "threadsRemoved" THEN <<Versioned(Thread, operations + 1)>>
                                              ELSE <<>>
  BY <1>2, ThreadListsAre
<1>5. RowsSorted' /\ ServiceKnown' /\ ViewOK' /\ (Following' <=> Following)
  BY <1>1, <1>2, <1>3, ClientWhenNotified
<1>6. \A x \in Items : stored'[x] = 0
  BY DEF RemoveThread
<1>7. "threadsRemoved" \in SignalNames /\ EventNames \subseteq SignalNames /\ "threadsRemoved" \notin EventNames
  BY DEF EventNames, SignalNames
<1>8. lists["threadsRemoved"] # <<>> /\ \A name \in EventNames : lists[name] = <<>>
  BY <1>4, <1>7
<1> HIDE DEF lists
<1>9. ASSUME NEW x \in Items \ crossed'
      PROVE  ToldOf(x)' /\ (ReadyFor(x) => ReadyFor(x)')
  <2>1. x \notin ItemsOf(pending["eventsAdded"]) /\ x \notin ItemsOf(pending["eventsModified"])
        /\ x \in Items \ crossed
    BY <1>9 DEF RemoveThread
  <2>2. 4 \notin Own(x) /\ 5 \notin Own(x)
    <3>1. 4 \in 4 .. 6 /\ 5 \in 4 .. 6
      OBVIOUS
    <3> QED
      BY <2>1, <3>1, <1>0, OwnAre, KindsAre
  <2>3. \A name \in EventNames : x \notin ItemsOf(lists[name])
    BY <1>8, OneNotice
  <2>4. ToldOf(x)
    BY <2>1, <1>0 DEF AllTold
  <2> QED
    BY <2>2, <2>3, <2>4, <1>0, <1>1, <1>2, <1>3, <1>6, <1>8, OthersWhenNotified
<1>10. crossed \subseteq crossed'
  BY DEF RemoveThread
<1>11. AllTold'
  BY <1>9 DEF AllTold
<1>12. AllReady'
  <2> SUFFICES ASSUME Following', NEW x \in Items \ crossed' PROVE ReadyFor(x)'
    BY DEF AllReady
  <2>1. ReadyFor(x)
    BY <1>0, <1>5, <1>10 DEF AllReady
  <2> QED
    BY <2>1, <1>9
<1> QED
  BY <1>5, <1>11, <1>12

\* The daemon stops or starts: whatever is in line is about another daemon.
LEMMA ServiceStep ==
    ASSUME ClientInv, NEW signal \in ServiceSignals,
           inbox' = Append(inbox, [signal |-> signal, items |-> <<>>]), pending' = NothingPending
    PROVE  /\ AllTold' /\ AllReady'
           /\ Services' # {} /\ \A i \in Services' : (\A j \in Services' : j <= i) => inbox'[i].signal = signal
<1>1. QueueOK
  BY DEF ClientInv, Typing
<1>2. /\ \A x : Own(x)' = {} /\ Removals(x)' = {}
      /\ Len(inbox') \in Services' /\ inbox'[Len(inbox')].signal = signal
      /\ \A i \in Services' : i <= Len(inbox')
  BY <1>1, LineAfterService
<1>3. AllTold'
  <2> SUFFICES ASSUME NEW x \in Items \ crossed' PROVE ToldOf(x)'
    BY DEF AllTold
  <2> QED
    BY <1>2, ToldNothing DEF ToldOf
<1>4. AllReady'
  BY <1>2 DEF AllReady, Following
<1>5. \A i \in Services' : i \in Int
  <2>1. inbox' \in Seq(Message)
    BY <1>1, LineAfterService DEF QueueOK
  <2> QED
    BY <2>1 DEF Services
<1>6. ASSUME NEW i \in Services', \A j \in Services' : j <= i PROVE i = Len(inbox')
  <2>1. Len(inbox') <= i /\ i <= Len(inbox') /\ i \in Int /\ Len(inbox') \in Int
    BY <1>2, <1>5, <1>6
  <2> QED
    BY <2>1
<1> QED
  BY <1>2, <1>3, <1>4, <1>6

\* A kill leaves no live message.
LEMMA CrashStep ==
    ASSUME ClientInv, Crash
    PROVE  (RowsSorted /\ ServiceKnown /\ ViewOK /\ AllTold /\ AllReady)'
<1>1. /\ inbox' = Append(inbox, [signal |-> "serviceUnregistered", items |-> <<>>]) /\ pending' = NothingPending
      /\ rows' = rows /\ view' = [view EXCEPT !.alive = FALSE] /\ more' = more /\ ~up' /\ "serviceUnregistered" \in ServiceSignals
      /\ running' = running /\ update' = update
  BY DEF Crash, LoseSignals, ServiceSignals
<1>2. view \in [connected : BOOLEAN, valid : BOOLEAN, alive : BOOLEAN, rest : Seq(Row), whole : BOOLEAN]
  BY DEF ClientInv, Typing, TypeOK
<1>3. view'.connected = view.connected /\ view'.valid = view.valid /\ view'.alive = FALSE
      /\ view'.rest = view.rest /\ view'.whole = view.whole
  BY <1>1, <1>2
<1>4. /\ AllTold' /\ AllReady'
      /\ Services' # {}
      /\ \A i \in Services' : (\A j \in Services' : j <= i) => inbox'[i].signal = "serviceUnregistered"
  BY <1>1, ServiceStep
<1>5. ServiceKnown'
  BY <1>1, <1>4 DEF ServiceKnown
<1>6. ViewOK'
  BY <1>1, <1>3 DEF ClientInv, ViewOK
<1>7. RowsSorted'
  BY <1>1, <1>3 DEF ClientInv, RowsSorted
<1> QED
  BY <1>4, <1>5, <1>6, <1>7

LEMMA RestartStep ==
    ASSUME ClientInv, Restart
    PROVE  (RowsSorted /\ ServiceKnown /\ ViewOK /\ AllTold /\ AllReady)'
<1>0. ~up /\ pending = NothingPending
  BY DEF ClientInv, ServiceKnown, Restart
<1>1. /\ inbox' = Append(inbox, [signal |-> "serviceRegistered", items |-> <<>>]) /\ pending' = NothingPending
      /\ rows' = rows /\ view' = view /\ more' = more /\ up' /\ "serviceRegistered" \in ServiceSignals
      /\ running' = running /\ update' = update
  BY <1>0 DEF Restart, RegisterService, ServiceSignals, client
<1>2. /\ AllTold' /\ AllReady'
      /\ Services' # {}
      /\ \A i \in Services' : (\A j \in Services' : j <= i) => inbox'[i].signal = "serviceRegistered"
  BY <1>1, ServiceStep
<1>3. ServiceKnown'
  BY <1>1, <1>2 DEF ServiceKnown
<1>4. ViewOK' /\ RowsSorted'
  BY <1>1 DEF ClientInv, ViewOK, RowsSorted
<1> QED
  BY <1>2, <1>3, <1>4

-----------------------------------------------------------------------------
(* The timer and the client's queries                                      *)

\* The line does not depend on what else changes.
LEMMA SameLine ==
    ASSUME pending' = pending, inbox' = inbox
    PROVE  /\ Services' = Services /\ Line' = Line
           /\ \A x : Own(x)' = Own(x) /\ Removals(x)' = Removals(x)
           /\ \A x : stored'[x] = stored[x] => (ToldOf(x)' <=> ToldOf(x))
<1>1. Kinds' = Kinds /\ Slots' = Slots /\ Services' = Services
  BY DEF Kinds, Slots, Services
<1>2. Line' = Line /\ Live' = Live
  BY <1>1 DEF Line, Live
<1>3. ASSUME NEW x PROVE Own(x)' = Own(x) /\ Removals(x)' = Removals(x)
  BY <1>2 DEF Own, Removals, About, Removes
<1>4. ASSUME NEW x, stored'[x] = stored[x] PROVE ToldOf(x)' <=> ToldOf(x)
  BY <1>2, <1>3, <1>4 DEF ToldOf, Told, WrittenLast, RemovedLast, AddedOnce, ModifiedIfThere
<1> QED
  BY <1>1, <1>2, <1>3, <1>4

\* What an event's rows are to show, spelled out for the next state.
LEMMA ReadyNext ==
    ASSUME NEW x
    PROVE  /\ view'.whole => (ReadyFor(x)' <=> Ready(Own(x)', Removals(x)', Line', stored'[x], VersionsIn(rows', x)))
           /\ ~view'.whole => (ReadyFor(x)' <=> (stored'[x] # 0 /\ Own(x)' = {} => x \in ItemsOf(rows' \o view'.rest)))
<1>1. view'.whole => (ReadyFor(x)' <=> Ready(Own(x)', Removals(x)', Line', stored'[x], VersionsIn(rows', x)))
  BY DEF ReadyFor, Ready, VersionsIn
<1>2. ~view'.whole => (ReadyFor(x)' <=> (stored'[x] # 0 /\ Own(x)' = {} => x \in ItemsOf(rows' \o view'.rest)))
  BY DEF ReadyFor, ItemsOf
<1> QED
  BY <1>1, <1>2

\* timerEvent: the lists become messages, in their order.
LEMMA SendStep ==
    ASSUME ClientInv, SendSignals
    PROVE  (RowsSorted /\ ServiceKnown /\ ViewOK /\ AllTold /\ AllReady)'
<1>1. /\ stored' = stored /\ up' = up /\ running' = running /\ view' = view /\ rows' = rows /\ more' = more
      /\ update' = update /\ crossed' = crossed
  BY DEF SendSignals, client
<1>2. RowsSorted' /\ ViewOK'
  BY <1>1 DEF ClientInv, RowsSorted, ViewOK
<1>3. QueueOK /\ AllTold /\ AllReady /\ ServiceKnown
  BY DEF ClientInv, Typing
<1>4. CASE Expire
  <2>1. pending' = pending /\ inbox' = inbox
    BY <1>4 DEF Expire
  <2>2. /\ Services' = Services /\ Line' = Line
        /\ \A x : Own(x)' = Own(x) /\ Removals(x)' = Removals(x)
        /\ \A x : stored'[x] = stored[x] => (ToldOf(x)' <=> ToldOf(x))
    BY <2>1, SameLine
  <2>3. AllTold'
    BY <1>1, <1>3, <2>2 DEF AllTold
  <2>4. AllReady'
    BY <1>1, <1>3, <2>2, ReadyNext DEF AllReady, Following, ReadyFor
  <2>5. ServiceKnown'
    BY <1>1, <1>3, <2>1, <2>2 DEF ServiceKnown
  <2> QED
    BY <1>2, <2>3, <2>4, <2>5
<1>5. CASE ProcessSignals
  <2>1. inbox' = inbox \o Emitted /\ pending' = NothingPending
    BY <1>5 DEF ProcessSignals
  <2>2. QueueOK' /\ Services' = Services
    BY <1>3, <2>1, LineAfterSending
  <2>3. ASSUME NEW x \in Items
        PROVE  /\ ToldOf(x) => ToldOf(x)'
               /\ \A shown : Ready(Own(x), Removals(x), Line, stored[x], shown)
                                 => Ready(Own(x)', Removals(x)', Line', stored'[x], shown)
               /\ Own(x)' = {} => Own(x) = {}
    <3> DEFINE own == Own(x)
               removals == Removals(x)
               own2 == Own(x)'
               removals2 == Removals(x)'
               new == Line'
    <3>1. PICK f : /\ \A s \in own \cup removals : s \in Int /\ f[s] \in Int
                   /\ \A s, t \in own \cup removals : s < t => f[s] < f[t]
                   /\ own2 = {f[s] : s \in own} /\ removals2 = {f[s] : s \in removals}
                   /\ \A s \in own \cup removals : new[f[s]] = Line[s]
      BY <1>3, <2>1, LineAfterSending
    <3>2. ToldOf(x) <=> Told(own, removals, Line, x, stored[x])
      BY DEF ToldOf
    <3>3. ToldOf(x)' <=> Told(own2, removals2, new, x, stored[x])
      BY <1>1 DEF ToldOf
    <3> HIDE DEF own, removals, own2, removals2, new
    <3>4. \A s \in own \cup removals : new[f[s]].signal = Line[s].signal
      BY <3>1
    <3>5. \A s \in own : /\ SaysLast(Line[s].items, x, stored[x]) => SaysLast(new[f[s]].items, x, stored[x])
                         /\ Once(Line[s].items, x) => Once(new[f[s]].items, x)
      BY <3>1
    <3>6. /\ Told(own, removals, Line, x, stored[x]) => Told(own2, removals2, new, x, stored[x])
          /\ \A shown : Ready(own, removals, Line, stored[x], shown) => Ready(own2, removals2, new, stored[x], shown)
      <4> DEFINE v == stored[x]
                 old == Line
      <4>1. /\ \A s \in own : /\ SaysLast(old[s].items, x, v) => SaysLast(new[f[s]].items, x, v)
                              /\ Once(old[s].items, x) => Once(new[f[s]].items, x)
            /\ \A s \in own \cup removals : new[f[s]].signal = old[s].signal
        BY <3>4, <3>5
      <4>2. own2 = {f[s] : s \in own} /\ removals2 = {f[s] : s \in removals}
        BY <3>1
      <4>3. \A s \in own \cup removals : s \in Int /\ f[s] \in Int
        BY <3>1
      <4>4. \A s, t \in own \cup removals : s < t => f[s] < f[t]
        BY <3>1
      <4> HIDE DEF v, old
      <4>5. /\ Told(own, removals, old, x, v) => Told(own2, removals2, new, x, v)
            /\ \A shown : Ready(own, removals, old, v, shown) => Ready(own2, removals2, new, v, shown)
        BY <4>1, <4>2, <4>3, <4>4, ToldMoved, ZenonT(20)
      <4> QED
        BY <4>5 DEF v, old
    <3>7. own2 = {} => own = {}
      BY <3>1
    <3> QED
      BY <3>2, <3>3, <3>6, <3>7, <1>1 DEF own, removals, own2, removals2, new
  <2>4. AllTold'
    BY <1>1, <1>3, <2>3 DEF AllTold
  <2>5. AllReady'
    <3> SUFFICES ASSUME Following', NEW x \in Items \ crossed' PROVE ReadyFor(x)'
      BY DEF AllReady
    <3>1. Following
      BY <1>1, <2>2 DEF Following
    <3>2. ReadyFor(x)
      BY <1>1, <1>3, <3>1 DEF AllReady
    <3>3. view'.whole = view.whole /\ stored'[x] = stored[x] /\ rows' = rows /\ view'.rest = view.rest
      BY <1>1
    <3>4. CASE view.whole
      <4>1. Ready(Own(x), Removals(x), Line, stored[x], VersionsIn(rows, x))
        BY <3>2, <3>4 DEF ReadyFor
      <4>2. Ready(Own(x)', Removals(x)', Line', stored'[x], VersionsIn(rows, x))
        BY <4>1, <2>3
      <4> QED
        BY <3>3, <3>4, <4>2, ReadyNext
    <3>5. CASE ~view.whole
      <4>1. stored[x] # 0 /\ Own(x) = {} => x \in ItemsOf(rows \o view.rest)
        BY <3>2, <3>5 DEF ReadyFor
      <4>2. Own(x)' = {} => Own(x) = {}
        BY <2>3
      <4> QED
        BY <3>3, <3>5, <4>1, <4>2, ReadyNext
    <3> QED
      BY <3>4, <3>5
  <2>6. ServiceKnown'
    <3>1. \A i \in Services : inbox'[i] = inbox[i]
      <4>1. inbox \in Seq(Message) /\ inbox' \in Seq(Message) /\ Services \subseteq DOMAIN inbox
        BY <1>3, <2>2 DEF QueueOK, Services
      <4>2. Emitted \in Seq(Message)
        BY <1>3, EmittedInOrder DEF Placed
      <4>3. \A i \in DOMAIN inbox : (inbox \o Emitted)[i] = inbox[i]
        BY <4>1, <4>2
      <4> QED
        BY <4>1, <4>3, <2>1
    <3>2. \A i \in Services : (\A j \in Services : j <= i) =>
              inbox'[i].signal = IF up' THEN "serviceRegistered" ELSE "serviceUnregistered"
      BY <1>1, <1>3, <3>1 DEF ServiceKnown
    <3> QED
      BY <1>1, <1>3, <2>1, <2>2, <3>2 DEF ServiceKnown
  <2> QED
    BY <1>2, <2>4, <2>5, <2>6
<1> QED
  BY <1>4, <1>5 DEF SendSignals

\* setFilter, setSort, setType: until the query is made the rows may be anything.
LEMMA ChangeQueryStep ==
    ASSUME ClientInv, ChangeQuery
    PROVE  (RowsSorted /\ ServiceKnown /\ ViewOK /\ AllTold /\ AllReady)'
<1>1. /\ stored' = stored /\ up' = up /\ running' = running /\ view' = view /\ rows' = rows /\ more' = more
      /\ update' = TRUE /\ crossed' = crossed /\ pending' = pending /\ inbox' = inbox
  BY DEF ChangeQuery
<1>2. RowsSorted' /\ ViewOK'
  BY <1>1 DEF ClientInv, RowsSorted, ViewOK
<1>3. Services' = Services /\ \A x : stored'[x] = stored[x] => (ToldOf(x)' <=> ToldOf(x))
  BY <1>1, SameLine
<1>4. ServiceKnown'
  BY <1>1, <1>3 DEF ClientInv, ServiceKnown
<1>5. AllTold'
  BY <1>1, <1>3 DEF ClientInv, AllTold
<1>6. AllReady'
  BY <1>1 DEF AllReady, Following
<1> QED
  BY <1>2, <1>4, <1>5, <1>6

\* Nothing happens.
LEMMA IdleStep ==
    ASSUME ClientInv, UNCHANGED vars
    PROVE  (RowsSorted /\ ServiceKnown /\ ViewOK /\ AllTold /\ AllReady)'
<1>1. /\ stored' = stored /\ up' = up /\ running' = running /\ view' = view /\ rows' = rows /\ more' = more
      /\ update' = update /\ crossed' = crossed /\ pending' = pending /\ inbox' = inbox
  BY DEF vars
<1>2. RowsSorted' /\ ViewOK'
  BY <1>1 DEF ClientInv, RowsSorted, ViewOK
<1>3. /\ Services' = Services /\ Line' = Line
      /\ \A x : Own(x)' = Own(x) /\ Removals(x)' = Removals(x)
      /\ \A x : stored'[x] = stored[x] => (ToldOf(x)' <=> ToldOf(x))
  BY <1>1, SameLine
<1>4. ServiceKnown'
  BY <1>1, <1>3 DEF ClientInv, ServiceKnown
<1>5. AllTold'
  BY <1>1, <1>3 DEF ClientInv, AllTold
<1>6. AllReady'
  BY <1>1, <1>3, ReadyNext DEF ClientInv, AllReady, Following, ReadyFor
<1> QED
  BY <1>2, <1>4, <1>5, <1>6

\* updateQuery: the snapshot shows what is stored.
LEMMA UpdateStep ==
    ASSUME ClientInv, UpdateQuery
    PROVE  (RowsSorted /\ ServiceKnown /\ ViewOK /\ AllTold /\ AllReady)'
<1>0. QueueOK /\ AllTold /\ ServiceKnown /\ stored \in [Items -> 0 .. MaxOperations]
  BY DEF ClientInv, Typing, TypeOK
<1>1. /\ stored' = stored /\ up' = up /\ running' = running /\ update' = FALSE /\ pending' = pending
      /\ inbox' = inbox
      /\ crossed' = IF pending = NothingPending /\ inbox = <<>> THEN {} ELSE crossed
  BY DEF UpdateQuery
<1>2. /\ Services' = Services /\ Line' = Line
      /\ \A x : Own(x)' = Own(x) /\ Removals(x)' = Removals(x)
      /\ \A x : stored'[x] = stored[x] => (ToldOf(x)' <=> ToldOf(x))
  BY <1>1, SameLine
<1>3. AllTold'
  <2> SUFFICES ASSUME NEW x \in Items \ crossed' PROVE ToldOf(x)'
    BY DEF AllTold
  <2>1. CASE pending = NothingPending /\ inbox = <<>>
    <3>1. Own(x)' = {} /\ Removals(x)' = {}
      BY <1>0, <1>2, <2>1, NothingIsInLine
    <3> QED
      BY <3>1, ToldNothing DEF ToldOf
  <2>2. CASE ~(pending = NothingPending /\ inbox = <<>>)
    BY <2>2, <1>0, <1>1, <1>2 DEF AllTold
  <2> QED
    BY <2>1, <2>2
<1>4. ASSUME NEW snapshot \in Snapshots, rows' = FirstPage(snapshot),
             view' = [connected |-> TRUE, valid |-> TRUE, alive |-> TRUE,
                      rest |-> OtherPages(snapshot), whole |-> OtherPages(snapshot) = <<>>],
             more' = (snapshot # <<>>)
      PROVE  RowsSorted' /\ ServiceKnown' /\ ViewOK' /\ AllReady'
  <2>1. /\ snapshot \in Seq(Row) /\ Ordered(snapshot)
        /\ \A x \in Items : VersionsIn(snapshot, x) = IF stored[x] = 0 THEN {} ELSE {stored[x]}
    BY <1>0, SnapshotShows
  <2>2. /\ ItemsOf(snapshot) = ItemsOf(FirstPage(snapshot) \o OtherPages(snapshot))
        /\ OtherPages(snapshot) = <<>> => FirstPage(snapshot) = snapshot
        /\ snapshot = <<>> => OtherPages(snapshot) = <<>>
    BY <2>1, PagesOf
  <2>3. /\ view'.connected = TRUE /\ view'.valid = TRUE /\ view'.alive = TRUE /\ view'.rest = OtherPages(snapshot)
        /\ view'.whole = (OtherPages(snapshot) = <<>>)
    BY <1>4
  <2>4. view'.whole => rows' = snapshot
    BY <1>4, <2>2, <2>3
  <2>5. RowsSorted'
    BY <2>1, <2>4 DEF RowsSorted, Ordered
  <2>6. ServiceKnown'
    BY <1>0, <1>1, <1>2, <2>3 DEF ServiceKnown
  <2>7. ViewOK'
    BY <1>4, <2>2, <2>3 DEF ViewOK
  <2>8. ASSUME NEW x \in Items PROVE ReadyFor(x)'
    <3>1. CASE view'.whole
      <4>1. VersionsIn(rows', x) = IF stored[x] = 0 THEN {} ELSE {stored[x]}
        BY <2>1, <2>4, <3>1
      <4>2. Ready(Own(x), Removals(x), Line, stored[x], IF stored[x] = 0 THEN {} ELSE {stored[x]})
        BY DEF Ready
      <4> QED
        BY <1>1, <1>2, <3>1, <4>1, <4>2, ReadyNext
    <3>2. CASE ~view'.whole
      <4>1. stored[x] # 0 => x \in ItemsOf(snapshot)
        <5>1. stored[x] # 0 => stored[x] \in VersionsIn(snapshot, x)
          BY <2>1
        <5> QED
          BY <5>1, VersionsMean, InListMeans
      <4>2. stored[x] # 0 => x \in ItemsOf(rows' \o view'.rest)
        BY <4>1, <1>4, <2>2, <2>3
      <4> QED
        BY <1>1, <3>2, <4>2, ReadyNext
    <3> QED
      BY <3>1, <3>2
  <2> QED
    BY <2>5, <2>6, <2>7, <2>8 DEF AllReady
<1>5. ASSUME ~(running /\ up), rows' = <<>>, view' = NoView
      PROVE  RowsSorted' /\ ServiceKnown' /\ ViewOK' /\ AllReady'
  <2>1. /\ view'.connected = FALSE /\ view'.rest = <<>>
    BY <1>5 DEF NoView
  <2>2. RowsSorted'
    BY <1>5 DEF RowsSorted
  <2>3. ServiceKnown'
    <3>1. ~up \/ Services # {}
      BY <1>0, <1>5 DEF ServiceKnown
    <3> QED
      BY <3>1, <1>0, <1>1, <1>2, <2>1 DEF ServiceKnown
  <2>4. ViewOK' /\ AllReady'
    BY <2>1 DEF ViewOK, AllReady, Following
  <2> QED
    BY <2>2, <2>3, <2>4
<1> QED
  BY <1>3, <1>4, <1>5 DEF UpdateQuery

\* fetchMore: a page moves from the rest to the rows.
LEMMA FetchStep ==
    ASSUME ClientInv, FetchMore
    PROVE  (RowsSorted /\ ServiceKnown /\ ViewOK /\ AllTold /\ AllReady)'
<1>0. /\ AllTold /\ AllReady /\ ServiceKnown /\ ViewOK /\ RowsSorted /\ view.connected
      /\ view \in [connected : BOOLEAN, valid : BOOLEAN, alive : BOOLEAN, rest : Seq(Row), whole : BOOLEAN]
      /\ rows \in Seq(Row) /\ update \in BOOLEAN
  BY DEF ClientInv, Typing, TypeOK, FetchMore
<1>1. stored' = stored /\ up' = up /\ running' = running /\ pending' = pending /\ inbox' = inbox /\ crossed' = crossed
  BY DEF FetchMore
<1>2. /\ Services' = Services /\ Line' = Line
      /\ \A x : Own(x)' = Own(x) /\ Removals(x)' = Removals(x)
      /\ \A x : stored'[x] = stored[x] => (ToldOf(x)' <=> ToldOf(x))
  BY <1>1, SameLine
<1>3. AllTold'
  BY <1>0, <1>1, <1>2 DEF AllTold
<1>4. CASE view.valid /\ view.alive
  <2> DEFINE page == FirstPage(view.rest)
             left == OtherPages(view.rest)
  <2>1. rows' = rows \o page /\ view' = [view EXCEPT !.rest = left]
        /\ more' = (view.rest # <<>>) /\ update' = update
    BY <1>4 DEF FetchMore
  <2>2. /\ page \in Seq(Row) /\ left \in Seq(Row)
        /\ ItemsOf(view.rest) = ItemsOf(page \o left)
        /\ view.rest = <<>> => page = <<>> /\ left = <<>>
    BY <1>0, PagesOf
  <2>3. view'.connected = view.connected /\ view'.valid = view.valid /\ view'.alive = view.alive
        /\ view'.rest = left /\ view'.whole = view.whole
    BY <1>0, <2>1
  <2>4. view.whole => rows' = rows
    <3>1. rows \o <<>> = rows
      BY <1>0
    <3> QED
      BY <3>1, <1>0, <2>1, <2>2 DEF ViewOK
  <2>5. RowsSorted'
    BY <1>0, <2>3, <2>4 DEF RowsSorted
  <2>6. ServiceKnown'
    BY <1>0, <1>1, <1>2, <2>1, <2>3 DEF ServiceKnown
  <2>7. ViewOK'
    BY <1>0, <2>1, <2>2, <2>3 DEF ViewOK
  <2>8. ItemsOf(rows' \o view'.rest) = ItemsOf(rows \o view.rest)
    <3>1. rows \in Seq(Notice) /\ page \in Seq(Notice) /\ left \in Seq(Notice) /\ view.rest \in Seq(Notice)
      BY <1>0, <2>2, NoticesAre
    <3> HIDE DEF page, left
    <3>2. rows \o page \in Seq(Notice) /\ ItemsOf(rows \o page) = ItemsOf(rows) \cup ItemsOf(page)
      BY <3>1, ListsJoined
    <3>3. ItemsOf((rows \o page) \o left) = ItemsOf(rows \o page) \cup ItemsOf(left)
      BY <3>1, <3>2, ListsJoined
    <3>4. ItemsOf(page \o left) = ItemsOf(page) \cup ItemsOf(left)
      BY <3>1, ListsJoined
    <3>5. ItemsOf(rows \o view.rest) = ItemsOf(rows) \cup ItemsOf(view.rest)
      BY <3>1, <1>0, ListsJoined
    <3>6. ItemsOf((rows \o page) \o left) = ItemsOf(rows \o view.rest)
      BY <3>2, <3>3, <3>4, <3>5, <2>2
    <3> QED
      BY <3>6, <2>1, <2>3
  <2>9. AllReady'
    <3> SUFFICES ASSUME Following', NEW x \in Items \ crossed' PROVE ReadyFor(x)'
      BY DEF AllReady
    <3>1. ReadyFor(x)
      BY <1>0, <1>1, <1>2, <2>1, <2>3 DEF AllReady, Following
    <3>2. CASE view.whole
      BY <3>1, <3>2, <1>1, <1>2, <2>3, <2>4, ReadyNext DEF ReadyFor
    <3>3. CASE ~view.whole
      BY <3>1, <3>3, <1>1, <1>2, <2>3, <2>8, ReadyNext DEF ReadyFor
    <3> QED
      BY <3>2, <3>3
  <2> QED
    BY <1>3, <2>5, <2>6, <2>7, <2>9
<1>5. CASE ~(view.valid /\ view.alive)
  <2>1. rows' = rows /\ view' = [view EXCEPT !.valid = FALSE] /\ more' = FALSE
        /\ update' = (update \/ view.valid)
    BY <1>5 DEF FetchMore
  <2>2. view'.connected = view.connected /\ view'.valid = FALSE /\ view'.alive = view.alive
        /\ view'.rest = view.rest /\ view'.whole = view.whole
    BY <1>0, <2>1
  <2>3. RowsSorted'
    BY <1>0, <2>1, <2>2 DEF RowsSorted
  <2>4. ServiceKnown'
    BY <1>0, <1>1, <1>2, <2>1, <2>2 DEF ServiceKnown
  <2>5. ViewOK'
    BY <1>0, <1>5, <2>1, <2>2 DEF ViewOK
  <2>6. AllReady'
    <3> SUFFICES ASSUME Following', NEW x \in Items \ crossed' PROVE ReadyFor(x)'
      BY DEF AllReady
    <3>1. Following
      BY <1>2, <2>1, <2>2 DEF Following
    <3>2. ReadyFor(x)
      BY <1>0, <1>1, <3>1 DEF AllReady
    <3> QED
      BY <3>2, <1>1, <1>2, <2>1, <2>2, ReadyNext DEF ReadyFor
  <2> QED
    BY <1>3, <2>3, <2>4, <2>5, <2>6
<1> QED
  BY <1>4, <1>5

-----------------------------------------------------------------------------
(* The messages the client receives                                        *)

\* Any message: what it says is no longer in line.
LEMMA ReceiveLeaves ==
    ASSUME ClientInv, NEW signal, Receive(signal)
    PROVE  /\ AllTold' /\ ViewOK'
           /\ Head(inbox) \in Message /\ Head(inbox).signal = signal
           /\ signal \notin ServiceSignals => (Services' = {} <=> Services = {})
           /\ signal \in ServiceSignals =>
                  (Services' = {} => signal = IF up THEN "serviceRegistered" ELSE "serviceUnregistered")
           /\ \A i \in Services' : (\A j \in Services' : j <= i) =>
                  inbox'[i].signal = IF up' THEN "serviceRegistered" ELSE "serviceUnregistered"
<1> DEFINE n == Len(inbox)
           l == 1 - n
<1>0. /\ QueueOK /\ AllTold /\ ServiceKnown /\ ViewOK
      /\ pending' = pending /\ inbox # <<>> /\ inbox' = Tail(inbox) /\ Head(inbox).signal = signal
      /\ stored' = stored /\ up' = up /\ view' = view /\ more' = more /\ crossed' = crossed
  BY DEF ClientInv, Typing, Receive
<1>1. /\ QueueOK'
      /\ l \in Slots /\ Head(inbox) \in Message
      /\ \A s \in Slots' : s \in Slots /\ Line'[s] = Line[s]
      /\ \A x : Own(x)' = Own(x) \ {l} /\ Removals(x)' = Removals(x) \ {l}
      /\ Head(inbox).signal \notin ServiceSignals => (Services' = {} <=> Services = {})
      /\ Services' = {i - 1 : i \in Services \ {1}}
  BY <1>0, LineAfterReceiving
<1>2. AllTold'
  <2> SUFFICES ASSUME NEW x \in Items \ crossed' PROVE ToldOf(x)'
    BY DEF AllTold
  <2> DEFINE own == Own(x)
             removals == Removals(x)
             own2 == own \ {l}
             removals2 == removals \ {l}
             new == Line'
  <2>1. Told(own, removals, Line, x, stored[x])
    BY <1>0 DEF AllTold, ToldOf
  <2>2. \A s \in own \cup removals : s \in Int /\ l <= s
    BY <1>0, OwnAre
  <2>3. l \in Int
    BY <1>0, <1>1, LineIs
  <2>4. ToldOf(x)' <=> Told(own2, removals2, new, x, stored[x])
    BY <1>0, <1>1 DEF ToldOf
  <2>5. \A s \in own2 \cup removals2 : new[s] = Line[s]
    <3>1. Own(x)' \subseteq Slots' /\ Removals(x)' \subseteq Slots'
      BY DEF Own, Removals, Live
    <3> QED
      BY <3>1, <1>1
  <2> HIDE DEF own, removals, l, new
  <2>6. Told(own2, removals2, Line, x, stored[x])
    BY <2>1, <2>2, <2>3, ToldOfTheRest
  <2> HIDE DEF own2, removals2
  <2>7. \A s \in own2 \cup removals2 : s \in Int
    BY <2>2 DEF own2, removals2
  <2>8. \A s \in own2 \cup removals2 : new[s].signal = Line[s].signal
    BY <2>5
  <2>9. \A s \in own2 : /\ SaysLast(Line[s].items, x, stored[x]) => SaysLast(new[s].items, x, stored[x])
                        /\ Once(Line[s].items, x) => Once(new[s].items, x)
    BY <2>5
  <2>10. Told(own2, removals2, new, x, stored[x])
    BY <2>6, <2>7, <2>8, <2>9, ToldSame
  <2> QED
    BY <2>4, <2>10
<1>3. ViewOK'
  BY <1>0 DEF ViewOK
<1>4. /\ n \in Nat /\ n >= 1 /\ DOMAIN inbox = 1 .. n /\ inbox[1] = Head(inbox)
      /\ \A i \in 1 .. (n - 1) : inbox'[i] = inbox[i + 1]
  <2>1. inbox \in Seq(Message)
    BY <1>0 DEF QueueOK
  <2> QED
    BY <2>1, <1>0
<1>5. Services \subseteq 1 .. n
  BY <1>4 DEF Services
<1>6. ASSUME NEW i \in Services', \A j \in Services' : j <= i
      PROVE  inbox'[i].signal = IF up' THEN "serviceRegistered" ELSE "serviceUnregistered"
  <2>1. PICK k \in Services \ {1} : i = k - 1
    BY <1>1
  <2>2. k \in 1 .. n /\ k >= 2
    BY <1>5, <2>1
  <2>3. ASSUME NEW m \in Services PROVE m <= k
    <3>1. CASE m = 1
      BY <2>2, <3>1
    <3>2. CASE m # 1
      <4>1. m - 1 \in Services'
        BY <3>2, <1>1
      <4>2. m - 1 <= k - 1 /\ m \in 1 .. n
        BY <4>1, <1>5, <1>6, <2>1
      <4> QED
        BY <4>2, <2>2
    <3> QED
      BY <3>1, <3>2
  <2>4. inbox[k].signal = IF up THEN "serviceRegistered" ELSE "serviceUnregistered"
    BY <1>0, <2>1, <2>3 DEF ServiceKnown
  <2>5. i \in 1 .. (n - 1) /\ i + 1 = k
    BY <2>1, <2>2, <1>4
  <2>6. inbox'[i] = inbox[k]
    BY <1>4, <2>5
  <2> QED
    BY <2>4, <2>6, <1>0
<1>7. ASSUME signal \in ServiceSignals, Services' = {}
      PROVE  signal = IF up THEN "serviceRegistered" ELSE "serviceUnregistered"
  <2>1. 1 \in Services
    BY <1>0, <1>4, <1>7 DEF Services
  <2>2. \A m \in Services : m = 1
    BY <1>1, <1>7
  <2>3. \A m \in Services : m <= 1
    BY <2>2
  <2> QED
    BY <2>1, <2>3, <1>0, <1>4 DEF ServiceKnown
<1> QED
  BY <1>0, <1>1, <1>2, <1>3, <1>6, <1>7

\* serviceRunningChanged: a new query is due.
LEMMA ServiceRunningStep ==
    ASSUME ClientInv, OnServiceRunningChanged
    PROVE  (RowsSorted /\ ServiceKnown /\ ViewOK /\ AllTold /\ AllReady)'
<1>1. PICK signal \in ServiceSignals : Receive(signal) /\ running' = (signal = "serviceRegistered")
  BY DEF OnServiceRunningChanged, ServiceSignals
<1>2. rows' = rows /\ update' = TRUE /\ up' = up /\ pending' = pending /\ view' = view
  BY <1>1 DEF OnServiceRunningChanged, Receive
<1>3. /\ AllTold' /\ ViewOK'
      /\ (Services' = {} => signal = IF up THEN "serviceRegistered" ELSE "serviceUnregistered")
      /\ \A i \in Services' : (\A j \in Services' : j <= i) =>
             inbox'[i].signal = IF up' THEN "serviceRegistered" ELSE "serviceUnregistered"
  BY <1>1, ReceiveLeaves
<1>4. up \in BOOLEAN /\ ServiceKnown /\ RowsSorted
  BY DEF ClientInv, Typing, TypeOK
<1>5. Services' = {} => (running' <=> up)
  BY <1>1, <1>3, <1>4
<1>6. ServiceKnown'
  <2>1. up' # running' => Services' # {}
    BY <1>1, <1>2, <1>4, <1>5
  <2> QED
    BY <2>1, <1>2, <1>3, <1>4 DEF ServiceKnown
<1>7. RowsSorted' /\ AllReady'
  BY <1>2, <1>4 DEF RowsSorted, AllReady, Following
<1> QED
  BY <1>3, <1>6, <1>7

\* The other messages leave the client's knowledge of the service alone.
LEMMA NotificationKnown ==
    ASSUME ClientInv, NEW signal, Receive(signal), signal \notin ServiceSignals,
           running' = running, update => update'
    PROVE  /\ ServiceKnown' /\ (Following' => Following)
           /\ ~update' => ~update
<1>1. up' = up /\ pending' = pending /\ view' = view
  BY DEF Receive
<1>2. ServiceKnown /\ (Services' = {} <=> Services = {})
  BY ReceiveLeaves DEF ClientInv
<1>3. \A i \in Services' : (\A j \in Services' : j <= i) =>
             inbox'[i].signal = IF up' THEN "serviceRegistered" ELSE "serviceUnregistered"
  BY ReceiveLeaves
<1> QED
  BY <1>1, <1>2, <1>3 DEF ServiceKnown, Following

\* What remains to be shown for an event, when a model that follows the signals
\* has received one.
LEMMA ReceivedIsReady ==
    ASSUME ClientInv, NEW signal, Receive(signal), Following, NEW x \in Items \ crossed
    PROVE  LET l == 1 - Len(inbox)
           IN  /\ l \in Own(x) <=> signal \in EventNames /\ x \in ItemsOf(Head(inbox).items)
               /\ l \in Removals(x) <=> Removes(Head(inbox), x)
               /\ Line[l] = Head(inbox) /\ Head(inbox).signal = signal
               /\ \A s \in Own(x) \cup Removals(x) : s \in Int /\ l <= s
               /\ Told(Own(x), Removals(x), Line, x, stored[x]) /\ ReadyFor(x)
               /\ view.whole => (Ready(Own(x) \ {l}, Removals(x) \ {l}, Line, stored[x], VersionsIn(rows', x))
                                     => ReadyFor(x)')
               /\ ~view.whole => ((stored[x] # 0 /\ Own(x) \ {l} = {} => x \in ItemsOf(rows' \o view.rest))
                                     => ReadyFor(x)')
<1> DEFINE n == Len(inbox)
           l == 1 - n
           own == Own(x)
           removals == Removals(x)
           own2 == own \ {l}
           removals2 == removals \ {l}
           new == Line'
<1>0. /\ QueueOK /\ AllTold /\ AllReady
      /\ pending' = pending /\ inbox # <<>> /\ inbox' = Tail(inbox) /\ Head(inbox).signal = signal
      /\ stored' = stored /\ view' = view /\ Services = {}
  BY DEF ClientInv, Typing, Receive, Following
<1>1. /\ l \in Slots /\ Line[l] = Head(inbox)
      /\ \A s \in Slots' : s \in Slots /\ Line'[s] = Line[s]
      /\ Own(x)' = own2 /\ Removals(x)' = removals2
  BY <1>0, LineAfterReceiving
<1>2. l \in Live
  BY <1>0, <1>1, LineIs
<1>3. (l \in own <=> signal \in EventNames /\ x \in ItemsOf(Head(inbox).items))
      /\ (l \in removals <=> Removes(Head(inbox), x))
  BY <1>0, <1>1, <1>2 DEF Own, Removals, About
<1>4. \A s \in own \cup removals : s \in Int /\ l <= s
  BY <1>0, OwnAre
<1>5. Told(own, removals, Line, x, stored[x]) /\ ReadyFor(x)
  BY <1>0 DEF AllTold, AllReady, ToldOf
<1>6. \A s \in own2 \cup removals2 : new[s] = Line[s]
  <2>1. Own(x)' \subseteq Slots' /\ Removals(x)' \subseteq Slots'
    BY DEF Own, Removals, Live
  <2> QED
    BY <2>1, <1>1
<1>7. ASSUME NEW shown, Ready(own2, removals2, Line, stored[x], shown)
      PROVE  Ready(own2, removals2, new, stored[x], shown)
  <2>1. \A s \in own2 \cup removals2 : s \in Int
    BY <1>4
  <2> HIDE DEF own2, removals2, new
  <2>2. \A s \in own2 \cup removals2 : new[s].signal = Line[s].signal
    BY <1>6
  <2>3. \A s \in own2 : /\ SaysLast(Line[s].items, x, stored[x]) => SaysLast(new[s].items, x, stored[x])
                        /\ Once(Line[s].items, x) => Once(new[s].items, x)
    BY <1>6
  <2> QED
    BY <1>7, <2>1, <2>2, <2>3, ToldSame
<1>8. view.whole => (Ready(own2, removals2, Line, stored[x], VersionsIn(rows', x)) => ReadyFor(x)')
  BY <1>0, <1>1, <1>7, ReadyNext
<1>9. ~view.whole => ((stored[x] # 0 /\ own2 = {} => x \in ItemsOf(rows' \o view.rest)) => ReadyFor(x)')
  BY <1>0, <1>1, ReadyNext
<1> QED
  BY <1>0, <1>1, <1>3, <1>4, <1>5, <1>8, <1>9

\* The rows after a signal, if the model is connected.
LEMMA ReceivedEvents ==
    ASSUME ClientInv, NEW signal \in EventNames, NEW changed, ReceiveEvents(signal, changed),
           changed \in Seq(Row), Ordered(rows) => Ordered(changed),
           \A x \in Items \ crossed : Following /\ rows' = changed => ReadyFor(x)'
    PROVE  (RowsSorted /\ ServiceKnown /\ ViewOK /\ AllTold /\ AllReady)'
<1>1. Receive(signal) /\ rows' = (IF view.connected THEN changed ELSE rows) /\ running' = running /\ update' = update
      /\ view' = view /\ crossed' = crossed
  BY DEF ReceiveEvents, Receive
<1>2. signal \notin ServiceSignals
  BY DEF EventNames, ServiceSignals
<1>3. AllTold' /\ ViewOK'
  BY <1>1, ReceiveLeaves
<1>4. ServiceKnown' /\ (Following' => Following)
  BY <1>1, <1>2, NotificationKnown
<1>5. RowsSorted'
  <2>1. view.whole => Ordered(rows)
    BY DEF ClientInv, RowsSorted, Ordered
  <2>2. view'.whole => Ordered(rows')
    BY <1>1, <2>1
  <2> QED
    BY <2>2 DEF RowsSorted, Ordered
<1>6. AllReady'
  BY <1>1, <1>4 DEF AllReady, Following
<1> QED
  BY <1>3, <1>4, <1>5, <1>6

\* A list joined with what is not loaded yet.
LEMMA JoinedWithRest ==
    ASSUME ClientInv, NEW list \in Seq(Row)
    PROVE  ItemsOf(list \o view.rest) = ItemsOf(list) \cup ItemsOf(view.rest)
<1>1. view.rest \in Seq(Row)
  BY DEF ClientInv, Typing, TypeOK
<1>2. list \in Seq(Notice) /\ view.rest \in Seq(Notice)
  BY <1>1, NoticesAre
<1> QED
  BY <1>2, ListsJoined

LEMMA ReceivedItems ==
    ASSUME ClientInv, NEW signal \in EventNames, Receive(signal)
    PROVE  Head(inbox).items \in Seq(Row)
<1>1. QueueOK /\ inbox # <<>> /\ Head(inbox).signal = signal
  BY DEF ClientInv, Typing, Receive
<1> QED
  BY <1>1, QueueTyped

LEMMA ShownMeans ==
    ASSUME NEW list, NEW x
    PROVE  VersionsIn(list, x) = {} <=> x \notin ItemsOf(list)
<1>1. \A v : v \in VersionsIn(list, x) <=> \E i \in DOMAIN list : list[i].item = x /\ list[i].version = v
  BY VersionsMean
<1>2. x \in ItemsOf(list) <=> \E i \in DOMAIN list : list[i].item = x
  BY InListMeans
<1> QED
  BY <1>1, <1>2

\* The head of the line is an eventsAdded that the model receives.
LEMMA AddedStep ==
    ASSUME ClientInv, OnEventsAdded
    PROVE  (RowsSorted /\ ServiceKnown /\ ViewOK /\ AllTold /\ AllReady)'
<1> DEFINE items == Head(inbox).items
           changed == AddRows(rows, items)
           signal == "eventsAdded"
           l == 1 - Len(inbox)
<1>1. signal \in EventNames /\ ReceiveEvents(signal, changed) /\ Receive(signal)
  BY DEF OnEventsAdded, ReceiveEvents, EventNames
<1>2. items \in Seq(Row) /\ rows \in Seq(Row)
  BY <1>1, ReceivedItems DEF ClientInv, Typing, TypeOK
<1> HIDE DEF items
<1>3. /\ changed \in Seq(Row)
      /\ ItemsOf(changed) = ItemsOf(rows) \cup ItemsOf(items)
      /\ \A x \in Items : x \in ItemsOf(rows) \/ x \notin ItemsOf(items) =>
             VersionsIn(changed, x) = VersionsIn(rows, x)
      /\ \A x \in Items : x \notin ItemsOf(rows) /\ x \in ItemsOf(items) =>
             \E i \in DOMAIN items : items[i].item = x /\ VersionsIn(changed, x) = {items[i].version}
      /\ Ordered(rows) => Ordered(changed)
  BY <1>2, AddRowsEffect
<1> HIDE DEF changed
<1>4. ASSUME NEW x \in Items \ crossed, Following, rows' = changed PROVE ReadyFor(x)'
  <2> DEFINE own == Own(x)
             removals == Removals(x)
             shown == VersionsIn(rows, x)
             new == VersionsIn(changed, x)
             v == stored[x]
  <2>1. /\ l \in own <=> signal \in EventNames /\ x \in ItemsOf(items)
        /\ l \in removals <=> Removes(Head(inbox), x)
        /\ Line[l] = Head(inbox) /\ Head(inbox).signal = signal
        /\ \A s \in own \cup removals : s \in Int /\ l <= s
        /\ Told(own, removals, Line, x, v) /\ ReadyFor(x)
        /\ view.whole => (Ready(own \ {l}, removals \ {l}, Line, v, new) => ReadyFor(x)')
        /\ ~view.whole => ((v # 0 /\ own \ {l} = {} => x \in ItemsOf(changed \o view.rest)) => ReadyFor(x)')
    BY <1>1, <1>4, ReceivedIsReady DEF items
  <2>2. l \notin removals
    BY <2>1 DEF Removes
  <2>3. l \in own <=> x \in ItemsOf(items)
    BY <1>1, <2>1
  <2>4. CASE view.whole
    <3>1. Ready(own, removals, Line, v, shown)
      BY <2>1, <2>4 DEF ReadyFor
    <3>2. CASE x \in ItemsOf(items)
      <4>1. shown # {} => new = shown
        BY <1>3, ShownMeans
      <4>2. shown = {} => \E i \in DOMAIN Line[l].items : /\ Line[l].items[i].item = x
                                                         /\ new = {Line[l].items[i].version}
        BY <1>3, <2>1, <3>2, ShownMeans DEF items
      <4>3. l \in own /\ Line[l].signal = "eventsAdded"
        BY <2>1, <2>3, <3>2
      <4> HIDE DEF own, removals, shown, new, v, l
      <4>4. Ready(own \ {l}, removals \ {l}, Line, v, new)
        BY <2>1, <2>2, <3>1, <4>1, <4>2, <4>3, ReadyAfterAdding
      <4> QED
        BY <2>1, <2>4, <4>4
    <3>3. CASE x \notin ItemsOf(items)
      <4>1. new = shown
        BY <1>3, <3>3
      <4> HIDE DEF own, removals, shown, new, v, l
      <4>2. Ready(own \ {l}, removals \ {l}, Line, v, new)
        BY <2>2, <2>3, <3>1, <3>3, <4>1, ReadyForOthers
      <4> QED
        BY <2>1, <2>4, <4>2
    <3> QED
      BY <3>2, <3>3
  <2>5. CASE ~view.whole
    <3>1. v # 0 /\ own = {} => x \in ItemsOf(rows \o view.rest)
      BY <2>1, <2>5 DEF ReadyFor
    <3>2. ItemsOf(rows \o view.rest) = ItemsOf(rows) \cup ItemsOf(view.rest)
          /\ ItemsOf(changed \o view.rest) = ItemsOf(changed) \cup ItemsOf(view.rest)
      BY <1>2, <1>3, JoinedWithRest
    <3> HIDE DEF own, removals, v, l
    <3>3. v # 0 /\ own \ {l} = {} => x \in ItemsOf(changed \o view.rest)
      BY <1>3, <2>3, <3>1, <3>2
    <3> QED
      BY <2>1, <2>5, <3>3
  <2> QED
    BY <2>4, <2>5
<1> HIDE DEF signal
<1> QED
  BY <1>1, <1>3, <1>4, ReceivedEvents

\* The head of the line is an eventsModified.
LEMMA ModifiedStep ==
    ASSUME ClientInv, OnEventsModified
    PROVE  (RowsSorted /\ ServiceKnown /\ ViewOK /\ AllTold /\ AllReady)'
<1> DEFINE items == Head(inbox).items
           changed == ModifyRows(rows, items)
           signal == "eventsModified"
           l == 1 - Len(inbox)
<1>1. signal \in EventNames /\ ReceiveEvents(signal, changed) /\ Receive(signal)
  BY DEF OnEventsModified, ReceiveEvents, EventNames
<1>2. items \in Seq(Row) /\ rows \in Seq(Row)
  BY <1>1, ReceivedItems DEF ClientInv, Typing, TypeOK
<1> HIDE DEF items
<1>3. /\ changed \in Seq(Row)
      /\ ItemsOf(changed) = ItemsOf(rows) \cup ItemsOf(items)
      /\ \A x \in Items \ ItemsOf(items) : VersionsIn(changed, x) = VersionsIn(rows, x)
      /\ Ordered(rows) =>
           /\ Ordered(changed)
           /\ \A x \in ItemsOf(rows) : \A w : SaysLast(items, x, w) => VersionsIn(changed, x) = {w}
  BY <1>2, ModifyRowsEffect
<1> HIDE DEF changed
<1>4. ASSUME NEW x \in Items \ crossed, Following, rows' = changed PROVE ReadyFor(x)'
  <2> DEFINE own == Own(x)
             removals == Removals(x)
             shown == VersionsIn(rows, x)
             new == VersionsIn(changed, x)
             v == stored[x]
  <2>1. /\ l \in own <=> signal \in EventNames /\ x \in ItemsOf(items)
        /\ l \in removals <=> Removes(Head(inbox), x)
        /\ Line[l] = Head(inbox) /\ Head(inbox).signal = signal
        /\ \A s \in own \cup removals : s \in Int /\ l <= s
        /\ Told(own, removals, Line, x, v) /\ ReadyFor(x)
        /\ view.whole => (Ready(own \ {l}, removals \ {l}, Line, v, new) => ReadyFor(x)')
        /\ ~view.whole => ((v # 0 /\ own \ {l} = {} => x \in ItemsOf(changed \o view.rest)) => ReadyFor(x)')
    BY <1>1, <1>4, ReceivedIsReady DEF items
  <2>2. l \notin removals
    BY <2>1 DEF Removes
  <2>3. l \in own <=> x \in ItemsOf(items)
    BY <1>1, <2>1
  <2>4. CASE view.whole
    <3>1. Ready(own, removals, Line, v, shown)
      BY <2>1, <2>4 DEF ReadyFor
    <3>2. CASE x \in ItemsOf(items)
      <4>1. Ordered(rows)
        BY <2>4 DEF ClientInv, RowsSorted, Ordered
      <4>2. new # {}
        BY <1>3, <3>2, ShownMeans
      <4>3. shown # {} => \A w : SaysLast(Line[l].items, x, w) => new = {w}
        BY <1>3, <2>1, <4>1, ShownMeans DEF items
      <4>4. l \in own /\ Line[l].signal = "eventsModified"
        BY <2>1, <2>3, <3>2
      <4> HIDE DEF own, removals, shown, new, v, l
      <4>5. Ready(own \ {l}, removals \ {l}, Line, v, new)
        BY <2>1, <2>2, <3>1, <4>2, <4>3, <4>4, ReadyAfterModifying
      <4> QED
        BY <2>1, <2>4, <4>5
    <3>3. CASE x \notin ItemsOf(items)
      <4>1. new = shown
        BY <1>3, <3>3
      <4> HIDE DEF own, removals, shown, new, v, l
      <4>2. Ready(own \ {l}, removals \ {l}, Line, v, new)
        BY <2>2, <2>3, <3>1, <3>3, <4>1, ReadyForOthers
      <4> QED
        BY <2>1, <2>4, <4>2
    <3> QED
      BY <3>2, <3>3
  <2>5. CASE ~view.whole
    <3>1. v # 0 /\ own = {} => x \in ItemsOf(rows \o view.rest)
      BY <2>1, <2>5 DEF ReadyFor
    <3>2. ItemsOf(rows \o view.rest) = ItemsOf(rows) \cup ItemsOf(view.rest)
          /\ ItemsOf(changed \o view.rest) = ItemsOf(changed) \cup ItemsOf(view.rest)
      BY <1>2, <1>3, JoinedWithRest
    <3> HIDE DEF own, removals, v, l
    <3>3. v # 0 /\ own \ {l} = {} => x \in ItemsOf(changed \o view.rest)
      BY <1>3, <2>3, <3>1, <3>2
    <3> QED
      BY <2>1, <2>5, <3>3
  <2> QED
    BY <2>4, <2>5
<1>5. Ordered(rows) => Ordered(changed)
  BY <1>3
<1> HIDE DEF signal
<1> QED
  BY <1>1, <1>3, <1>4, <1>5, ReceivedEvents

\* The head of the line is an eventsRemoved.
LEMMA RemovedStep ==
    ASSUME ClientInv, OnEventsRemoved
    PROVE  (RowsSorted /\ ServiceKnown /\ ViewOK /\ AllTold /\ AllReady)'
<1> DEFINE items == Head(inbox).items
           changed == RemoveRows(rows, items)
           signal == "eventsRemoved"
           l == 1 - Len(inbox)
<1>1. signal \in EventNames /\ ReceiveEvents(signal, changed) /\ Receive(signal)
  BY DEF OnEventsRemoved, ReceiveEvents, EventNames
<1>2. items \in Seq(Row) /\ rows \in Seq(Row)
  BY <1>1, ReceivedItems DEF ClientInv, Typing, TypeOK
<1> HIDE DEF items
<1>3. /\ changed \in Seq(Row)
      /\ ItemsOf(rows) \ ItemsOf(items) \subseteq ItemsOf(changed)
      /\ \A x \in Items \ ItemsOf(items) : VersionsIn(changed, x) = VersionsIn(rows, x)
      /\ Ordered(rows) =>
           /\ Ordered(changed)
           /\ \A x \in ItemsOf(items) : x \notin ItemsOf(changed)
  BY <1>2, RemoveRowsEffect
<1> HIDE DEF changed
<1>4. ASSUME NEW x \in Items \ crossed, Following, rows' = changed PROVE ReadyFor(x)'
  <2> DEFINE own == Own(x)
             removals == Removals(x)
             shown == VersionsIn(rows, x)
             new == VersionsIn(changed, x)
             v == stored[x]
  <2>1. /\ l \in own <=> signal \in EventNames /\ x \in ItemsOf(items)
        /\ l \in removals <=> Removes(Head(inbox), x)
        /\ Line[l] = Head(inbox) /\ Head(inbox).signal = signal
        /\ \A s \in own \cup removals : s \in Int /\ l <= s
        /\ Told(own, removals, Line, x, v) /\ ReadyFor(x)
        /\ view.whole => (Ready(own \ {l}, removals \ {l}, Line, v, new) => ReadyFor(x)')
        /\ ~view.whole => ((v # 0 /\ own \ {l} = {} => x \in ItemsOf(changed \o view.rest)) => ReadyFor(x)')
    BY <1>1, <1>4, ReceivedIsReady DEF items
  <2>2. l \in removals <=> x \in ItemsOf(items)
    BY <2>1 DEF Removes, items
  <2>3. l \in own <=> x \in ItemsOf(items)
    BY <1>1, <2>1
  <2>4. CASE view.whole
    <3>1. Ready(own, removals, Line, v, shown)
      BY <2>1, <2>4 DEF ReadyFor
    <3>2. CASE x \in ItemsOf(items)
      <4>1. Ordered(rows)
        BY <2>4 DEF ClientInv, RowsSorted, Ordered
      <4>2. new = {}
        BY <1>3, <3>2, <4>1, ShownMeans
      <4>3. l \in removals /\ Line[l].signal = "eventsRemoved"
        BY <2>1, <2>2, <3>2
      <4> HIDE DEF own, removals, shown, new, v, l
      <4>4. Ready(own \ {l}, removals \ {l}, Line, v, {})
        BY <2>1, <4>3, ReadyAfterRemoving
      <4> QED
        BY <2>1, <2>4, <4>2, <4>4
    <3>3. CASE x \notin ItemsOf(items)
      <4>1. new = shown
        BY <1>3, <3>3
      <4> HIDE DEF own, removals, shown, new, v, l
      <4>2. Ready(own \ {l}, removals \ {l}, Line, v, new)
        BY <2>2, <2>3, <3>1, <3>3, <4>1, ReadyForOthers
      <4> QED
        BY <2>1, <2>4, <4>2
    <3> QED
      BY <3>2, <3>3
  <2>5. CASE ~view.whole
    <3>1. v # 0 /\ own = {} => x \in ItemsOf(rows \o view.rest)
      BY <2>1, <2>5 DEF ReadyFor
    <3>2. ItemsOf(rows \o view.rest) = ItemsOf(rows) \cup ItemsOf(view.rest)
          /\ ItemsOf(changed \o view.rest) = ItemsOf(changed) \cup ItemsOf(view.rest)
      BY <1>2, <1>3, JoinedWithRest
    <3>3. ASSUME v # 0, own \ {l} = {} PROVE l \notin own
      <4>1. ASSUME l \in own PROVE FALSE
        <5>1. Latest(l, own)
          BY <2>1, <3>3, <4>1 DEF Latest
        <5>2. Line[l].signal # "eventsRemoved"
          BY <2>1, <3>3, <4>1, <5>1 DEF Told, WrittenLast
        <5> QED
          BY <5>2, <2>1
      <4> QED
        BY <4>1
    <3> HIDE DEF own, removals, v, l
    <3>4. v # 0 /\ own \ {l} = {} => x \in ItemsOf(changed \o view.rest)
      <4> SUFFICES ASSUME v # 0, own \ {l} = {} PROVE x \in ItemsOf(changed \o view.rest)
        OBVIOUS
      <4>1. x \notin ItemsOf(items) /\ own = {}
        BY <2>3, <3>3
      <4> QED
        BY <4>1, <1>3, <3>1, <3>2
    <3> QED
      BY <2>1, <2>5, <3>4
  <2> QED
    BY <2>4, <2>5
<1>5. Ordered(rows) => Ordered(changed)
  BY <1>3
<1> HIDE DEF signal
<1> QED
  BY <1>1, <1>3, <1>4, <1>5, ReceivedEvents

\* threadsRemoved: a model with rows makes its query again.
LEMMA ThreadsRemovedStep ==
    ASSUME ClientInv, OnThreadsRemoved
    PROVE  (RowsSorted /\ ServiceKnown /\ ViewOK /\ AllTold /\ AllReady)'
<1> DEFINE signal == "threadsRemoved"
           l == 1 - Len(inbox)
<1>1. /\ Receive(signal) /\ signal \notin ServiceSignals /\ signal \notin EventNames
      /\ running' = running /\ rows' = rows
      /\ update' = (update \/ (view.connected /\ rows # <<>>))
      /\ view' = view /\ crossed' = crossed
  BY DEF OnThreadsRemoved, ServiceSignals, EventNames, Receive
<1>2. AllTold' /\ ViewOK'
  BY <1>1, ReceiveLeaves
<1>3. ServiceKnown' /\ (Following' => Following)
  BY <1>1, NotificationKnown
<1>4. RowsSorted'
  BY <1>1 DEF ClientInv, RowsSorted
<1>5. ASSUME Following', NEW x \in Items \ crossed PROVE ReadyFor(x)'
  <2> DEFINE own == Own(x)
             removals == Removals(x)
             shown == VersionsIn(rows, x)
             v == stored[x]
  <2>1. /\ l \in own <=> signal \in EventNames /\ x \in ItemsOf(Head(inbox).items)
        /\ l \in removals <=> Removes(Head(inbox), x)
        /\ \A s \in own \cup removals : s \in Int /\ l <= s
        /\ Told(own, removals, Line, x, v) /\ ReadyFor(x)
        /\ view.whole => (Ready(own \ {l}, removals \ {l}, Line, v, shown) => ReadyFor(x)')
        /\ ~view.whole => ((v # 0 /\ own \ {l} = {} => x \in ItemsOf(rows \o view.rest)) => ReadyFor(x)')
    BY <1>1, <1>3, <1>5, ReceivedIsReady
  <2>2. l \notin own
    BY <1>1, <2>1
  <2>3. rows = <<>>
    BY <1>1, <1>5 DEF Following
  <2>4. shown = {}
    BY <2>3, OneNotice, ShownMeans
  <2>5. CASE view.whole
    <3>1. Ready(own, removals, Line, v, shown)
      BY <2>1, <2>5 DEF ReadyFor
    <3> HIDE DEF own, removals, shown, v, l
    <3>2. Ready(own \ {l}, removals \ {l}, Line, v, shown)
      <4>1. CASE l \in removals
        <5>1. Ready(own \ {l}, removals \ {l}, Line, v, {})
          BY <2>1, <2>2, <4>1, ReadyAfterRemoving
        <5> QED
          BY <5>1, <2>4
      <4>2. CASE l \notin removals
        BY <2>2, <3>1, <4>2, ReadyForOthers
      <4> QED
        BY <4>1, <4>2
    <3> QED
      BY <2>1, <2>5, <3>2
  <2>6. CASE ~view.whole
    <3>1. v # 0 /\ own = {} => x \in ItemsOf(rows \o view.rest)
      BY <2>1, <2>6 DEF ReadyFor
    <3> HIDE DEF own, v, l
    <3> QED
      BY <2>1, <2>2, <2>6, <3>1
  <2> QED
    BY <2>5, <2>6
<1>6. AllReady'
  BY <1>1, <1>5 DEF AllReady
<1> QED
  BY <1>2, <1>3, <1>4, <1>6

\* Each step keeps the invariant.
LEMMA ClientStep == ClientInv /\ [Next]_vars => ClientInv'
<1> SUFFICES ASSUME ClientInv, [Next]_vars PROVE ClientInv'
  OBVIOUS
<1>1. Typing'
  BY TypingStep DEF ClientInv
<1>2. (RowsSorted /\ ServiceKnown /\ ViewOK /\ AllTold /\ AllReady)'
  <2>1. CASE \E item \in Items : WriteEvent(item) \/ RemoveEvent(item)
    BY <2>1, WriteStep, RemoveStep
  <2>2. CASE RemoveThread
    BY <2>2, RemoveThreadStep
  <2>3. CASE Crash
    BY <2>3, CrashStep
  <2>4. CASE Restart
    BY <2>4, RestartStep
  <2>5. CASE SendSignals
    BY <2>5, SendStep
  <2>6. CASE UpdateQuery
    BY <2>6, UpdateStep
  <2>7. CASE FetchMore
    BY <2>7, FetchStep
  <2>8. CASE ChangeQuery
    BY <2>8, ChangeQueryStep
  <2>9. CASE ReceiveNext
    BY <2>9, AddedStep, ModifiedStep, RemovedStep, ThreadsRemovedStep, ServiceRunningStep DEF ReceiveNext
  <2>10. CASE UNCHANGED vars
    BY <2>10, IdleStep
  <2> QED
    BY <2>1, <2>2, <2>3, <2>4, <2>5, <2>6, <2>7, <2>8, <2>9, <2>10 DEF Next
<1> QED
  BY <1>1, <1>2 DEF ClientInv

\* The invariant holds in every state.
LEMMA InvariantHolds == Spec => []ClientInv
BY Initially, ClientStep, PTL DEF Spec

\* When nothing is on its way, what remains to be shown is what is shown.
LEMMA QuietFollows == ClientInv => ModelFollowsDatabase
<1> SUFFICES ASSUME ClientInv PROVE ModelFollowsDatabase
  OBVIOUS
<1>1. ASSUME Quiet PROVE /\ \A x : Own(x) = {} /\ Removals(x) = {}
                         /\ view.connected /\ view.alive /\ Following
  <2>1. pending = NothingPending /\ inbox = <<>> /\ up /\ ~update /\ QueueOK
    BY <1>1 DEF Quiet, ClientInv, Typing, NothingStranded
  <2>2. Services = {} /\ \A x : Own(x) = {} /\ Removals(x) = {}
    BY <2>1, NothingIsInLine
  <2> QED
    BY <2>1, <2>2 DEF ClientInv, ServiceKnown, Following
<1>2. ModelShowsDatabase
  <2> SUFFICES ASSUME Quiet, view.whole, NEW x \in Items \ crossed
               PROVE  Shown(x) = IF stored[x] = 0 THEN {} ELSE {stored[x]}
    BY DEF ModelShowsDatabase
  <2>1. Ready({}, {}, Line, stored[x], VersionsIn(rows, x))
    BY <1>1 DEF ClientInv, AllReady, ReadyFor
  <2>2. Shown(x) = VersionsIn(rows, x)
    BY DEF Shown, VersionsIn
  <2> QED
    BY <2>1, <2>2 DEF Ready
<1>3. StoredEventsAreShown
  <2> SUFFICES ASSUME Quiet, ~more, NEW x \in StoredItems \ crossed PROVE x \in ItemsOf(rows)
    BY DEF StoredEventsAreShown
  <2>1. x \in Items \ crossed /\ stored[x] # 0
    BY DEF StoredItems
  <2>2. ReadyFor(x) /\ Own(x) = {}
    BY <1>1, <2>1 DEF ClientInv, AllReady
  <2>3. CASE view.whole
    <3>1. VersionsIn(rows, x) = {stored[x]}
      BY <1>1, <2>1, <2>2, <2>3 DEF ReadyFor, Ready
    <3> QED
      BY <3>1, ShownMeans
  <2>4. CASE ~view.whole
    <3>1. view.rest = <<>>
      BY <1>1 DEF ClientInv, ViewOK
    <3>2. x \in ItemsOf(rows \o view.rest)
      BY <2>1, <2>2, <2>4 DEF ReadyFor
    <3>3. rows \o <<>> = rows
      BY DEF ClientInv, Typing, TypeOK
    <3> QED
      BY <3>1, <3>2, <3>3
  <2> QED
    BY <2>3, <2>4
<1> QED
  BY <1>2, <1>3 DEF ModelFollowsDatabase

\* Every list of the service is typed and has a timer while something is in it,
\* in every state: nothing that was notified waits for ever for lack of a timer.
THEOREM SignalsAlwaysServed == Spec => []SignalsAreServed
<1>1. ClientInv => SignalsAreServed
  BY DEF ClientInv, Typing, SignalsAreServed
<1> QED
  BY <1>1, InvariantHolds, PTL

\* The rows stay in order, and no event gets two, whatever signals come.
THEOREM RowsAlwaysSorted == Spec => []RowsSorted
<1>1. ClientInv => RowsSorted
  BY DEF ClientInv
<1> QED
  BY <1>1, InvariantHolds, PTL

\* When everything has arrived, the model shows the database.
THEOREM ModelAlwaysFollowsDatabase == Spec => []ModelFollowsDatabase
BY QuietFollows, InvariantHolds, PTL
==============================================================================
