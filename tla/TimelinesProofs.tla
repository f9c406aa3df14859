--------------------------- MODULE TimelinesProofs ---------------------------
(***************************************************************************)
(* Theorems of Timelines, for every feed, set of hooks, number of points   *)
(* and of visits: the types, the order and the index of every series, that *)
(* what a chart shows was produced, that a fetched baseline is on it, that *)
(* the overlay carries quotes on, and that the newest payload is shown.    *)
(*                                                                         *)
(* The operators of TimelineSeries come first, each by a law; then what a  *)
(* baseline and a patch make of a series; then the steps.                  *)
(***************************************************************************)
EXTENDS Timelines, DataLemmas

-----------------------------------------------------------------------------
(* Sorting.                                                                *)

\* An order of pairs in which the members of S are all before or after each other.
Orders(less, S) ==
    /\ \A x \in S : <<x, x>> \notin less
    /\ \A x, y, z \in S : <<x, y>> \in less /\ <<y, z>> \in less => <<x, z>> \in less
    /\ \A x, y \in S : x = y \/ <<x, y>> \in less \/ <<y, x>> \in less

\* Sorted has all of the members, each in its place.
LEMMA SortedInOrder ==
    ASSUME NEW S, IsFiniteSet(S), NEW less, Orders(less, S)
    PROVE  LET s == Sorted(S, less) n == Cardinality(S)
           IN /\ n \in Nat
              /\ s \in [1..n -> S]
              /\ \A i, j \in 1..n : i < j => <<s[i], s[j]>> \in less
              /\ \A x \in S : \E i \in 1..n : s[i] = x
<1> DEFINE n == Cardinality(S)
           Below(m) == {x \in S : <<x, m>> \in less}
           rank == [m \in S |-> Cardinality(Below(m)) + 1]
           s == Sorted(S, less)
<1>1. /\ n \in Nat
      /\ \A m \in S : IsFiniteSet(Below(m)) /\ Cardinality(Below(m)) \in Nat
  BY FS_Subset, FS_CardinalityType
<1>2. ASSUME NEW x \in S, NEW y \in S, <<x, y>> \in less
      PROVE  rank[x] < rank[y]
  <2>1. Below(x) \in SUBSET Below(y) /\ x \in Below(y) /\ x \notin Below(x)
    BY <1>2 DEF Orders
  <2>2. Below(x) # Below(y)
    BY <2>1
  <2>3. Cardinality(Below(x)) <= Cardinality(Below(y)) /\ Cardinality(Below(x)) # Cardinality(Below(y))
    BY <1>1, <2>1, <2>2, FS_Subset
  <2> QED
    BY <1>1, <2>3
<1>3. /\ \A m \in S : rank[m] = Cardinality(Below(m)) + 1 /\ rank[m] \in Nat
      /\ \A x, y \in S : rank[x] = rank[y] => x = y
  <2>1. \A m \in S : rank[m] = Cardinality(Below(m)) + 1 /\ rank[m] \in Nat
    BY <1>1
  <2> HIDE DEF rank, Below
  <2>2. \A x, y \in S : <<x, y>> \in less => rank[x] # rank[y]
    <3> SUFFICES ASSUME NEW x \in S, NEW y \in S, <<x, y>> \in less PROVE rank[x] # rank[y]
      OBVIOUS
    <3>1. rank[x] < rank[y]
      BY <1>2
    <3> QED
      BY <2>1, <3>1
  <2>3. \A x, y \in S : rank[x] = rank[y] => x = y
    BY <2>2 DEF Orders
  <2> QED
    BY <2>1, <2>3
<1>4. ASSUME NEW m \in S
      PROVE  rank[m] \in 1..n
  <2>1. Below(m) \in SUBSET S /\ m \notin Below(m) /\ Below(m) # S
    BY DEF Orders
  <2>2. Cardinality(Below(m)) <= n /\ Cardinality(Below(m)) # n
    BY <2>1, FS_Subset
  <2> QED
    BY <1>1, <2>2
<1>5. rank \in Injection(S, 1..n)
  BY <1>3, <1>4 DEF Injection, IsInjective
<1>6. rank \in Surjection(S, 1..n)
  <2>1. IsFiniteSet(1..n) /\ Cardinality(1..n) = n
    BY <1>1, FS_Interval
  <2> HIDE DEF rank
  <2> QED
    BY <1>5, <2>1, FS_Injection
<1>7. \A i \in 1..n : \E m \in S : rank[m] = i
  BY <1>6 DEF Surjection
<1>8. ASSUME NEW i \in 1..n
      PROVE  s[i] \in S /\ rank[s[i]] = i
  <2>1. s[i] = CHOOSE m \in S : Cardinality(Below(m)) = i - 1
    BY DEF Sorted
  <2>2. PICK m \in S : rank[m] = i
    BY <1>7
  <2>3. Cardinality(Below(m)) = i - 1
    <3> HIDE DEF Below, rank
    <3> QED
      BY <1>1, <1>3, <2>2
  <2>4. s[i] \in S /\ Cardinality(Below(s[i])) = i - 1
    BY <2>1, <2>3
  <2> QED
    BY <1>1, <2>4
<1>9. s \in [1..n -> S]
  <2>1. s = [i \in 1..n |-> CHOOSE m \in S : Cardinality(Below(m)) = i - 1]
    BY DEF Sorted
  <2>2. DOMAIN s = 1..n /\ s = [i \in 1..n |-> s[i]]
    BY <2>1
  <2> HIDE DEF s
  <2> QED
    BY <1>8, <2>2
<1> HIDE DEF s, rank
<1>10. \A i, j \in 1..n : i < j => <<s[i], s[j]>> \in less
  <2> SUFFICES ASSUME NEW i \in 1..n, NEW j \in 1..n, i < j PROVE <<s[i], s[j]>> \in less
    OBVIOUS
  <2>1. s[i] \in S /\ s[j] \in S /\ rank[s[i]] = i /\ rank[s[j]] = j
    BY <1>8
  <2>2. <<s[j], s[i]>> \notin less
    <3>1. ~(rank[s[j]] < rank[s[i]])
      BY <2>1
    <3> QED
      BY <1>2, <2>1, <3>1
  <2> QED
    BY <2>1, <2>2 DEF Orders
<1>11. \A x \in S : \E i \in 1..n : s[i] = x
  BY <1>3, <1>4, <1>8
<1> QED
  BY <1>1, <1>9, <1>10, <1>11 DEF s

\* Ascending has all of the numbers, the smaller first.
LEMMA AscendingInOrder ==
    ASSUME NEW S, IsFiniteSet(S), S \subseteq Nat
    PROVE  LET s == Ascending(S) n == Cardinality(S)
           IN /\ n \in Nat
              /\ s \in [1..n -> S]
              /\ \A i, j \in 1..n : i < j => s[i] < s[j]
              /\ \A x \in S : \E i \in 1..n : s[i] = x
<1> DEFINE less == {p \in S \X S : p[1] < p[2]}
<1>1. \A x, y \in S : <<x, y>> \in less <=> x < y
  OBVIOUS
<1>2. \A x \in S : x \in Nat
  OBVIOUS
<1> HIDE DEF less
<1>3. Orders(less, S)
  BY <1>1, <1>2 DEF Orders
<1>4. Ascending(S) = Sorted(S, less)
  BY DEF Ascending, less
<1> DEFINE s == Sorted(S, less) n == Cardinality(S)
<1>5. /\ n \in Nat
      /\ s \in [1..n -> S]
      /\ \A i, j \in 1..n : i < j => <<s[i], s[j]>> \in less
      /\ \A x \in S : \E i \in 1..n : s[i] = x
  BY <1>3, SortedInOrder
<1> HIDE DEF s, n
<1>6. \A i, j \in 1..n : i < j => s[i] < s[j]
  BY <1>1, <1>5
<1> QED
  BY <1>4, <1>5, <1>6 DEF s, n

\* The greatest member of a finite set of numbers.
LEMMA MaxIsGreatest ==
    ASSUME NEW S, IsFiniteSet(S), S \subseteq Nat, S # {}
    PROVE  Max(S) \in S /\ Max(S) \in Nat /\ \A n \in S : n <= Max(S)
<1>1. PICK m \in S : \A n \in S : n <= m
  BY GreatestNumber
<1>2. \A n \in S : m >= n
  BY <1>1
<1>3. Max(S) \in S /\ \A n \in S : Max(S) >= n
  BY <1>2 DEF Max
<1> QED
  BY <1>3

\* The values of a function on a finite set are finitely many.
LEMMA ImageFinite ==
    ASSUME NEW S, IsFiniteSet(S), NEW f
    PROVE  IsFiniteSet({f[x] : x \in S})
<1> DEFINE T == {f[x] : x \in S}
           g == [x \in S |-> f[x]]
<1>1. g \in Surjection(S, T)
  BY DEF Surjection
<1> HIDE DEF g, T
<1>2. IsFiniteSet(T)
  BY <1>1, FS_Surjection
<1> QED
  BY <1>2 DEF T

-----------------------------------------------------------------------------
(* Series.                                                                 *)

\* The points, or rows, of a series are in the order of their minutes.
Paired(series) ==
    \A i, j \in DOMAIN series : i <= j => series[i].minute <= series[j].minute

\* i is the last position of a point of m.
IsLast(series, m, i) ==
    /\ i \in DOMAIN series /\ series[i].minute = m
    /\ \A j \in DOMAIN series : series[j].minute = m => j <= i

\* The index of a series has the last position of each of its minutes.
LEMMA LastIsIndexed ==
    ASSUME NEW S, NEW series \in Seq(S), NEW m \in Minutes(series)
    PROVE  /\ IsLast(series, m, IndexOf(series)[m])
           /\ \A i : IsLast(series, m, i) => IndexOf(series)[m] = i
<1> DEFINE T == {i \in DOMAIN series : series[i].minute = m}
<1>1. Len(series) \in Nat /\ DOMAIN series = 1..Len(series)
  OBVIOUS
<1>2. IsFiniteSet(T) /\ T \subseteq Nat /\ T # {}
  <2>1. IsFiniteSet(1..Len(series))
    BY <1>1, FS_Interval
  <2>2. T \in SUBSET (1..Len(series)) /\ T # {}
    BY <1>1 DEF Minutes
  <2> HIDE DEF T
  <2>3. IsFiniteSet(T)
    BY <2>1, <2>2, FS_Subset
  <2> QED
    BY <2>2, <2>3
<1>3. Max(T) \in T /\ \A n \in T : n <= Max(T)
  <2> HIDE DEF T
  <2> QED
    BY <1>2, MaxIsGreatest
<1>4. IndexOf(series)[m] = Max(T)
  BY DEF IndexOf
<1>5. IsLast(series, m, Max(T))
  <2> DEFINE x == Max(T)
  <2>1. x \in T /\ \A n \in T : n <= x
    BY <1>3
  <2> HIDE DEF x
  <2> QED
    BY <2>1 DEF IsLast, x
<1>6. \A i : IsLast(series, m, i) => i = Max(T)
  <2> DEFINE x == Max(T)
  <2>1. x \in T /\ x \in Nat /\ \A n \in T : n <= x
    BY <1>2, <1>3
  <2>2. \A i : IsLast(series, m, i) => i \in T /\ i \in Nat /\ \A n \in T : n <= i
    BY <1>1 DEF IsLast
  <2> HIDE DEF x, T
  <2>3. \A i : IsLast(series, m, i) => i = x
    BY <2>1, <2>2
  <2> QED
    BY <2>3 DEF x
<1> HIDE DEF T
<1> QED
  BY <1>4, <1>5, <1>6

\* The value of a minute is that of its last point.
LEMMA ValueIsLast ==
    ASSUME NEW S, NEW series \in Seq(S), NEW m, NEW i, IsLast(series, m, i)
    PROVE  m \in DOMAIN ValueByMinute(series) /\ ValueByMinute(series)[m] = series[i].value
<1>1. m \in Minutes(series)
  BY DEF Minutes, IsLast
<1>2. IndexOf(series)[m] = i
  BY <1>1, LastIsIndexed
<1> QED
  BY <1>1, <1>2 DEF ValueByMinute

\* Two series with the same minutes in the same places have the same index.
LEMMA SameIndex ==
    ASSUME NEW s, NEW t, DOMAIN s = DOMAIN t, \A i \in DOMAIN s : s[i].minute = t[i].minute
    PROVE  IndexOf(s) = IndexOf(t) /\ Minutes(s) = Minutes(t)
<1>1. Minutes(s) = Minutes(t)
  BY DEF Minutes
<1>2. \A m : {i \in DOMAIN s : s[i].minute = m} = {i \in DOMAIN t : t[i].minute = m}
  OBVIOUS
<1> QED
  BY <1>1, <1>2 DEF IndexOf

\* r is s with e at i.
Inserted(r, s, i, e) ==
    /\ Len(r) = Len(s) + 1
    /\ \A j \in 1..(Len(s) + 1) :
           r[j] = IF j < i THEN s[j] ELSE IF j = i THEN e ELSE s[j - 1]


\* InsertAt moves what follows by one.
LEMMA InsertAtLaw ==
    ASSUME NEW S, NEW s \in Seq(S), NEW i \in 1..(Len(s) + 1), NEW e \in S
    PROVE  LET r == InsertAt(s, i, e)
           IN r \in Seq(S) /\ Inserted(r, s, i, e)
<1> DEFINE a == SubSeq(s, 1, i - 1)
           b == SubSeq(s, i, Len(s))
           r == a \o <<e>> \o b
<1>1. Len(s) \in Nat /\ i \in Nat /\ i >= 1 /\ i <= Len(s) + 1
  OBVIOUS
<1>2. a \in Seq(S) /\ Len(a) = i - 1 /\ \A j \in 1..(i - 1) : a[j] = s[j]
  BY <1>1
<1>3. b \in Seq(S) /\ Len(b) = Len(s) + 1 - i /\ \A j \in 1..(Len(s) + 1 - i) : b[j] = s[i + j - 1]
  BY <1>1
<1> HIDE DEF a, b
<1>4. /\ a \o <<e>> \in Seq(S) /\ Len(a \o <<e>>) = i
      /\ \A j \in 1..i : (a \o <<e>>)[j] = IF j < i THEN s[j] ELSE e
  BY <1>1, <1>2
<1> DEFINE c == a \o <<e>>
<1>5. c \in Seq(S) /\ Len(c) = i /\ \A j \in 1..i : c[j] = IF j < i THEN s[j] ELSE e
  BY <1>4
<1> HIDE DEF c
<1>6. /\ c \o b \in Seq(S) /\ Len(c \o b) = Len(s) + 1
      /\ \A j \in 1..(Len(s) + 1) : (c \o b)[j] = IF j <= i THEN c[j] ELSE b[j - i]
  <2>1. /\ c \o b \in Seq(S) /\ Len(c \o b) = Len(c) + Len(b)
        /\ \A j \in 1..(Len(c) + Len(b)) :
               (c \o b)[j] = IF j <= Len(c) THEN c[j] ELSE b[j - Len(c)]
    BY <1>3, <1>5, ConcatProperties
  <2> QED
    BY <1>1, <1>3, <1>5, <2>1
<1>7. \A j \in 1..(Len(s) + 1) : j > i => b[j - i] = s[j - 1]
  BY <1>1, <1>3
<1>8. InsertAt(s, i, e) = c \o b
  BY DEF InsertAt, a, b, c
<1> QED
  BY <1>1, <1>5, <1>6, <1>7, <1>8 DEF Inserted

-----------------------------------------------------------------------------
(* The upsert.                                                             *)

\* Bisection finds the first position that is not before m.
LEMMA FindsFirst ==
    ASSUME NEW series \in Seq(Point), Paired(series), NEW m \in Nat
    PROVE  LET i == FindInsertIndex(series, m)
           IN /\ i \in 1..(Len(series) + 1)
              /\ \A j \in DOMAIN series : j < i <=> series[j].minute < m
<1> DEFINE n == Len(series) + 1
           places == 1..n
           pairs == places \X places
           Step(place) ==
               [range \in pairs |->
                   LET low == range[1]
                       high == range[2]
                       mid == (low + high) \div 2
                   IN IF low >= high THEN low
                      ELSE IF series[mid].minute < m THEN place[<<mid + 1, high>>] ELSE place[<<low, mid>>]]
           g == CHOOSE place : place = Step(place)
<1>1. /\ Len(series) \in Nat /\ DOMAIN series = 1..Len(series) /\ n \in Nat \ {0}
      /\ \A j \in DOMAIN series : series[j].minute \in Nat
  <2>1. \A j \in DOMAIN series : series[j] \in Point
    OBVIOUS
  <2> QED
    BY <2>1 DEF Point
<1>2. PICK p \in places : \A j \in DOMAIN series : j < p <=> series[j].minute < m
  <2> DEFINE S == {i \in places : i = n \/ series[i].minute >= m}
  <2>1. S \subseteq Nat /\ n \in S
    BY <1>1
  <2> HIDE DEF S
  <2>2. PICK p \in S : \A i \in S : p <= i
    BY <2>1, LeastNumber
  <2> USE DEF S
  <2>3. p \in places /\ (p = n \/ series[p].minute >= m)
    BY <2>2
  <2>4. ASSUME NEW j \in DOMAIN series
        PROVE  j < p <=> series[j].minute < m
    <3>1. j \in places /\ j \in 1..Len(series) /\ j # n
      BY <1>1
    <3>2. series[j].minute >= m => p <= j
      BY <2>2, <3>1
    <3>3. p <= j => p \in DOMAIN series /\ series[p].minute >= m /\ series[p].minute <= series[j].minute
      BY <1>1, <2>3, <3>1 DEF Paired
    <3> QED
      BY <1>1, <2>3, <3>1, <3>2, <3>3
  <2> QED
    BY <2>3, <2>4
<1> DEFINE Between(low, high) == IF low >= high \/ p < low THEN low ELSE IF p > high THEN high ELSE p
           f == [range \in pairs |-> Between(range[1], range[2])]
<1>3. ASSUME NEW low \in places, NEW high \in places, low < high
      PROVE  LET mid == (low + high) \div 2
             IN /\ mid \in DOMAIN series /\ mid \in places /\ mid + 1 \in places
                /\ Between(low, high) = IF series[mid].minute < m THEN Between(mid + 1, high) ELSE Between(low, mid)
                /\ low <= mid /\ mid < high
  <2> DEFINE mid == (low + high) \div 2
  <2>1. mid \in Nat /\ low <= mid /\ mid < high
    BY <1>1, <1>3
  <2> HIDE DEF mid
  <2>2. mid \in DOMAIN series /\ mid \in places /\ mid + 1 \in places
    BY <1>1, <1>3, <2>1
  <2>3. series[mid].minute < m <=> mid < p
    BY <1>2, <2>2
  <2>4. Between(low, high) = IF mid < p THEN Between(mid + 1, high) ELSE Between(low, mid)
    BY <1>1, <1>2, <1>3, <2>1, <2>2
  <2> QED
    BY <2>1, <2>2, <2>3, <2>4 DEF mid
<1>4. \A low, high \in places : f[<<low, high>>] = Between(low, high)
  OBVIOUS
<1>5. ASSUME NEW low \in places, NEW high \in places
      PROVE  Between(low, high) =
                   LET mid == (low + high) \div 2
                   IN IF low >= high THEN low
                      ELSE IF series[mid].minute < m THEN f[<<mid + 1, high>>] ELSE f[<<low, mid>>]
  <2>1. CASE low >= high
    BY <1>1, <2>1
  <2>2. CASE low < high
    <3> DEFINE mid == (low + high) \div 2
    <3>1. /\ mid \in places /\ mid + 1 \in places
          /\ Between(low, high) = IF series[mid].minute < m THEN Between(mid + 1, high) ELSE Between(low, mid)
      BY <1>3, <2>2
    <3>2. ~(low >= high)
      BY <1>1, <2>2
    <3> HIDE DEF mid, f, places, Between
    <3>3. f[<<mid + 1, high>>] = Between(mid + 1, high) /\ f[<<low, mid>>] = Between(low, mid)
      BY <1>4, <3>1
    <3> QED
      BY <3>1, <3>2, <3>3 DEF mid
  <2> HIDE DEF f, Between
  <2>3. low \in Nat /\ high \in Nat
    BY <1>1
  <2> QED
    BY <2>1, <2>2, <2>3
<1>6. f = Step(f)
  <2>1. ASSUME NEW range \in pairs
        PROVE  f[range] = Step(f)[range]
    <3>1. range[1] \in places /\ range[2] \in places /\ range = <<range[1], range[2]>>
      OBVIOUS
    <3>2. f[range] = Between(range[1], range[2])
      BY <1>4, <3>1
    <3> HIDE DEF f, Between, places
    <3> QED
      BY <1>5, <3>1, <3>2
  <2>2. /\ f = [range \in pairs |-> f[range]] /\ DOMAIN f = pairs
        /\ Step(f) = [range \in pairs |-> Step(f)[range]] /\ DOMAIN Step(f) = pairs
    <3> HIDE DEF pairs
    <3>1. f = [range \in pairs |-> f[range]] /\ DOMAIN f = pairs
      BY DEF f
    <3> HIDE DEF f
    <3> QED
      BY <3>1
  <2> HIDE DEF f, Step, pairs
  <2> QED
    BY <2>1, <2>2
<1>7. g = Step(g)
  <2> HIDE DEF f, Step
  <2> QED
    BY <1>6
<1>8. FindInsertIndex(series, m) = g[<<1, n>>]
  BY DEF FindInsertIndex
<1>9. \A low, high \in places : g[<<low, high>>] =
           LET mid == (low + high) \div 2
           IN IF low >= high THEN low
              ELSE IF series[mid].minute < m THEN g[<<mid + 1, high>>] ELSE g[<<low, mid>>]
  <2> HIDE DEF g, places
  <2> SUFFICES ASSUME NEW low \in places, NEW high \in places
               PROVE  g[<<low, high>>] = Step(g)[<<low, high>>]
    OBVIOUS
  <2> HIDE DEF Step
  <2> QED
    BY <1>7
<1>10. \A low, high \in places : g[<<low, high>>] = Between(low, high)
  <2> DEFINE Good == {d \in Nat : \A low, high \in places : high <= low + d => g[<<low, high>>] = Between(low, high)}
  <2> HIDE DEF g
  <2>1. 0 \in Good
    <3>1. \A low, high \in places : high <= low + 0 => low >= high
      BY <1>1
    <3> QED
      BY <1>9, <3>1
  <2>2. ASSUME NEW d \in Nat, d \in Good
        PROVE  d + 1 \in Good
    <3> SUFFICES ASSUME NEW low \in places, NEW high \in places, high <= low + (d + 1)
                 PROVE  g[<<low, high>>] = Between(low, high)
      BY <2>2
    <3>1. CASE low >= high
      BY <1>9, <3>1
    <3>2. CASE ~(low >= high)
      <4> DEFINE mid == (low + high) \div 2
      <4>1. low < high
        BY <1>1, <3>2
      <4>2. /\ mid \in places /\ mid + 1 \in places /\ low <= mid /\ mid < high
            /\ Between(low, high) = IF series[mid].minute < m THEN Between(mid + 1, high) ELSE Between(low, mid)
        BY <1>3, <4>1
      <4>3. g[<<low, high>>] = IF series[mid].minute < m THEN g[<<mid + 1, high>>] ELSE g[<<low, mid>>]
        BY <1>9, <3>2
      <4> HIDE DEF mid, Between
      <4>4. high <= mid + 1 + d /\ mid <= low + d
        BY <1>1, <4>2
      <4> HIDE DEF places
      <4>5. g[<<mid + 1, high>>] = Between(mid + 1, high) /\ g[<<low, mid>>] = Between(low, mid)
        BY <2>2, <4>2, <4>4
      <4> QED
        BY <4>2, <4>3, <4>5
    <3> QED
      BY <3>1, <3>2
  <2> HIDE DEF Good
  <2>3. Nat \subseteq Good
    BY <2>1, <2>2, Induction
  <2>4. ASSUME NEW low \in places, NEW high \in places
        PROVE  g[<<low, high>>] = Between(low, high)
    <3>1. n \in Good
      BY <1>1, <2>3
    <3>2. high <= low + n
      BY <1>1
    <3> HIDE DEF places, n, Between
    <3> QED
      BY <3>1, <3>2 DEF Good
  <2> QED
    BY <2>4
<1>11. FindInsertIndex(series, m) = p
  <2>1. Between(1, n) = p /\ 1 \in places /\ n \in places
    BY <1>1, <1>2
  <2> HIDE DEF g, Between, places, n
  <2> QED
    BY <1>8, <1>10, <2>1
<1> QED
  BY <1>2, <1>11

\* What upsertPoint does with a series in order and the index of it.
LEMMA UpsertLaw ==
    ASSUME NEW series \in Seq(Point), Paired(series), NEW point \in Point
    PROVE  LET u == Upsert(series, IndexOf(series), point)
           IN /\ u.series \in Seq(Point) /\ Paired(u.series)
              /\ u.index = IndexOf(u.series)
              /\ \E i \in DOMAIN u.series : u.series[i] = point /\ IsLast(u.series, point.minute, i)
              /\ \A i \in DOMAIN u.series : u.series[i] = point \/ \E j \in DOMAIN series : u.series[i] = series[j]
              /\ \A k : \A m : m # point.minute /\ IsLast(series, m, k) =>
                     \E i \in DOMAIN u.series : u.series[i] = series[k] /\ IsLast(u.series, m, i)
              /\ u.series[1] = point \/ (series # <<>> /\ u.series[1] = series[1])
<1> DEFINE index == IndexOf(series)
           m == point.minute
           indexed == IF m \in DOMAIN index THEN index[m] ELSE 0
           valid == indexed \in DOMAIN series /\ series[indexed].minute = m
           i == IF valid THEN indexed ELSE FindInsertIndex(series, m)
           exists == i \in DOMAIN series /\ series[i].minute = m
           next == IF exists THEN [series EXCEPT ![i] = point] ELSE InsertAt(series, i, point)
           u == Upsert(series, index, point)
<1>1. /\ Len(series) \in Nat /\ DOMAIN series = 1..Len(series)
      /\ \A j \in DOMAIN series : series[j] \in Point /\ series[j].minute \in Nat
      /\ m \in Nat
  <2>1. \A j \in DOMAIN series : series[j] \in Point
    OBVIOUS
  <2> QED
    BY <2>1 DEF Point
<1>2. 1 \in DOMAIN series => series # <<>>
  OBVIOUS
<1>3. DOMAIN index = Minutes(series)
  BY DEF IndexOf
<1>4. u = [series |-> next, index |-> IF valid \/ next = series THEN index ELSE IndexOf(next)]
  BY DEF Upsert
<1>5. CASE m \in Minutes(series)
  <2>1. IsLast(series, m, indexed)
    <3> HIDE DEF m
    <3> QED
      BY <1>3, <1>5, LastIsIndexed
  <2>2. valid /\ i = indexed /\ i \in DOMAIN series /\ series[i].minute = m
    BY <2>1 DEF IsLast
  <2>3. next = [series EXCEPT ![i] = point] /\ next \in Seq(Point)
    BY <1>1, <2>2
  <2> DEFINE x == indexed
  <2>4. x \in DOMAIN series /\ x \in Nat /\ IsLast(series, m, x) /\ x = i
    BY <1>1, <2>1, <2>2
  <2> HIDE DEF indexed, x, i, next, index, valid, exists
  <2>5. /\ DOMAIN next = DOMAIN series /\ next[x] = point
        /\ \A j \in DOMAIN series : j # x => next[j] = series[j]
        /\ \A j \in DOMAIN series : next[j].minute = series[j].minute
    BY <2>2, <2>3, <2>4
  <2>6. IndexOf(next) = index
    BY <2>5, SameIndex DEF index
  <2>7. u.series = next /\ u.index = IndexOf(next)
    BY <1>4, <2>2, <2>6
  <2>8. Paired(next)
    BY <2>5 DEF Paired
  <2>9. \A q, k : IsLast(next, q, k) <=> IsLast(series, q, k)
    BY <2>5 DEF IsLast
  <2>10. next[x] = point /\ IsLast(next, point.minute, x)
    BY <2>4, <2>5, <2>9
  <2>11. \A k : \A q : q # m /\ IsLast(series, q, k) => k \in DOMAIN next /\ next[k] = series[k] /\ IsLast(next, q, k)
    BY <2>4, <2>5, <2>9 DEF IsLast
  <2>12. next[1] = point \/ (series # <<>> /\ next[1] = series[1])
    <3>1. 1 \in DOMAIN series
      BY <1>1, <2>4
    <3>2. CASE x = 1
      <4>1. next[x] = point /\ x \in Nat
        BY <2>4, <2>5
      <4> QED
        BY <3>2, <4>1
    <3>3. CASE x # 1
      BY <1>2, <2>5, <3>1, <3>3
    <3> QED
      BY <3>2, <3>3
  <2>13. /\ \E j \in DOMAIN next : next[j] = point /\ IsLast(next, m, j)
         /\ \A j \in DOMAIN next : next[j] = point \/ \E k \in DOMAIN series : next[j] = series[k]
         /\ \A k : \A q : q # m /\ IsLast(series, q, k) =>
                \E j \in DOMAIN next : next[j] = series[k] /\ IsLast(next, q, j)
    <3>1. x \in DOMAIN next
      BY <2>4, <2>5
    <3>2. \A j \in DOMAIN next : next[j] = point \/ \E k \in DOMAIN series : next[j] = series[k]
      BY <2>5
    <3>3. \A k : \A q : q # m /\ IsLast(series, q, k) =>
                \E j \in DOMAIN next : next[j] = series[k] /\ IsLast(next, q, j)
      BY <2>11
    <3> QED
      BY <2>10, <3>1, <3>2, <3>3
  <2> HIDE DEF m
  <2>14. u.series \in Seq(Point) /\ Paired(u.series) /\ u.index = IndexOf(u.series)
    BY <2>3, <2>7, <2>8
  <2> QED
    BY <2>7, <2>12, <2>13, <2>14 DEF index, m
<1>6. CASE m \notin Minutes(series)
  <2>1. ~valid /\ ~exists
    BY <1>6 DEF Minutes
  <2> DEFINE x == FindInsertIndex(series, m)
  <2>2. x \in 1..(Len(series) + 1) /\ \A j \in DOMAIN series : j < x <=> series[j].minute < m
    <3>1. series \in Seq(Point) /\ Paired(series) /\ m \in Nat
      BY <1>1
    <3> HIDE DEF m, index, indexed, valid, exists, i, next
    <3> QED
      BY <3>1, FindsFirst
  <2>3. i = x /\ next = InsertAt(series, x, point)
    BY <2>1
  <2> HIDE DEF indexed, x, i, next, index, valid, exists
  <2>4. /\ next \in Seq(Point) /\ Len(next) = Len(series) + 1
        /\ \A j \in 1..(Len(series) + 1) :
               next[j] = IF j < x THEN series[j] ELSE IF j = x THEN point ELSE series[j - 1]
    <3>1. next = InsertAt(series, x, point) /\ x \in 1..(Len(series) + 1)
      BY <2>2, <2>3
    <3>2. next \in Seq(Point) /\ Inserted(next, series, x, point)
      BY <3>1, InsertAtLaw
    <3> QED
      BY <3>2 DEF Inserted
  <2>5. /\ DOMAIN next = 1..(Len(series) + 1) /\ next[x] = point /\ x \in DOMAIN next
        /\ \A j \in DOMAIN series : j < x => j \in DOMAIN next /\ next[j] = series[j]
        /\ \A j \in DOMAIN series : j >= x => j + 1 \in DOMAIN next /\ next[j + 1] = series[j]
        /\ \A j \in DOMAIN next : j < x => j \in DOMAIN series /\ next[j] = series[j]
        /\ \A j \in DOMAIN next : j > x => j - 1 \in DOMAIN series /\ next[j] = series[j - 1]
    BY <1>1, <2>2, <2>4
  <2>6. next # series
    BY <1>1, <2>4
  <2>7. u.series = next /\ u.index = IndexOf(next)
    BY <1>4, <2>1, <2>6
  <2>8. \A j \in DOMAIN series : series[j].minute # m
    BY <1>6 DEF Minutes
  <2>9. /\ \A j \in DOMAIN next : j < x => next[j].minute < m
        /\ \A j \in DOMAIN next : j > x => next[j].minute > m
        /\ \A j \in DOMAIN next : next[j].minute \in Nat
    <3>1. x \in Nat /\ \A j \in DOMAIN next : j \in Nat
      BY <1>1, <2>2, <2>5
    <3>2. ASSUME NEW j \in DOMAIN next, j < x PROVE next[j].minute < m
      BY <2>2, <2>5, <3>2
    <3>3. ASSUME NEW j \in DOMAIN next, j > x PROVE next[j].minute > m
      <4>1. j - 1 \in DOMAIN series /\ next[j] = series[j - 1] /\ ~(j - 1 < x)
        BY <2>5, <3>1, <3>3
      <4>2. series[j - 1].minute \in Nat /\ m \in Nat
        BY <1>1, <4>1
      <4>3. series[j - 1].minute # m /\ ~(series[j - 1].minute < m)
        BY <2>2, <2>8, <4>1
      <4> QED
        BY <4>1, <4>2, <4>3
    <3>4. \A j \in DOMAIN next : next[j] \in Point
      BY <2>4
    <3> QED
      BY <3>2, <3>3, <3>4 DEF Point
  <2>10. Paired(next)
    <3> SUFFICES ASSUME NEW a \in DOMAIN next, NEW b \in DOMAIN next, a <= b
                 PROVE  next[a].minute <= next[b].minute
      BY DEF Paired
    <3>1. a \in Nat /\ b \in Nat /\ x \in Nat
      BY <2>2, <2>5
    <3>2. next[x].minute = m
      BY <2>5
    <3>3. CASE a <= x /\ b >= x
      BY <1>1, <2>9, <3>1, <3>2, <3>3
    <3>4. CASE b < x
      BY <2>5, <3>1, <3>4 DEF Paired
    <3>5. CASE a > x
      <4>1. a - 1 \in DOMAIN series /\ b - 1 \in DOMAIN series /\ a - 1 <= b - 1
        BY <2>5, <3>1, <3>5
      <4>2. next[a] = series[a - 1] /\ next[b] = series[b - 1]
        BY <2>5, <3>1, <3>5
      <4> QED
        BY <4>1, <4>2 DEF Paired
    <3> QED
      BY <3>1, <3>3, <3>4, <3>5
  <2>11. IsLast(next, m, x)
    <3>1. \A j \in DOMAIN next : next[j].minute = m => j = x
      BY <1>1, <2>2, <2>5, <2>9
    <3> QED
      BY <2>2, <2>5, <3>1 DEF IsLast
  <2>12. ASSUME NEW k, NEW q, q # m, IsLast(series, q, k)
         PROVE  \E j \in DOMAIN next : next[j] = series[k] /\ IsLast(next, q, j)
    <3>1. k \in DOMAIN series /\ series[k].minute = q /\ \A j \in DOMAIN series : series[j].minute = q => j <= k
      BY <2>12 DEF IsLast
    <3> DEFINE y == IF k < x THEN k ELSE k + 1
    <3>2. y \in DOMAIN next /\ next[y] = series[k]
      BY <1>1, <2>2, <2>5, <3>1
    <3>3. ASSUME NEW j \in DOMAIN next, next[j].minute = q
          PROVE  j <= y
      <4>1. j \in Nat /\ x \in Nat /\ k \in Nat /\ next[x].minute = m
        BY <1>1, <2>2, <2>5, <3>1
      <4>2. CASE j < x
        <5>1. j \in DOMAIN series /\ series[j].minute = q
          BY <2>5, <3>3, <4>2
        <5> QED
          BY <3>1, <4>1, <5>1
      <4>3. CASE j > x
        <5>1. j - 1 \in DOMAIN series /\ series[j - 1].minute = q
          BY <2>5, <3>3, <4>3
        <5>2. j - 1 <= k
          BY <3>1, <5>1
        <5> QED
          BY <4>1, <4>3, <5>2
      <4>4. j # x
        BY <2>12, <3>3, <4>1
      <4> QED
        BY <4>1, <4>2, <4>3, <4>4
    <3>4. next[y].minute = q
      BY <3>1, <3>2
    <3> QED
      BY <3>2, <3>3, <3>4 DEF IsLast
  <2>13. \A j \in DOMAIN next : next[j] = point \/ \E k \in DOMAIN series : next[j] = series[k]
    BY <1>1, <2>2, <2>5
  <2>14. next[1] = point \/ (series # <<>> /\ next[1] = series[1])
    <3>1. 1 \in DOMAIN next
      BY <1>1, <2>5
    <3>2. CASE x = 1
      <4>1. next[x] = point /\ x \in Nat
        BY <2>2, <2>5
      <4> QED
        BY <3>2, <4>1
    <3>3. CASE x # 1
      <4>1. 1 < x
        BY <2>2, <3>3
      <4> QED
        BY <1>2, <2>5, <3>1, <4>1
    <3> QED
      BY <3>2, <3>3
  <2> QED
    BY <2>4, <2>5, <2>7, <2>10, <2>11, <2>12, <2>13, <2>14 DEF index
<1> QED
  BY <1>5, <1>6

-----------------------------------------------------------------------------
(* The rows of an answer, and the series made of them.                     *)

\* The rows of an answer.
RowSet == [at : Nat, minute : Nat, valued : BOOLEAN, high : Nat]

\* The rows picked are the rows of the positions.
LEMMA PickedMembers ==
    ASSUME NEW R, NEW rows \in Seq(R), NEW P \in SUBSET (DOMAIN rows)
    PROVE  LET s == Picked(rows, P)
           IN /\ s \in Seq(R)
              /\ \A i \in DOMAIN s : \E p \in P : s[i] = rows[p]
              /\ \A p \in P : \E i \in DOMAIN s : s[i] = rows[p]
<1> DEFINE n == Cardinality(P)
           order == Ascending(P)
           s == Picked(rows, P)
<1>1. Len(rows) \in Nat /\ DOMAIN rows = 1..Len(rows) /\ \A i \in DOMAIN rows : rows[i] \in R
  OBVIOUS
<1>2. P \subseteq Nat /\ IsFiniteSet(P)
  <2>1. IsFiniteSet(1..Len(rows))
    BY <1>1, FS_Interval
  <2>2. P \in SUBSET (1..Len(rows))
    BY <1>1
  <2>3. IsFiniteSet(P)
    BY <2>1, <2>2, FS_Subset
  <2> QED
    BY <2>2, <2>3
<1>3. /\ n \in Nat
      /\ order \in [1..n -> P]
      /\ \A p \in P : \E i \in 1..n : order[i] = p
  BY <1>2, AscendingInOrder
<1>4. s = [i \in 1..n |-> rows[order[i]]]
  BY DEF Picked
<1> HIDE DEF n, order, s
<1>5. DOMAIN s = 1..n /\ \A i \in 1..n : s[i] = rows[order[i]] /\ order[i] \in P /\ s[i] \in R
  BY <1>1, <1>3, <1>4
<1>6. s \in Seq(R)
  <2>1. s \in [1..n -> R]
    BY <1>4, <1>5
  <2> QED
    BY <1>3, <2>1
<1>7. \A p \in P : \E i \in DOMAIN s : s[i] = rows[p]
  BY <1>3, <1>5
<1> QED
  BY <1>5, <1>6, <1>7 DEF s

\* The sort by minute has the rows it was given, in order.
LEMMA InOrderMembers ==
    ASSUME NEW R, \A r \in R : r.minute \in Nat, NEW rows \in Seq(R)
    PROVE  LET s == InOrder(rows)
           IN /\ s \in Seq(R) /\ DOMAIN s = DOMAIN rows /\ Len(s) = Len(rows)
              /\ Paired(s)
              /\ \A i \in DOMAIN s : \E p \in DOMAIN rows : s[i] = rows[p]
              /\ \A p \in DOMAIN rows : \E i \in DOMAIN s : s[i] = rows[p]
<1> DEFINE D == DOMAIN rows
           n == Cardinality(D)
           before == {p \in D \X D : \/ rows[p[1]].minute < rows[p[2]].minute
                                     \/ rows[p[1]].minute = rows[p[2]].minute /\ p[1] < p[2]}
           order == Sorted(D, before)
           s == InOrder(rows)
<1>1. /\ Len(rows) \in Nat /\ DOMAIN rows = 1..Len(rows)
      /\ \A i \in DOMAIN rows : rows[i] \in R /\ rows[i].minute \in Nat
  <2>1. \A i \in DOMAIN rows : rows[i] \in R
    OBVIOUS
  <2> QED
    BY <2>1
<1>2. IsFiniteSet(D) /\ n = Len(rows)
  <2>1. IsFiniteSet(1..Len(rows)) /\ Cardinality(1..Len(rows)) = Len(rows)
    <3>1. Len(rows) \in Nat
      BY <1>1
    <3>2. ASSUME NEW k \in Nat
          PROVE  IsFiniteSet(1..k) /\ Cardinality(1..k) = k
      BY FS_Interval
    <3> QED
      BY <3>1, <3>2
  <2>2. D = 1..Len(rows)
    BY <1>1
  <2> QED
    BY <2>1, <2>2
<1>3. \A x, y \in D : <<x, y>> \in before <=>
          \/ rows[x].minute < rows[y].minute
          \/ rows[x].minute = rows[y].minute /\ x < y
  OBVIOUS
<1>4. Orders(before, D)
  <2> HIDE DEF before
  <2>1. \A x \in D : <<x, x>> \notin before
    BY <1>1, <1>3
  <2>2. \A x, y, z \in D : <<x, y>> \in before /\ <<y, z>> \in before => <<x, z>> \in before
    <3> SUFFICES ASSUME NEW x \in D, NEW y \in D, NEW z \in D, <<x, y>> \in before, <<y, z>> \in before
                 PROVE  <<x, z>> \in before
      OBVIOUS
    <3> DEFINE a == rows[x].minute b == rows[y].minute c == rows[z].minute
    <3>1. /\ a \in Nat /\ b \in Nat /\ c \in Nat /\ x \in Nat /\ y \in Nat /\ z \in Nat
          /\ a < b \/ (a = b /\ x < y)
          /\ b < c \/ (b = c /\ y < z)
      BY <1>1, <1>3
    <3>2. a < c \/ (a = c /\ x < z)
      <4> HIDE DEF a, b, c, D
      <4> QED
        BY <3>1
    <3> QED
      BY <1>3, <3>2
  <2>3. \A x, y \in D : x = y \/ <<x, y>> \in before \/ <<y, x>> \in before
    <3> SUFFICES ASSUME NEW x \in D, NEW y \in D, x # y
                 PROVE  <<x, y>> \in before \/ <<y, x>> \in before
      OBVIOUS
    <3>1. /\ rows[x].minute \in Nat /\ rows[y].minute \in Nat /\ x \in Nat /\ y \in Nat
      BY <1>1
    <3>2. \/ rows[x].minute < rows[y].minute \/ (rows[x].minute = rows[y].minute /\ x < y)
          \/ rows[y].minute < rows[x].minute \/ (rows[y].minute = rows[x].minute /\ y < x)
      BY <3>1
    <3> QED
      BY <1>3, <3>2
  <2> QED
    BY <2>1, <2>2, <2>3 DEF Orders
<1>5. /\ order \in [1..n -> D]
      /\ \A i, j \in 1..n : i < j => <<order[i], order[j]>> \in before
      /\ \A x \in D : \E i \in 1..n : order[i] = x
  <2> HIDE DEF before, D
  <2> QED
    BY <1>2, <1>4, SortedInOrder
<1>6. s = [i \in D |-> rows[order[i]]]
  BY DEF InOrder
<1>7. D = 1..n
  BY <1>1, <1>2
<1> HIDE DEF n, order, before, s
<1>8. DOMAIN s = D /\ \A i \in D : s[i] = rows[order[i]] /\ order[i] \in D /\ s[i] \in R
  BY <1>1, <1>5, <1>6, <1>7
<1>9. s \in Seq(R)
  <2>1. s \in [1..Len(rows) -> R]
    BY <1>1, <1>6, <1>8
  <2> QED
    BY <1>1, <2>1
<1>10. Paired(s)
  <2> SUFFICES ASSUME NEW i \in D, NEW j \in D, i <= j
               PROVE  s[i].minute <= s[j].minute
    BY <1>8 DEF Paired
  <2>1. s[i].minute = rows[order[i]].minute /\ s[j].minute = rows[order[j]].minute
    BY <1>8
  <2>2. rows[order[i]].minute \in Nat /\ rows[order[j]].minute \in Nat
    BY <1>1, <1>8
  <2>3. CASE i = j
    BY <2>2, <2>1, <2>3
  <2>4. CASE i < j
    <3>1. <<order[i], order[j]>> \in before /\ order[i] \in D /\ order[j] \in D
      BY <1>5, <1>7, <1>8, <2>4
    <3>2. rows[order[i]].minute < rows[order[j]].minute \/ rows[order[i]].minute = rows[order[j]].minute
      BY <1>3, <3>1
    <3> QED
      BY <2>1, <2>2, <3>2
  <2> QED
    BY <1>1, <2>3, <2>4
<1>11. \A p \in D : \E i \in D : s[i] = rows[p]
  <2> SUFFICES ASSUME NEW p \in D PROVE \E i \in D : s[i] = rows[p]
    OBVIOUS
  <2>1. PICK i \in 1..n : order[i] = p
    BY <1>5
  <2>2. i \in D /\ s[i] = rows[p]
    BY <1>7, <1>8, <2>1
  <2> QED
    BY <2>2
<1>12. Len(s) = Len(rows)
  BY <1>1, <1>8, <1>9
<1> QED
  BY <1>8, <1>9, <1>10, <1>11, <1>12 DEF s

\* A series in order, of the rows at some positions.
MadeOf(series, rows, positions) ==
    /\ series \in Seq(Point) /\ Paired(series)
    /\ \A i \in DOMAIN series : \E p \in positions :
           series[i].minute = rows[p].minute /\ series[i].value = rows[p].at

\* The points of rows in order.
LEMMA PointsLaw ==
    ASSUME NEW rows \in Seq(RowSet), Paired(rows), NEW extra \in Nat
    PROVE  LET s == Points(rows, extra)
           IN /\ s \in Seq(Point) /\ Paired(s) /\ DOMAIN s = DOMAIN rows
              /\ \A i \in DOMAIN rows : /\ s[i].minute = rows[i].minute
                                        /\ s[i].value = rows[i].at /\ s[i].extra = extra
<1> DEFINE s == Points(rows, extra)
<1>1. /\ Len(rows) \in Nat /\ DOMAIN rows = 1..Len(rows)
      /\ \A i \in DOMAIN rows : rows[i].minute \in Nat /\ rows[i].at \in Nat
  <2>1. \A i \in DOMAIN rows : rows[i] \in RowSet
    OBVIOUS
  <2> QED
    BY <2>1 DEF RowSet
<1>2. s = [i \in DOMAIN rows |->
              [minute |-> rows[i].minute, value |-> rows[i].at, extra |-> extra]]
  BY DEF Points
<1> HIDE DEF s
<1>3. DOMAIN s = DOMAIN rows /\ \A i \in DOMAIN rows :
          /\ s[i].minute = rows[i].minute /\ s[i].value = rows[i].at /\ s[i].extra = extra
          /\ s[i] \in Point
  BY <1>1, <1>2 DEF Point
<1>4. s \in Seq(Point)
  <2>1. s \in [1..Len(rows) -> Point]
    BY <1>1, <1>2, <1>3
  <2> QED
    BY <1>1, <2>1
<1>5. Paired(s)
  BY <1>3 DEF Paired
<1> QED
  BY <1>3, <1>4, <1>5 DEF s

\* The valued rows are those that are valued.
LEMMA ValuedMembers ==
    ASSUME NEW rows \in Seq(RowSet)
    PROVE  LET s == Valued(rows)
           IN /\ s \in Seq(RowSet)
              /\ \A i \in DOMAIN s : \E p \in DOMAIN rows : s[i] = rows[p] /\ rows[p].valued
              /\ \A p \in DOMAIN rows : rows[p].valued => \E i \in DOMAIN s : s[i] = rows[p]
<1> DEFINE P == {i \in DOMAIN rows : rows[i].valued}
<1>1. P \in SUBSET (DOMAIN rows)
  OBVIOUS
<1>2. \A p : p \in P <=> p \in DOMAIN rows /\ rows[p].valued
  OBVIOUS
<1>3. Valued(rows) = Picked(rows, P)
  BY DEF Valued
<1> HIDE DEF P
<1>4. LET s == Picked(rows, P)
      IN /\ s \in Seq(RowSet)
         /\ \A i \in DOMAIN s : \E p \in P : s[i] = rows[p]
         /\ \A p \in P : \E i \in DOMAIN s : s[i] = rows[p]
  BY <1>1, PickedMembers
<1> QED
  BY <1>2, <1>3, <1>4

\* A row has a minute.
LEMMA RowsHaveMinutes ==
    \A r \in RowSet : r.minute \in Nat
BY DEF RowSet

\* The rows at some positions, in order.
LEMMA PickedInOrder ==
    ASSUME NEW rows \in Seq(RowSet), NEW P \in SUBSET (DOMAIN rows)
    PROVE  LET s == InOrder(Picked(rows, P))
           IN /\ s \in Seq(RowSet) /\ Paired(s)
              /\ \A i \in DOMAIN s : \E p \in P : s[i] = rows[p]
              /\ \A p \in P : \E i \in DOMAIN s : s[i] = rows[p]
<1> DEFINE t == Picked(rows, P)
<1>1. /\ t \in Seq(RowSet)
      /\ \A i \in DOMAIN t : \E p \in P : t[i] = rows[p]
      /\ \A p \in P : \E i \in DOMAIN t : t[i] = rows[p]
  BY PickedMembers
<1> HIDE DEF t
<1>2. LET s == InOrder(t)
      IN /\ s \in Seq(RowSet) /\ Paired(s)
         /\ \A i \in DOMAIN s : \E p \in DOMAIN t : s[i] = t[p]
         /\ \A p \in DOMAIN t : \E i \in DOMAIN s : s[i] = t[p]
  BY <1>1, InOrderMembers, RowsHaveMinutes
<1> DEFINE s == InOrder(t)
<1>3. /\ s \in Seq(RowSet) /\ Paired(s)
      /\ \A i \in DOMAIN s : \E p \in DOMAIN t : s[i] = t[p]
      /\ \A p \in DOMAIN t : \E i \in DOMAIN s : s[i] = t[p]
  BY <1>2
<1> HIDE DEF s
<1>4. \A i \in DOMAIN s : \E p \in P : s[i] = rows[p]
  BY <1>1, <1>3
<1>5. \A p \in P : \E i \in DOMAIN s : s[i] = rows[p]
  <2> SUFFICES ASSUME NEW p \in P PROVE \E i \in DOMAIN s : s[i] = rows[p]
    OBVIOUS
  <2>1. PICK k \in DOMAIN t : t[k] = rows[p]
    BY <1>1
  <2>2. PICK i \in DOMAIN s : s[i] = t[k]
    BY <1>3
  <2> QED
    BY <2>1, <2>2
<1> QED
  BY <1>3, <1>4, <1>5 DEF s, t

\* The baseline of the price is made of all the rows.
LEMMA KbarMadeOf ==
    ASSUME NEW rows \in Seq(RowSet)
    PROVE  MadeOf(KbarBaseline(rows), rows, DOMAIN rows)
<1> DEFINE t == InOrder(rows)
<1>1. /\ t \in Seq(RowSet) /\ Paired(t)
      /\ \A i \in DOMAIN t : \E p \in DOMAIN rows : t[i] = rows[p]
  BY InOrderMembers, RowsHaveMinutes
<1> HIDE DEF t
<1> DEFINE s == Points(t, 0)
<1>2. /\ s \in Seq(Point) /\ Paired(s) /\ DOMAIN s = DOMAIN t
      /\ \A i \in DOMAIN t : s[i].minute = t[i].minute /\ s[i].value = t[i].at
  BY <1>1, PointsLaw
<1>3. s = KbarBaseline(rows)
  BY DEF KbarBaseline, t
<1> HIDE DEF s
<1>4. \A i \in DOMAIN s : \E p \in DOMAIN rows :
           s[i].minute = rows[p].minute /\ s[i].value = rows[p].at
  <2> SUFFICES ASSUME NEW i \in DOMAIN s
               PROVE  \E p \in DOMAIN rows : s[i].minute = rows[p].minute /\ s[i].value = rows[p].at
    OBVIOUS
  <2>1. PICK p \in DOMAIN rows : t[i] = rows[p]
    BY <1>1, <1>2
  <2> QED
    BY <1>2, <2>1
<1> QED
  BY <1>2, <1>3, <1>4 DEF MadeOf

\* A baseline of one valued row for each minute.
LEMMA ValuedMadeOf ==
    ASSUME NEW rows \in Seq(RowSet), NEW P \in SUBSET (DOMAIN Valued(rows)), NEW extra \in Nat
    PROVE  LET s == Points(InOrder(Picked(Valued(rows), P)), extra)
           IN /\ MadeOf(s, rows, {p \in DOMAIN rows : rows[p].valued})
              /\ \A i \in DOMAIN s : s[i].extra = extra
<1> DEFINE v == Valued(rows)
           t == InOrder(Picked(v, P))
           s == Points(t, extra)
           V == {p \in DOMAIN rows : rows[p].valued}
<1>1. /\ v \in Seq(RowSet)
      /\ \A i \in DOMAIN v : \E p \in DOMAIN rows : v[i] = rows[p] /\ rows[p].valued
  BY ValuedMembers
<1>2. \A i \in DOMAIN v : \E p \in V : v[i] = rows[p]
  BY <1>1
<1> HIDE DEF v, V
<1>3. P \in SUBSET (DOMAIN v)
  BY DEF v
<1>4. /\ t \in Seq(RowSet) /\ Paired(t)
      /\ \A i \in DOMAIN t : \E p \in P : t[i] = v[p]
  BY <1>1, <1>3, PickedInOrder
<1> HIDE DEF t
<1>5. /\ s \in Seq(Point) /\ Paired(s) /\ DOMAIN s = DOMAIN t
      /\ \A i \in DOMAIN t : s[i].minute = t[i].minute /\ s[i].value = t[i].at /\ s[i].extra = extra
  BY <1>4, PointsLaw
<1> HIDE DEF s
<1>6. \A i \in DOMAIN s : \E p \in V : s[i].minute = rows[p].minute /\ s[i].value = rows[p].at
  <2> SUFFICES ASSUME NEW i \in DOMAIN s
               PROVE  \E p \in V : s[i].minute = rows[p].minute /\ s[i].value = rows[p].at
    OBVIOUS
  <2>1. PICK k \in P : t[i] = v[k]
    BY <1>4, <1>5
  <2>2. PICK p \in V : v[k] = rows[p]
    BY <1>2, <1>3
  <2> QED
    BY <1>5, <2>1, <2>2
<1>7. MadeOf(s, rows, V) /\ \A i \in DOMAIN s : s[i].extra = extra
  BY <1>5, <1>6 DEF MadeOf
<1> QED
  BY <1>7 DEF s, t, v, V

\* The baseline of the metric is made of valued rows.
LEMMA MetricMadeOf ==
    ASSUME NEW rows \in Seq(RowSet)
    PROVE  MadeOf(MetricBaseline(rows), rows, {p \in DOMAIN rows : rows[p].valued})
<1> DEFINE v == Valued(rows)
           P == {i \in DOMAIN v : \A j \in DOMAIN v : v[j].minute = v[i].minute => v[j].at <= v[i].at}
<1>1. P \in SUBSET (DOMAIN v)
  OBVIOUS
<1>2. MetricBaseline(rows) = Points(InOrder(Picked(v, P)), 0)
  BY DEF MetricBaseline, LatestOfMinute
<1> HIDE DEF P
<1> QED
  BY <1>1, <1>2, ValuedMadeOf

\* So is a baseline of the last row of each minute.
LEMMA LastMadeOf ==
    ASSUME NEW rows \in Seq(RowSet), NEW extra \in Nat
    PROVE  LET s == Points(LastOfMinute(Valued(rows)), extra)
           IN /\ MadeOf(s, rows, {p \in DOMAIN rows : rows[p].valued})
              /\ \A i \in DOMAIN s : s[i].extra = extra
<1> DEFINE v == Valued(rows)
           P == {i \in DOMAIN v : \A j \in DOMAIN v : v[j].minute = v[i].minute => j <= i}
<1>1. P \in SUBSET (DOMAIN v)
  OBVIOUS
<1>2. LastOfMinute(v) = InOrder(Picked(v, P))
  BY DEF LastOfMinute
<1> HIDE DEF P
<1> DEFINE s == Points(InOrder(Picked(v, P)), extra)
<1>3. /\ MadeOf(s, rows, {p \in DOMAIN rows : rows[p].valued})
      /\ \A i \in DOMAIN s : s[i].extra = extra
  BY <1>1, ValuedMadeOf
<1>4. s = Points(LastOfMinute(Valued(rows)), extra)
  BY <1>2
<1> HIDE DEF s
<1> QED
  BY <1>3, <1>4

\* The OTC baseline begins with the first minute, and its changes are from there.
LEMMA OtcMadeOf ==
    ASSUME NEW rows \in Seq(RowSet)
    PROVE  LET s == OtcBaseline(rows)
           IN /\ MadeOf(s, rows, {p \in DOMAIN rows : rows[p].valued})
              /\ \A i \in DOMAIN s : s[i].extra = s[1].value
              /\ \A p \in DOMAIN rows : rows[p].valued =>
                     s # <<>> /\ s[1].minute <= rows[p].minute
<1> DEFINE v == Valued(rows)
           t == InOrder(v)
           s == OtcBaseline(rows)
           V == {p \in DOMAIN rows : rows[p].valued}
<1>1. /\ v \in Seq(RowSet)
      /\ \A i \in DOMAIN v : \E p \in DOMAIN rows : v[i] = rows[p] /\ rows[p].valued
      /\ \A p \in DOMAIN rows : rows[p].valued => \E i \in DOMAIN v : v[i] = rows[p]
  BY ValuedMembers
<1>2. s = IF t = <<>> THEN <<>> ELSE Points(t, t[1].at)
  BY DEF OtcBaseline
<1> HIDE DEF v
<1>3. /\ t \in Seq(RowSet) /\ Paired(t)
      /\ \A i \in DOMAIN t : \E p \in DOMAIN v : t[i] = v[p]
      /\ \A p \in DOMAIN v : \E i \in DOMAIN t : t[i] = v[p]
  <2>1. v \in Seq(RowSet)
    BY <1>1
  <2> QED
    BY <2>1, InOrderMembers, RowsHaveMinutes
<1> HIDE DEF t, s
<1>4. \A i \in DOMAIN t : \E p \in V : t[i] = rows[p]
  <2> SUFFICES ASSUME NEW i \in DOMAIN t PROVE \E p \in DOMAIN rows : rows[p].valued /\ t[i] = rows[p]
    OBVIOUS
  <2>1. PICK k \in DOMAIN v : t[i] = v[k]
    BY <1>3
  <2> QED
    BY <1>1, <2>1
<1>5. \A p \in DOMAIN rows : rows[p].valued => \E i \in DOMAIN t : t[i] = rows[p]
  <2> SUFFICES ASSUME NEW p \in DOMAIN rows, rows[p].valued PROVE \E i \in DOMAIN t : t[i] = rows[p]
    OBVIOUS
  <2>1. PICK k \in DOMAIN v : v[k] = rows[p]
    BY <1>1
  <2> QED
    BY <1>3, <2>1
<1> HIDE DEF V
<1>6. CASE t = <<>>
  <2>1. s = <<>> /\ s \in Seq(Point) /\ DOMAIN s = {}
    BY <1>2, <1>6
  <2>2. MadeOf(s, rows, V)
    BY <2>1 DEF MadeOf, Paired
  <2>3. DOMAIN t = {}
    BY <1>6
  <2>4. \A p \in DOMAIN rows : ~rows[p].valued
    BY <1>5, <2>3
  <2> QED
    BY <2>1, <2>2, <2>4 DEF s, V
<1>7. CASE t # <<>>
  <2>1. 1 \in DOMAIN t /\ \A i \in DOMAIN t : i \in Nat /\ 1 <= i
    BY <1>3, <1>7
  <2>2. t[1] \in RowSet
    BY <1>3, <2>1
  <2>3. t[1].at \in Nat
    BY <2>2 DEF RowSet
  <2>4. /\ s \in Seq(Point) /\ Paired(s) /\ DOMAIN s = DOMAIN t
        /\ \A i \in DOMAIN t : s[i].minute = t[i].minute /\ s[i].value = t[i].at /\ s[i].extra = t[1].at
    <3>1. s = Points(t, t[1].at)
      BY <1>2, <1>7
    <3>2. t \in Seq(RowSet) /\ Paired(t)
      BY <1>3
    <3> QED
      BY <2>3, <3>1, <3>2, PointsLaw
  <2>5. \A i \in DOMAIN s : \E p \in V : s[i].minute = rows[p].minute /\ s[i].value = rows[p].at
    <3> SUFFICES ASSUME NEW i \in DOMAIN s
                 PROVE  \E p \in V : s[i].minute = rows[p].minute /\ s[i].value = rows[p].at
      OBVIOUS
    <3>1. PICK p \in V : t[i] = rows[p]
      BY <1>4, <2>4
    <3> QED
      BY <2>4, <3>1
  <2>6. MadeOf(s, rows, V)
    BY <2>4, <2>5 DEF MadeOf
  <2>7. \A i \in DOMAIN s : s[i].extra = s[1].value
    BY <2>1, <2>4
  <2>8. ASSUME NEW p \in DOMAIN rows, rows[p].valued
        PROVE  s # <<>> /\ s[1].minute <= rows[p].minute
    <3>1. PICK i \in DOMAIN t : t[i] = rows[p]
      BY <1>5, <2>8
    <3>2. t[1].minute <= t[i].minute
      BY <1>3, <2>1 DEF Paired
    <3>3. s # <<>>
      BY <2>1, <2>4
    <3> QED
      BY <2>1, <2>4, <3>1, <3>2, <3>3
  <2> QED
    BY <2>6, <2>7, <2>8 DEF s, V
<1> QED
  BY <1>6, <1>7

\* The candle of today closes with a row, and is as high as the highest.
LEMMA TodayMadeOf ==
    ASSUME NEW rows \in Seq(RowSet)
    PROVE  /\ rows = <<>> => TodayCandle(rows) = <<>>
           /\ rows # <<>> =>
                  \E p, q \in DOMAIN rows :
                      TodayCandle(rows) = <<[minute |-> 1, value |-> rows[p].at, extra |-> rows[q].high]>>
<1>1. CASE rows = <<>>
  BY <1>1 DEF TodayCandle
<1>2. CASE rows # <<>>
  <2> DEFINE t == InOrder(rows)
             H == {t[i].high : i \in DOMAIN t}
  <2>1. /\ t \in Seq(RowSet) /\ Len(t) = Len(rows)
        /\ \A i \in DOMAIN t : \E p \in DOMAIN rows : t[i] = rows[p]
    BY InOrderMembers, RowsHaveMinutes
  <2>2. TodayCandle(rows) = <<[minute |-> 1, value |-> Last(t).at, extra |-> Max(H)]>>
    BY <1>2 DEF TodayCandle
  <2> HIDE DEF t
  <2>3. /\ Len(t) \in Nat /\ Len(t) \in DOMAIN t /\ DOMAIN t = 1..Len(t)
        /\ \A i \in DOMAIN t : t[i] \in RowSet
    BY <1>2, <2>1
  <2>4. PICK p \in DOMAIN rows : Last(t) = rows[p]
    BY <2>1, <2>3 DEF Last
  <2>5. IsFiniteSet(H) /\ H # {} /\ H \subseteq Nat
    <3>1. IsFiniteSet(DOMAIN t)
      BY <2>3, FS_Interval
    <3> DEFINE f == [i \in DOMAIN t |-> t[i].high]
    <3>2. IsFiniteSet({f[i] : i \in DOMAIN t})
      <4> HIDE DEF f
      <4> QED
        BY <3>1, ImageFinite
    <3>3. H = {f[i] : i \in DOMAIN t}
      OBVIOUS
    <3>4. \A i \in DOMAIN t : t[i].high \in Nat
      BY <2>3 DEF RowSet
    <3>5. H # {} /\ H \subseteq Nat
      BY <2>3, <3>4
    <3> QED
      BY <3>2, <3>3, <3>5
  <2>6. Max(H) \in H
    <3> HIDE DEF H
    <3> QED
      BY <2>5, MaxIsGreatest
  <2>7. PICK i \in DOMAIN t : Max(H) = t[i].high
    <3> DEFINE x == Max(H)
    <3>1. x \in H
      BY <2>6
    <3> HIDE DEF x
    <3>2. \E i \in DOMAIN t : x = t[i].high
      BY <3>1
    <3> QED
      BY <3>2 DEF x
  <2>8. PICK q \in DOMAIN rows : t[i] = rows[q]
    BY <2>1
  <2> QED
    BY <1>2, <2>2, <2>4, <2>7, <2>8
<1> QED
  BY <1>1, <1>2

-----------------------------------------------------------------------------
(* What is drawn of a series, and of two.                                  *)

\* The quotient and the remainder.
LEMMA Division ==
    ASSUME NEW a \in Nat, NEW b \in Nat \ {0}
    PROVE  a \div b \in Nat /\ b * (a \div b) <= a /\ a < b * (a \div b) + b
BY Z3

\* A product grows with its factors.
LEMMA Products ==
    ASSUME NEW a \in Nat, NEW b \in Nat, NEW c \in Nat, a <= b
    PROVE  c * a <= c * b /\ a * c <= b * c
BY Z3

\* The series that is drawn begins and ends where the series does, and is short enough.
LEMMA DrawnLaw ==
    ASSUME NEW series \in Seq(Point), series # <<>>, NEW most \in Nat \ {0}
    PROVE  LET drawn == Drawn(series, most)
           IN /\ Len(drawn) <= most + 1
              /\ drawn[1] = series[1]
              /\ drawn[Len(drawn)].minute = series[Len(series)].minute
<1> DEFINE drawn == Drawn(series, most)
           L == Len(series)
           step == (L + most - 1) \div most
           n == (L - 1) \div step + 1
           every == [i \in 1..n |-> series[(i - 1) * step + 1]]
<1>1. L \in Nat /\ L >= 1 /\ DOMAIN series = 1..L /\ \A i \in 1..L : series[i] \in Point
  OBVIOUS
<1>2. CASE L <= most
  BY <1>1, <1>2 DEF Drawn
<1>3. CASE L > most
  <2>1. drawn = IF Last(every).minute = Last(series).minute THEN every ELSE Append(every, Last(series))
    BY <1>1, <1>3 DEF Drawn
  <2>2. step \in Nat /\ L + most - 1 < most * step + most
    <3>1. L + most - 1 \in Nat
      BY <1>1
    <3> HIDE DEF L
    <3> QED
      BY <3>1, Division
  <2> HIDE DEF step
  <2>3. L <= most * step /\ step >= 1
    <3>1. most * step \in Nat
      BY <2>2
    <3>2. L <= most * step
      BY <1>1, <2>2, <3>1
    <3>3. step = 0 => most * step = 0
      BY <2>2
    <3> QED
      BY <1>1, <2>2, <3>1, <3>2, <3>3
  <2> DEFINE q == (L - 1) \div step
  <2>4. q \in Nat /\ step * q <= L - 1
    <3>1. L - 1 \in Nat /\ step \in Nat \ {0}
      BY <1>1, <2>2, <2>3
    <3> HIDE DEF L
    <3> QED
      BY <3>1, Division
  <2> HIDE DEF q
  <2>5. n = q + 1
    BY DEF q
  <2>6. q < most
    <3>1. most <= q => step * most <= step * q
      BY <2>2, <2>4, Products
    <3>2. step * most = most * step /\ step * most \in Nat /\ step * q \in Nat
      BY <2>2, <2>4
    <3> QED
      BY <1>1, <2>3, <2>4, <3>1, <3>2
  <2> HIDE DEF n, L
  <2>7. n \in Nat /\ 1 <= n /\ n <= most
    BY <2>4, <2>5, <2>6
  <2>8. ASSUME NEW i \in 1..n
        PROVE  (i - 1) * step + 1 \in 1..L
    <3>1. i - 1 \in Nat /\ i - 1 <= q
      BY <2>5, <2>7, <2>4
    <3>2. (i - 1) * step <= q * step
      BY <2>2, <2>4, <3>1, Products
    <3>3. (i - 1) * step \in Nat /\ q * step = step * q /\ q * step \in Nat
      BY <2>2, <2>4, <3>1
    <3> QED
      BY <1>1, <2>4, <3>2, <3>3
  <2>9. /\ DOMAIN every = 1..n /\ every \in Seq(Point) /\ Len(every) = n
        /\ every[1] = series[1]
    <3>1. \A i \in 1..n : every[i] \in Point
      BY <1>1, <2>8
    <3>2. every \in [1..n -> Point]
      BY <3>1
    <3>3. every \in Seq(Point) /\ Len(every) = n
      <4> HIDE DEF every
      <4> QED
        BY <2>7, <3>2
    <3>4. (1 - 1) * step + 1 = 1
      BY <2>2
    <3>5. every[1] = series[(1 - 1) * step + 1]
      BY <2>7
    <3> QED
      BY <3>3, <3>4, <3>5
  <2> HIDE DEF every
  <2>10. Last(every) = every[n] /\ Last(series) = series[L] /\ series[L] \in Point
    BY <1>1, <2>9 DEF Last, L
  <2>11. CASE Last(every).minute = Last(series).minute
    BY <2>1, <2>7, <2>9, <2>10, <2>11 DEF L
  <2>12. CASE Last(every).minute # Last(series).minute
    <3>1. drawn = Append(every, series[L])
      BY <2>1, <2>10, <2>12
    <3>2. Len(drawn) = n + 1 /\ drawn[n + 1] = series[L] /\ drawn[1] = every[1]
      BY <2>7, <2>9, <2>10, <3>1
    <3> QED
      BY <2>7, <2>9, <3>2 DEF L
  <2> QED
    BY <2>11, <2>12
<1> QED
  BY <1>1, <1>2, <1>3

\* The overlay carries the last quote of a minute of the prices.
LEMMA OverlayLaw ==
    ASSUME NEW prices, IsFiniteSet(DOMAIN prices), DOMAIN prices \subseteq Nat,
           NEW chips, NEW quotes
    PROVE  LET ticks == OrderFlow(prices, chips)
           IN \A i \in DOMAIN ticks :
                  LET known == {m \in DOMAIN prices \cap DOMAIN quotes : m <= ticks[i].minute}
                  IN Overlay(ticks, quotes)[i].extra = IF known = {} THEN 0 ELSE quotes[Max(known)]
<1> DEFINE D == DOMAIN prices
           Q == DOMAIN quotes
           minutes == Ascending(D)
           n == Cardinality(D)
           ticks == OrderFlow(prices, chips)
           Known(i) == {m \in D \cap Q : m <= minutes[i]}
           Carried(i) == IF Known(i) = {} THEN 0 ELSE quotes[Max(Known(i))]
           Step(carried) ==
               [i \in 0..n |-> IF i = 0 THEN 0 ELSE At(quotes, ticks[i].minute, carried[i - 1])]
           g == CHOOSE carried : carried = Step(carried)
           f == [i \in 0..n |-> IF i = 0 THEN 0 ELSE Carried(i)]
<1>1. /\ n \in Nat
      /\ minutes \in [1..n -> D]
      /\ \A i, j \in 1..n : i < j => minutes[i] < minutes[j]
      /\ \A x \in D : \E i \in 1..n : minutes[i] = x
  BY AscendingInOrder
<1>2. \A i \in 1..n : minutes[i] \in D /\ minutes[i] \in Nat
  BY <1>1
<1>3. /\ DOMAIN ticks = 1..n /\ Len(ticks) = n
      /\ \A i \in 1..n : ticks[i].minute = minutes[i]
  <2>1. ticks = [i \in 1..n |->
           [minute |-> minutes[i], value |-> prices[minutes[i]], extra |-> At(chips, minutes[i], 0)]]
    <3>1. DOMAIN minutes = 1..n
      BY <1>1
    <3> HIDE DEF minutes, n, D
    <3> QED
      BY <3>1 DEF OrderFlow, minutes, D
  <2> HIDE DEF ticks, minutes, n
  <2>2. DOMAIN ticks = 1..n /\ \A i \in 1..n : ticks[i].minute = minutes[i]
    BY <2>1
  <2> DEFINE S == {ticks[i] : i \in 1..n}
  <2>3. ticks \in [1..n -> S]
    BY <2>1, <2>2
  <2>4. ticks \in Seq(S) /\ Len(ticks) = n
    <3> HIDE DEF S
    <3> QED
      BY <1>1, <2>3
  <2> QED
    BY <2>2, <2>4
<1> HIDE DEF ticks, minutes, n
<1>4. ASSUME NEW i \in 1..n
      PROVE  Carried(i) = IF minutes[i] \in Q THEN quotes[minutes[i]]
                          ELSE IF i = 1 THEN 0 ELSE Carried(i - 1)
  <2>1. minutes[i] \in D /\ minutes[i] \in Nat
    BY <1>2
  <2>2. CASE minutes[i] \in Q
    <3> DEFINE K == Known(i) m == minutes[i]
    <3>1. m \in K /\ K \subseteq Nat /\ K \in SUBSET D /\ \A x \in K : x <= m
      BY <2>1, <2>2
    <3> HIDE DEF K, m
    <3>2. Max(K) \in K /\ \A x \in K : x <= Max(K)
      <4>1. IsFiniteSet(K)
        BY <3>1, FS_Subset
      <4>2. K # {}
        BY <3>1
      <4> QED
        BY <3>1, <4>1, <4>2, MaxIsGreatest
    <3>3. Max(K) = m
      <4>1. Max(K) \in Nat /\ m \in Nat /\ Max(K) <= m /\ m <= Max(K)
        BY <3>1, <3>2
      <4> QED
        BY <4>1
    <3>4. K # {}
      BY <3>1
    <3> QED
      BY <2>2, <3>3, <3>4 DEF K, m
  <2>3. CASE minutes[i] \notin Q
    <3>1. ASSUME i = 1
          PROVE  Known(i) = {}
      <4>1. ASSUME NEW x \in Known(i)
            PROVE  FALSE
        <5>1. x \in D /\ x \in Q /\ x <= minutes[i] /\ x \in Nat
          OBVIOUS
        <5>2. PICK j \in 1..n : minutes[j] = x
          BY <1>1, <5>1
        <5>3. j # i
          BY <2>3, <5>1, <5>2
        <5>4. i < j
          BY <1>1, <3>1, <5>3
        <5>5. minutes[i] < x
          BY <1>1, <5>2, <5>4
        <5> QED
          BY <2>1, <5>1, <5>5
      <4> QED
        BY <4>1
    <3>2. ASSUME i # 1
          PROVE  i - 1 \in 1..n /\ Known(i) = Known(i - 1)
      <4>1. i - 1 \in 1..n /\ i - 1 < i
        BY <1>1, <3>2
      <4>2. minutes[i - 1] < minutes[i] /\ minutes[i - 1] \in Nat
        BY <1>1, <1>2, <4>1
      <4>3. ASSUME NEW x \in D \cap Q, x <= minutes[i]
            PROVE  x <= minutes[i - 1]
        <5>1. PICK j \in 1..n : minutes[j] = x
          BY <1>1
        <5>2. j # i /\ x \in Nat
          BY <2>3, <5>1
        <5>3. ~(i < j)
          <6>1. i < j => minutes[i] < minutes[j]
            BY <1>1
          <6> QED
            BY <2>1, <4>3, <5>1, <5>2, <6>1
        <5>4. j = i - 1 \/ j < i - 1
          BY <1>1, <5>2, <5>3
        <5>5. j < i - 1 => minutes[j] < minutes[i - 1]
          BY <1>1, <4>1
        <5> QED
          BY <4>2, <5>1, <5>2, <5>4, <5>5
      <4>4. \A x \in D \cap Q : x <= minutes[i] <=> x <= minutes[i - 1]
        <5>1. \A x \in D \cap Q : x \in Nat
          OBVIOUS
        <5> HIDE DEF D, Q
        <5> QED
          BY <2>1, <4>2, <4>3, <5>1
      <4> HIDE DEF D, Q
      <4> QED
        BY <4>1, <4>4
    <3>3. CASE i = 1
      BY <2>3, <3>1, <3>3
    <3>4. CASE i # 1
      BY <2>3, <3>2, <3>4
    <3> QED
      BY <3>3, <3>4
  <2> QED
    BY <2>2, <2>3
<1> HIDE DEF Carried
<1>5. f = Step(f)
  <2>1. ASSUME NEW i \in 0..n
        PROVE  f[i] = IF i = 0 THEN 0 ELSE At(quotes, ticks[i].minute, f[i - 1])
    <3>1. CASE i = 0
      BY <3>1
    <3>2. CASE i # 0
      <4>1. i \in 1..n /\ i - 1 \in 0..n /\ i \in Nat
        BY <1>1, <3>2
      <4>2. f[i] = Carried(i) /\ f[i - 1] = IF i = 1 THEN 0 ELSE Carried(i - 1)
        BY <4>1, <3>2
      <4>3. ticks[i].minute = minutes[i]
        BY <1>3, <4>1
      <4> HIDE DEF f
      <4> QED
        BY <1>4, <3>2, <4>1, <4>2, <4>3 DEF At
    <3> QED
      BY <3>1, <3>2
  <2>2. f = [i \in 0..n |-> f[i]]
    OBVIOUS
  <2> HIDE DEF f
  <2> QED
    BY <2>1, <2>2
<1>6. g = Step(g)
  <2> HIDE DEF f, Step
  <2> QED
    BY <1>5
<1>7. DOMAIN g = 0..n /\ \A i \in 0..n : g[i] = IF i = 0 THEN 0 ELSE At(quotes, ticks[i].minute, g[i - 1])
  <2> HIDE DEF g
  <2> QED
    BY <1>6
<1>8. DOMAIN f = 0..n /\ \A i \in 0..n : f[i] = IF i = 0 THEN 0 ELSE At(quotes, ticks[i].minute, f[i - 1])
  <2> HIDE DEF f
  <2> QED
    BY <1>5
<1> HIDE DEF g
<1>9. \A i \in 1..n : g[i] = Carried(i)
  <2> DEFINE Same == {i \in Nat : i \in 0..n => g[i] = f[i]}
  <2> HIDE DEF f
  <2>1. 0 \in Same
    BY <1>7, <1>8
  <2>2. ASSUME NEW i \in Nat, i \in Same
        PROVE  i + 1 \in Same
    <3> SUFFICES ASSUME i + 1 \in 0..n PROVE g[i + 1] = f[i + 1]
      OBVIOUS
    <3>1. i \in 0..n /\ i + 1 # 0 /\ (i + 1) - 1 = i
      BY <1>1
    <3>2. g[i] = f[i]
      BY <2>2, <3>1
    <3>3. g[i + 1] = At(quotes, ticks[i + 1].minute, g[i])
      BY <1>7, <3>1
    <3>4. f[i + 1] = At(quotes, ticks[i + 1].minute, f[i])
      BY <1>8, <3>1
    <3> QED
      BY <3>2, <3>3, <3>4
  <2> HIDE DEF Same
  <2>3. Nat \subseteq Same
    BY <2>1, <2>2, Induction
  <2>4. ASSUME NEW i \in 1..n
        PROVE  g[i] = Carried(i)
    <3>1. i \in Nat /\ i \in 0..n /\ i # 0
      BY <1>1
    <3>2. i \in Same
      BY <2>3, <3>1
    <3>3. g[i] = f[i]
      BY <3>1, <3>2 DEF Same
    <3> QED
      BY <3>1, <3>3 DEF f
  <2> QED
    BY <2>4
<1>10. \A i \in DOMAIN ticks : Overlay(ticks, quotes)[i] = [ticks[i] EXCEPT !.extra = g[i]]
  BY <1>3 DEF Overlay, g
<1>11. \A i \in DOMAIN ticks : ticks[i] = [minute |-> minutes[i], value |-> prices[minutes[i]], extra |-> At(chips, minutes[i], 0)]
  BY <1>3 DEF OrderFlow, ticks, minutes
<1>12. \A i \in DOMAIN ticks : Overlay(ticks, quotes)[i].extra = g[i]
  <2> SUFFICES ASSUME NEW i \in DOMAIN ticks PROVE Overlay(ticks, quotes)[i].extra = g[i]
    OBVIOUS
  <2> DEFINE r == ticks[i] o == Overlay(ticks, quotes)[i]
  <2>1. o = [r EXCEPT !.extra = g[i]]
    BY <1>10
  <2>2. r = [minute |-> minutes[i], value |-> prices[minutes[i]], extra |-> At(chips, minutes[i], 0)]
    BY <1>11
  <2> HIDE DEF r, o
  <2>3. o.extra = g[i]
    BY <2>1, <2>2
  <2> QED
    BY <2>3 DEF o
<1>13. \A i \in DOMAIN ticks : Overlay(ticks, quotes)[i].extra = Carried(i)
  <2> HIDE DEF Carried, ticks, g
  <2> QED
    BY <1>3, <1>9, <1>12
<1> QED
  BY <1>3, <1>13 DEF Carried, ticks

-----------------------------------------------------------------------------
(* What the server holds.                                                  *)

\* All hooks, the samples of a feed, and the highs of the bars of the first n of them.
Hooks == {"kbar", "metric", "quote", "estimated", "participant", "otc", "sticky", "gap"}
Sample == [minute : Nat, valued : BOOLEAN, price : Nat]
Highs(n) == {Row(k).high : k \in 1..n}

\* What TimelinesAssumption says of the case.
LEMMA CaseType ==
    ASSUME case \in Cases
    PROVE  /\ hooks \subseteq Hooks
           /\ case.feed \in Seq(Sample)
           /\ Len(case.feed) \in Nat /\ DOMAIN case.feed = 1..Len(case.feed)
           /\ \A k \in 1..Len(case.feed) :
                  /\ case.feed[k].minute \in Nat /\ case.feed[k].valued \in BOOLEAN
                  /\ case.feed[k].price \in Nat
<1>1. hooks \subseteq Hooks /\ case.feed \in Seq(Sample)
  BY TimelinesAssumption DEF hooks, Hooks, Sample
<1> DEFINE f == case.feed
<1>2. f \in Seq(Sample)
  BY <1>1
<1> HIDE DEF f
<1>3. Len(f) \in Nat /\ DOMAIN f = 1..Len(f) /\ \A k \in 1..Len(f) : f[k] \in Sample
  BY <1>2
<1>4. \A k \in 1..Len(f) : f[k].minute \in Nat /\ f[k].valued \in BOOLEAN /\ f[k].price \in Nat
  BY <1>3 DEF Sample
<1> QED
  BY <1>1, <1>3, <1>4 DEF f

\* The highest of some prices.
LEMMA HighestPrice ==
    ASSUME case \in Cases, NEW T, T \subseteq 1..Len(case.feed), T # {}
    PROVE  LET P == {case.feed[j].price : j \in T}
           IN /\ Max(P) \in Nat /\ \E j \in T : Max(P) = case.feed[j].price
              /\ \A j \in T : case.feed[j].price <= Max(P)
<1> DEFINE f == [j \in T |-> case.feed[j].price]
           P == {f[j] : j \in T}
<1>1. IsFiniteSet(T)
  <2>1. IsFiniteSet(1..Len(case.feed))
    BY CaseType, FS_Interval
  <2> QED
    BY <2>1, FS_Subset
<1>2. IsFiniteSet(P)
  <2> HIDE DEF f
  <2> QED
    BY <1>1, ImageFinite
<1>3. \A j \in T : f[j] = case.feed[j].price /\ f[j] \in Nat
  BY CaseType
<1>4. P = {case.feed[j].price : j \in T}
  BY <1>3
<1> HIDE DEF f
<1>5. P \subseteq Nat /\ P # {}
  BY <1>3
<1> DEFINE x == Max(P)
<1>6. x \in P /\ x \in Nat /\ \A y \in P : y <= x
  <2> HIDE DEF P
  <2> QED
    BY <1>2, <1>5, MaxIsGreatest
<1> HIDE DEF x
<1>7. \E j \in T : x = f[j]
  BY <1>6
<1>8. \A j \in T : f[j] <= x
  BY <1>6
<1>9. /\ x \in Nat /\ \E j \in T : x = case.feed[j].price
      /\ \A j \in T : case.feed[j].price <= x
  BY <1>3, <1>6, <1>7, <1>8
<1> QED
  BY <1>4, <1>9 DEF x

\* The row of a sample.
LEMMA RowType ==
    ASSUME case \in Cases, NEW k \in 1..Len(case.feed)
    PROVE  /\ Row(k) \in RowSet
           /\ Row(k).at = k /\ Row(k).minute = case.feed[k].minute
           /\ Row(k).valued = case.feed[k].valued
<1> DEFINE T == {j \in 1..k : case.feed[j].minute = case.feed[k].minute}
<1>1. /\ case.feed[k].minute \in Nat /\ case.feed[k].valued \in BOOLEAN /\ k \in Nat
      /\ k \in 1..k /\ 1..k \subseteq 1..Len(case.feed)
  BY CaseType
<1>2. T \subseteq 1..Len(case.feed) /\ T # {}
  BY <1>1
<1> DEFINE top == Max({case.feed[j].price : j \in T})
<1>3. top \in Nat
  <2> HIDE DEF T
  <2> QED
    BY <1>2, HighestPrice
<1>4. Row(k) = [at |-> k, minute |-> case.feed[k].minute, valued |-> case.feed[k].valued, high |-> top]
  BY DEF Row
<1> HIDE DEF top
<1> QED
  BY <1>1, <1>3, <1>4 DEF RowSet

\* The item of a sample has the open and the high of the day.
LEMMA ItemType ==
    ASSUME case \in Cases, NEW k \in 1..Len(case.feed)
    PROVE  /\ Item(k).at = k /\ Item(k).valued = case.feed[k].valued /\ Item(k).price = case.feed[k].price
           /\ Item(k).open = case.feed[1].price
           /\ Item(k).dayHigh \in Nat /\ \E j \in 1..k : Item(k).dayHigh = case.feed[j].price
           /\ \A j \in 1..k : case.feed[j].price <= Item(k).dayHigh
<1>1. k \in Nat /\ k \in 1..k /\ 1..k \subseteq 1..Len(case.feed)
  BY CaseType
<1> DEFINE top == Max({case.feed[j].price : j \in 1..k})
<1>2. top \in Nat /\ (\E j \in 1..k : top = case.feed[j].price) /\ \A j \in 1..k : case.feed[j].price <= top
  <2> DEFINE T == 1..k
  <2>1. T \subseteq 1..Len(case.feed) /\ T # {}
    BY <1>1
  <2> HIDE DEF T
  <2>2. LET P == {case.feed[j].price : j \in T}
        IN /\ Max(P) \in Nat /\ \E j \in T : Max(P) = case.feed[j].price
           /\ \A j \in T : case.feed[j].price <= Max(P)
    BY <2>1, HighestPrice
  <2> QED
    BY <2>2 DEF T
<1>3. Item(k) = [at |-> k, valued |-> case.feed[k].valued, price |-> case.feed[k].price,
                 open |-> case.feed[1].price, dayHigh |-> top]
  BY DEF Item
<1> HIDE DEF top
<1> QED
  BY <1>2, <1>3

\* What a route answers is made of the samples produced.
LEMMA RowsMembers ==
    ASSUME case \in Cases, NEW n \in 0..Len(case.feed), NEW part
    PROVE  LET s == Rows(part, n)
           IN /\ s \in Seq(RowSet)
              /\ \A i \in DOMAIN s : \E k \in 1..n : s[i] = Row(k)
              /\ part # "kbarToday" => \A k \in 1..n : \E i \in DOMAIN s : s[i] = Row(k)
<1> DEFINE all == [k \in 1..n |-> Row(k)]
           P == {k \in 1..n : Kept(part, k, n)}
           s == Rows(part, n)
<1>1. n \in Nat /\ \A k \in 1..n : k \in 1..Len(case.feed)
  BY CaseType
<1>2. \A k \in 1..n : Row(k) \in RowSet
  BY <1>1, RowType
<1>3. all \in Seq(RowSet) /\ DOMAIN all = 1..n
  <2>1. all \in [1..n -> RowSet]
    BY <1>2
  <2> HIDE DEF all
  <2> QED
    BY <1>1, <2>1
<1>4. P \in SUBSET (DOMAIN all)
  BY <1>3
<1>5. s = InOrder(Picked(all, P))
  BY DEF Rows
<1>6. \A k \in 1..n : all[k] = Row(k)
  OBVIOUS
<1>7. part # "kbarToday" => P = 1..n
  BY DEF Kept
<1> HIDE DEF all, P, s
<1>8. /\ s \in Seq(RowSet)
      /\ \A i \in DOMAIN s : \E p \in P : s[i] = all[p]
      /\ \A p \in P : \E i \in DOMAIN s : s[i] = all[p]
  BY <1>3, <1>4, <1>5, PickedInOrder
<1>9. \A i \in DOMAIN s : \E k \in 1..n : s[i] = Row(k)
  <2> SUFFICES ASSUME NEW i \in DOMAIN s PROVE \E k \in 1..n : s[i] = Row(k)
    OBVIOUS
  <2>1. PICK p \in P : s[i] = all[p]
    BY <1>8
  <2> QED
    BY <1>3, <1>4, <1>6, <2>1
<1>10. part # "kbarToday" => \A k \in 1..n : \E i \in DOMAIN s : s[i] = Row(k)
  BY <1>6, <1>7, <1>8
<1> QED
  BY <1>8, <1>9, <1>10 DEF s

\* A part of the cache: nothing, or an answer.
LEMMA CachedMembers ==
    ASSUME case \in Cases, NEW n \in 0..Len(case.feed), NEW c, NEW part, c[part] \in None..n
    PROVE  LET s == Cached(c, part)
           IN /\ s \in Seq(RowSet)
              /\ \A i \in DOMAIN s : \E k \in 1..n : s[i] = Row(k)
<1>1. n \in Nat /\ Len(case.feed) \in Nat
  BY CaseType
<1>2. CASE c[part] = None
  <2>1. Cached(c, part) = <<>>
    BY <1>2 DEF Cached
  <2> QED
    BY <2>1
<1>3. CASE c[part] # None
  <2>1. c[part] \in 0..Len(case.feed) /\ c[part] <= n /\ c[part] \in Nat
    BY <1>1, <1>3 DEF None
  <2> DEFINE m == c[part] s == Rows(part, m)
  <2>2. s \in Seq(RowSet) /\ \A i \in DOMAIN s : \E k \in 1..m : s[i] = Row(k)
    BY <2>1, RowsMembers
  <2>3. Cached(c, part) = s
    BY <1>3 DEF Cached
  <2> HIDE DEF s
  <2>4. 1..m \subseteq 1..n
    BY <1>1, <2>1
  <2> QED
    BY <2>2, <2>3, <2>4
<1> QED
  BY <1>2, <1>3

-----------------------------------------------------------------------------
(* What a series of a hook fits: the samples and the cache it was made of. *)

\* The hooks whose points are samples of their minutes.
Plain == {"kbar", "metric", "quote", "estimated", "sticky", "otc"}

\* Points of real samples of their minutes.
Sampled(h, s, n) ==
    \A i \in DOMAIN s : /\ s[i].value \in 1..n
                        /\ case.feed[s[i].value].minute = s[i].minute
                        /\ h # "kbar" => case.feed[s[i].value].valued

\* Yesterday's volume is on every point once the baseline is there.
EstimatedFits(s, c) == c["estimated"] # None => \A i \in DOMAIN s : s[i].extra = 1

\* Changes of the OTC index are from a sample of its first minute, which is the first of the feed.
OtcFits(s, n) ==
    /\ \A i \in DOMAIN s : s[i].extra \in 1..n /\ case.feed[s[i].extra].minute = s[1].minute
    /\ s # <<>> => \A j \in 1..Len(case.feed) : case.feed[j].valued => s[1].minute <= case.feed[j].minute

\* Candles: a closed day, or today's with a high no lower than that of the baseline.
CandleFits(s, c, n) ==
    \A i \in DOMAIN s :
        /\ s[i].minute \in {0, 1}
        /\ s[i].minute = 0 => s[i].value = 0
        /\ s[i].minute = 1 =>
               /\ s[i].value \in 1..n
               /\ s[i].extra \in Highs(n)
               /\ \A j \in DOMAIN Candles(c) : Candles(c)[j].minute = 1 => s[i].extra >= Candles(c)[j].extra

\* The first price of a symbol and its candle, of samples up to k.
GapFits(s, k) ==
    s # <<>> =>
        /\ s[1].minute = 0 /\ s[1].value \in 1..k /\ s[1].extra = case.feed[s[1].value].price
        /\ \A i \in DOMAIN s :
               /\ i = 1 \/ (i = 2 /\ s[2].minute = 1)
               /\ s[i].value \in s[1].value..k
               /\ \E j \in 1..k : s[i].extra = case.feed[j].price
               /\ s[i].extra >= case.feed[s[i].value].price
               /\ ~case.feed[s[i].value].valued => s[i].extra >= s[1].extra

\* All of it: n samples are produced, the store holds k, the cache is c.
Fits(h, s, c, n, k) ==
    /\ s \in Seq(Point) /\ Paired(s)
    /\ h \in Plain => Sampled(h, s, n)
    /\ h = "estimated" => EstimatedFits(s, c)
    /\ h = "otc" => OtcFits(s, n)
    /\ h = "participant" => CandleFits(s, c, n)
    /\ h = "gap" => GapFits(s, k)

\* A series made of rows of samples is of the samples of its minutes.
LEMMA MadeOfSamples ==
    ASSUME case \in Cases, NEW n \in 0..Len(case.feed), NEW rows \in Seq(RowSet),
           \A i \in DOMAIN rows : \E k \in 1..n : rows[i] = Row(k),
           NEW P \in SUBSET (DOMAIN rows), NEW s, MadeOf(s, rows, P)
    PROVE  \A i \in DOMAIN s : /\ s[i].value \in 1..n
                               /\ case.feed[s[i].value].minute = s[i].minute
                               /\ (\A p \in P : rows[p].valued) => case.feed[s[i].value].valued
<1> SUFFICES ASSUME NEW i \in DOMAIN s
             PROVE  /\ s[i].value \in 1..n
                    /\ case.feed[s[i].value].minute = s[i].minute
                    /\ (\A p \in P : rows[p].valued) => case.feed[s[i].value].valued
  OBVIOUS
<1>1. PICK p \in P : s[i].minute = rows[p].minute /\ s[i].value = rows[p].at
  BY DEF MadeOf
<1>2. PICK k \in 1..n : rows[p] = Row(k)
  OBVIOUS
<1>3. k \in 1..Len(case.feed)
  BY CaseType
<1>4. Row(k).at = k /\ Row(k).minute = case.feed[k].minute /\ Row(k).valued = case.feed[k].valued
  BY <1>3, RowType
<1> QED
  BY <1>1, <1>2, <1>4

\* The parts of the cache a hook looks at.
LEMMA PartsOfHooks ==
    ASSUME case \in Cases
    PROVE  /\ \A h \in {"kbar", "participant"} : h \in hooks => "kbarToday" \in AllParts
           /\ "metric" \in hooks => "metricToday" \in AllParts
           /\ "participant" \in hooks => "daily" \in AllParts
           /\ \A h \in {"quote", "estimated", "otc"} : h \in hooks => h \in AllParts
<1>1. \A h \in hooks : \A q \in Queries(h) : q \in Asked
  BY DEF Asked
<1>2. \A q \in Asked : \A p \in Parts(q) : p \in AllParts
  BY DEF AllParts
<1>3. /\ "kbarToday" \in Parts("orderFlow") /\ "metricToday" \in Parts("orderFlow")
      /\ "daily" \in Parts("daily") /\ "quote" \in Parts("quote")
      /\ "estimated" \in Parts("estimated") /\ "otc" \in Parts("otc")
  BY DEF Parts
<1>4. /\ "orderFlow" \in Queries("kbar") /\ "orderFlow" \in Queries("metric")
      /\ "orderFlow" \in Queries("participant") /\ "daily" \in Queries("participant")
      /\ "quote" \in Queries("quote") /\ "estimated" \in Queries("estimated") /\ "otc" \in Queries("otc")
  BY DEF Queries
<1> QED
  BY <1>1, <1>2, <1>3, <1>4

\* The cache when n samples have been produced.
CacheType(c, n) == c \in [AllParts -> None..n]

\* The candle of today, out of what has been fetched.
LEMMA TodayFits ==
    ASSUME case \in Cases, NEW n \in 0..Len(case.feed), NEW c, c["kbarToday"] \in None..n
    PROVE  LET t == TodayCandle(Cached(c, "kbarToday"))
           IN t = <<>> \/ \E k, j \in 1..n : t = <<[minute |-> 1, value |-> k, extra |-> Row(j).high]>>
<1> DEFINE rows == Cached(c, "kbarToday")
           t == TodayCandle(rows)
<1>1. rows \in Seq(RowSet) /\ \A i \in DOMAIN rows : \E k \in 1..n : rows[i] = Row(k)
  BY CachedMembers
<1> HIDE DEF rows
<1>2. CASE rows = <<>>
  BY <1>1, <1>2, TodayMadeOf DEF rows
<1>3. CASE rows # <<>>
  <2>1. PICK p \in DOMAIN rows, q \in DOMAIN rows : t = <<[minute |-> 1, value |-> rows[p].at, extra |-> rows[q].high]>>
    BY <1>1, <1>3, TodayMadeOf
  <2>2. PICK k \in 1..n : rows[p] = Row(k)
    BY <1>1
  <2>3. PICK j \in 1..n : rows[q] = Row(j)
    BY <1>1
  <2>4. Row(k).at = k
    BY CaseType, RowType
  <2>5. t = <<[minute |-> 1, value |-> k, extra |-> Row(j).high]>>
    BY <2>1, <2>2, <2>3, <2>4
  <2> HIDE DEF t
  <2> QED
    BY <2>5 DEF t, rows
<1> QED
  BY <1>2, <1>3

\* The high of a bar is a number.
LEMMA HighType ==
    ASSUME case \in Cases, NEW k \in 1..Len(case.feed)
    PROVE  Row(k).high \in Nat
BY RowType DEF RowSet

-----------------------------------------------------------------------------
(* Baselines fit.                                                          *)

\* The candle of the closed day, and one of today.
Yesterday == [minute |-> 0, value |-> 0, extra |-> 0]
TodayAt(k, j) == [minute |-> 1, value |-> k, extra |-> Row(j).high]

\* The candles are a day that is over, today's, both or none.
LEMMA CandlesShape ==
    ASSUME case \in Cases, NEW n \in 0..Len(case.feed), NEW c, c["kbarToday"] \in None..n
    PROVE  \/ Candles(c) = <<>>
           \/ Candles(c) = <<Yesterday>>
           \/ \E k, j \in 1..n : Candles(c) = <<TodayAt(k, j)>> \/ Candles(c) = <<Yesterday, TodayAt(k, j)>>
<1> DEFINE d == IF c["daily"] = None THEN <<>> ELSE <<Yesterday>>
           t == TodayCandle(Cached(c, "kbarToday"))
<1>1. t = <<>> \/ \E k, j \in 1..n : t = <<TodayAt(k, j)>>
  BY TodayFits DEF TodayAt
<1>2. Candles(c) = d \o t
  BY DEF Candles, Yesterday
<1>3. d = <<>> \/ d = <<Yesterday>>
  OBVIOUS
<1> HIDE DEF d, t
<1>4. CASE t = <<>>
  <2>1. Candles(c) = <<>> \/ Candles(c) = <<Yesterday>>
    BY <1>2, <1>3, <1>4
  <2> QED
    BY <2>1
<1>5. ASSUME NEW k \in 1..n, NEW j \in 1..n, t = <<TodayAt(k, j)>>
      PROVE  Candles(c) = <<TodayAt(k, j)>> \/ Candles(c) = <<Yesterday, TodayAt(k, j)>>
  <2> DEFINE x == TodayAt(k, j) y == Yesterday
  <2>1. t = <<x>> /\ (d = <<>> \/ d = <<y>>)
    BY <1>3, <1>5
  <2> HIDE DEF x, y
  <2>2. <<>> \o <<x>> = <<x>>
    OBVIOUS
  <2>3. <<y>> \o <<x>> = <<y, x>>
    <3> DEFINE r == <<y>> \o <<x>> q == <<y, x>> S == {x, y}
    <3>1. <<y>> \in Seq(S) /\ <<x>> \in Seq(S) /\ q \in Seq(S)
      OBVIOUS
    <3>2. /\ r \in Seq(S) /\ Len(r) = Len(<<y>>) + Len(<<x>>)
          /\ \A i \in 1..(Len(<<y>>) + Len(<<x>>)) :
                 r[i] = IF i <= Len(<<y>>) THEN <<y>>[i] ELSE <<x>>[i - Len(<<y>>)]
      <4> HIDE DEF S
      <4> QED
        BY <3>1, ConcatProperties
    <3>3. Len(r) = 2 /\ r[1] = y /\ r[2] = x
      <4> HIDE DEF r
      <4> QED
        BY <3>2
    <3>4. Len(q) = 2 /\ q[1] = y /\ q[2] = x
      OBVIOUS
    <3> HIDE DEF r, q, S
    <3>5. r = q
      BY <3>1, <3>2, <3>3, <3>4, SeqEqual
    <3> QED
      BY <3>5 DEF r, q
  <2>4. Candles(c) = <<x>> \/ Candles(c) = <<y, x>>
    BY <1>2, <2>1, <2>2, <2>3
  <2> QED
    BY <2>4 DEF x, y
<1> QED
  BY <1>1, <1>4, <1>5

\* Candles in the order of the days.
LEMMA CandlesFit ==
    ASSUME case \in Cases, NEW n \in 0..Len(case.feed), NEW c, c["kbarToday"] \in None..n
    PROVE  /\ Candles(c) \in Seq(Point) /\ Paired(Candles(c))
           /\ CandleFits(Candles(c), c, n)
<1> DEFINE s == Candles(c)
<1>1. Yesterday \in Point
  BY DEF Yesterday, Point
<1>2. ASSUME NEW k \in 1..n, NEW j \in 1..n
      PROVE  TodayAt(k, j) \in Point /\ TodayAt(k, j).extra \in Highs(n) /\ TodayAt(k, j).extra \in Nat
  <2>1. j \in 1..Len(case.feed) /\ k \in Nat
    BY CaseType
  <2>2. Row(j).high \in Nat
    BY <2>1, HighType
  <2> QED
    BY <2>1, <2>2 DEF TodayAt, Point, Highs
<1>3. /\ Yesterday.minute = 0 /\ Yesterday.value = 0
      /\ \A k, j : TodayAt(k, j).minute = 1 /\ TodayAt(k, j).value = k
  BY DEF Yesterday, TodayAt
<1>4. CASE s = <<>>
  BY <1>4 DEF Paired, CandleFits
<1>5. CASE s = <<Yesterday>>
  <2> DEFINE y == Yesterday
  <2>1. s = <<y>> /\ y \in Point /\ y.minute = 0 /\ y.value = 0
    BY <1>1, <1>3, <1>5
  <2> HIDE DEF y, s
  <2>2. s \in Seq(Point) /\ DOMAIN s = {1} /\ s[1] = y
    BY <2>1
  <2>3. Paired(s)
    BY <2>1, <2>2 DEF Paired
  <2>4. \A i \in DOMAIN s : s[i].minute = 0 /\ s[i].value = 0
    BY <2>1, <2>2
  <2>5. CandleFits(s, c, n)
    BY <2>4 DEF CandleFits
  <2> QED
    BY <2>2, <2>3, <2>5 DEF s
<1>6. ASSUME NEW k \in 1..n, NEW j \in 1..n, s = <<TodayAt(k, j)>>
      PROVE  s \in Seq(Point) /\ Paired(s) /\ CandleFits(s, c, n)
  <2> DEFINE t == TodayAt(k, j)
  <2>1. s = <<t>> /\ t \in Point /\ t.minute = 1 /\ t.value = k /\ t.extra \in Highs(n) /\ t.extra \in Nat
    BY <1>2, <1>3, <1>6
  <2> HIDE DEF t
  <2>2. s \in Seq(Point) /\ DOMAIN s = {1} /\ s[1] = t
    <3> HIDE DEF s
    <3> QED
      BY <2>1
  <2>3. Candles(c) = s
    OBVIOUS
  <2> HIDE DEF s
  <2>4. Paired(s)
    BY <2>1, <2>2 DEF Paired
  <2>5. \A i \in DOMAIN s : s[i] = t
    BY <2>2
  <2>6. CandleFits(s, c, n)
    BY <2>1, <2>3, <2>5 DEF CandleFits
  <2> QED
    BY <2>2, <2>4, <2>6
<1>7. ASSUME NEW k \in 1..n, NEW j \in 1..n, s = <<Yesterday, TodayAt(k, j)>>
      PROVE  s \in Seq(Point) /\ Paired(s) /\ CandleFits(s, c, n)
  <2> DEFINE t == TodayAt(k, j) y == Yesterday
  <2>1. /\ s = <<y, t>> /\ t \in Point /\ t.minute = 1 /\ t.value = k /\ t.extra \in Highs(n) /\ t.extra \in Nat
        /\ y \in Point /\ y.minute = 0 /\ y.value = 0
    BY <1>1, <1>2, <1>3, <1>7
  <2> HIDE DEF t, y
  <2>2. s \in Seq(Point) /\ DOMAIN s = {1, 2} /\ s[1] = y /\ s[2] = t
    <3> HIDE DEF s
    <3> QED
      BY <2>1
  <2>3. Candles(c) = s
    OBVIOUS
  <2> HIDE DEF s
  <2>4. Paired(s)
    BY <2>1, <2>2 DEF Paired
  <2>5. \A i \in DOMAIN s : s[i] = y \/ s[i] = t
    BY <2>2
  <2>6. \A i \in DOMAIN s : s[i].minute = 1 => s[i] = t
    BY <2>1, <2>5
  <2>7. \A i \in DOMAIN s : s[i].minute = 1 => \A m \in DOMAIN s : s[m].minute = 1 => s[i].extra >= s[m].extra
    BY <2>1, <2>6
  <2>8. CandleFits(s, c, n)
    BY <2>1, <2>3, <2>5, <2>6, <2>7 DEF CandleFits
  <2> QED
    BY <2>2, <2>4, <2>8
<1> QED
  BY <1>4, <1>5, <1>6, <1>7, CandlesShape

\* The OTC baseline is measured from the first minute.
LEMMA OtcFit ==
    ASSUME case \in Cases, "otc" \in hooks, NEW n \in 0..Len(case.feed), NEW c, c["otc"] \in None..n
    PROVE  LET s == OtcBaseline(Cached(c, "otc"))
           IN s \in Seq(Point) /\ Paired(s) /\ Sampled("otc", s, n) /\ OtcFits(s, n)
<1> DEFINE rows == Cached(c, "otc")
           V == {p \in DOMAIN rows : rows[p].valued}
           s == OtcBaseline(rows)
<1>1. rows \in Seq(RowSet) /\ \A i \in DOMAIN rows : \E k \in 1..n : rows[i] = Row(k)
  BY CachedMembers
<1> HIDE DEF rows
<1>2. /\ MadeOf(s, rows, V)
      /\ \A i \in DOMAIN s : s[i].extra = s[1].value
      /\ \A p \in DOMAIN rows : rows[p].valued => s # <<>> /\ s[1].minute <= rows[p].minute
  BY <1>1, OtcMadeOf
<1>3. V \in SUBSET (DOMAIN rows) /\ \A p \in V : rows[p].valued
  OBVIOUS
<1> HIDE DEF V, s
<1>4. Sampled("otc", s, n)
  <2>1. \A i \in DOMAIN s : /\ s[i].value \in 1..n
                            /\ case.feed[s[i].value].minute = s[i].minute
                            /\ (\A p \in V : rows[p].valued) => case.feed[s[i].value].valued
    BY <1>1, <1>2, <1>3, MadeOfSamples
  <2> QED
    BY <1>3, <2>1 DEF Sampled
<1>5. s \in Seq(Point) /\ Paired(s)
  BY <1>2 DEF MadeOf
<1>6. s # <<>> => 1 \in DOMAIN s
  BY <1>5
<1>7. \A i \in DOMAIN s : s[i].extra \in 1..n /\ case.feed[s[i].extra].minute = s[1].minute
  <2>1. \A i \in DOMAIN s : s # <<>>
    BY <1>5
  <2> QED
    BY <1>2, <1>4, <1>6, <2>1 DEF Sampled
<1>8. ASSUME s # <<>>, NEW j \in 1..Len(case.feed), case.feed[j].valued
      PROVE  s[1].minute <= case.feed[j].minute
  <2> DEFINE f == s[1].value
  <2>1. f \in 1..n /\ case.feed[f].minute = s[1].minute /\ case.feed[f].valued
    BY <1>4, <1>6, <1>8 DEF Sampled
  <2> HIDE DEF f
  <2>2. f \in DOMAIN case.feed /\ DOMAIN case.feed = 1..Len(case.feed) /\ n \in Nat /\ n <= Len(case.feed)
    BY <2>1, CaseType
  <2>3. PICK i \in 1..f : /\ case.feed[i].valued
                          /\ \A k \in DOMAIN case.feed : case.feed[k].valued => case.feed[i].minute <= case.feed[k].minute
    BY <2>1, <2>2, TimelinesAssumption DEF hooks
  <2>4. case.feed[i].minute <= case.feed[j].minute
    BY <1>8, <2>2, <2>3
  <2>5. i \in 1..n /\ i \in 1..Len(case.feed)
    BY <2>1, <2>2
  <2>6. c["otc"] # None
    <3>1. SUFFICES ASSUME c["otc"] = None PROVE FALSE
      OBVIOUS
    <3>2. rows = <<>>
      BY <3>1 DEF rows, Cached
    <3>3. \A k \in DOMAIN s : FALSE
      BY <1>2, <1>3, <3>2 DEF MadeOf
    <3> QED
      BY <1>6, <1>8, <3>3
  <2> DEFINE m == c["otc"]
  <2>7. m \in 0..Len(case.feed) /\ m \in Nat /\ rows = Rows("otc", m)
    BY <2>2, <2>6 DEF rows, Cached, None
  <2>8. /\ \A k \in DOMAIN rows : \E l \in 1..m : rows[k] = Row(l)
        /\ \A l \in 1..m : \E k \in DOMAIN rows : rows[k] = Row(l)
    <3> HIDE DEF m
    <3> QED
      BY <2>7, RowsMembers
  <2>9. f \in 1..m
    <3>1. PICK p \in V : s[1].minute = rows[p].minute /\ s[1].value = rows[p].at
      BY <1>2, <1>6, <1>8 DEF MadeOf
    <3>2. PICK l \in 1..m : rows[p] = Row(l)
      BY <1>3, <2>8, <3>1
    <3>3. l \in 1..Len(case.feed)
      BY <2>7, <2>2
    <3>4. Row(l).at = l
      BY <3>3, RowType
    <3> QED
      BY <3>1, <3>2, <3>4 DEF f
  <2>10. i \in 1..m
    <3> HIDE DEF m
    <3> QED
      BY <2>7, <2>9
  <2>11. PICK p \in DOMAIN rows : rows[p] = Row(i)
    BY <2>8, <2>10
  <2>12. Row(i).valued = case.feed[i].valued /\ Row(i).minute = case.feed[i].minute
    BY <2>5, RowType
  <2>13. s[1].minute <= case.feed[i].minute
    BY <1>2, <2>3, <2>11, <2>12
  <2>14. case.feed[i].minute \in Nat /\ case.feed[j].minute \in Nat /\ s[1].minute \in Nat
    BY <2>1, <2>5, <2>2, CaseType
  <2> QED
    BY <2>4, <2>13, <2>14
<1> QED
  BY <1>4, <1>5, <1>7, <1>8 DEF OtcFits, s, rows

\* The baseline of a hook fits what has been fetched.
LEMMA BaselineFits ==
    ASSUME case \in Cases, NEW n \in 0..Len(case.feed), NEW c, CacheType(c, n),
           NEW h \in hooks, NEW k
    PROVE  Fits(h, Baseline(h, c), c, n, k)
<1>1. h \in Hooks
  BY CaseType
<1>2. ASSUME NEW part \in AllParts
      PROVE  /\ c[part] \in None..n
             /\ Cached(c, part) \in Seq(RowSet)
             /\ \A i \in DOMAIN Cached(c, part) : \E j \in 1..n : Cached(c, part)[i] = Row(j)
  <2>1. c[part] \in None..n
    BY DEF CacheType
  <2> QED
    BY <2>1, CachedMembers
<1>3. ASSUME NEW part \in AllParts, NEW s,
             MadeOf(s, Cached(c, part), {p \in DOMAIN Cached(c, part) : Cached(c, part)[p].valued})
      PROVE  s \in Seq(Point) /\ Paired(s) /\ \A g : Sampled(g, s, n)
  <2> DEFINE rows == Cached(c, part) V == {p \in DOMAIN rows : rows[p].valued}
  <2>1. rows \in Seq(RowSet) /\ \A i \in DOMAIN rows : \E j \in 1..n : rows[i] = Row(j)
    BY <1>2
  <2>2. V \in SUBSET (DOMAIN rows) /\ \A p \in V : rows[p].valued
    OBVIOUS
  <2>3. MadeOf(s, rows, V)
    BY <1>3
  <2> HIDE DEF rows, V
  <2>4. \A i \in DOMAIN s : /\ s[i].value \in 1..n
                            /\ case.feed[s[i].value].minute = s[i].minute
                            /\ (\A p \in V : rows[p].valued) => case.feed[s[i].value].valued
    BY <2>1, <2>2, <2>3, MadeOfSamples
  <2> QED
    BY <2>2, <2>3, <2>4 DEF Sampled, MadeOf
<1>4. CASE h = "kbar"
  <2>1. "kbarToday" \in AllParts
    BY <1>4, PartsOfHooks
  <2> DEFINE rows == Cached(c, "kbarToday") s == KbarBaseline(rows)
  <2>2. rows \in Seq(RowSet) /\ \A i \in DOMAIN rows : \E j \in 1..n : rows[i] = Row(j)
    BY <1>2, <2>1
  <2> HIDE DEF rows
  <2>3. MadeOf(s, rows, DOMAIN rows)
    BY <2>2, KbarMadeOf
  <2> HIDE DEF s
  <2> DEFINE D == DOMAIN rows
  <2>4. D \in SUBSET (DOMAIN rows) /\ MadeOf(s, rows, D)
    BY <2>3
  <2> HIDE DEF D
  <2>5. \A i \in DOMAIN s : s[i].value \in 1..n /\ case.feed[s[i].value].minute = s[i].minute
    BY <2>2, <2>4, MadeOfSamples
  <2>6. s \in Seq(Point) /\ Paired(s) /\ Sampled(h, s, n)
    BY <1>4, <2>3, <2>5 DEF MadeOf, Sampled
  <2>7. Baseline(h, c) = s
    BY <1>4 DEF Baseline, s, rows
  <2> QED
    BY <1>4, <2>6, <2>7 DEF Fits
<1>5. CASE h = "metric"
  <2>1. "metricToday" \in AllParts
    BY <1>5, PartsOfHooks
  <2> DEFINE s == MetricBaseline(Cached(c, "metricToday"))
  <2>2. s \in Seq(Point) /\ Paired(s) /\ Sampled(h, s, n)
    BY <1>2, <1>3, <2>1, MetricMadeOf
  <2>3. Baseline(h, c) = s
    BY <1>5 DEF Baseline
  <2> HIDE DEF s
  <2> QED
    BY <1>5, <2>2, <2>3 DEF Fits
<1>6. CASE h = "quote"
  <2>1. "quote" \in AllParts
    BY <1>6, PartsOfHooks
  <2> DEFINE s == Points(LastOfMinute(Valued(Cached(c, "quote"))), 0)
  <2>2. s \in Seq(Point) /\ Paired(s) /\ Sampled(h, s, n)
    BY <1>2, <1>3, <2>1, LastMadeOf
  <2>3. Baseline(h, c) = s
    BY <1>6 DEF Baseline, QuoteBaseline
  <2> HIDE DEF s
  <2> QED
    BY <1>6, <2>2, <2>3 DEF Fits
<1>7. CASE h = "estimated"
  <2>1. "estimated" \in AllParts
    BY <1>7, PartsOfHooks
  <2> DEFINE s == Points(LastOfMinute(Valued(Cached(c, "estimated"))), 1)
  <2>2. s \in Seq(Point) /\ Paired(s) /\ Sampled(h, s, n)
    BY <1>2, <1>3, <2>1, LastMadeOf
  <2>3. \A i \in DOMAIN s : s[i].extra = 1
    BY <1>2, <2>1, LastMadeOf
  <2>4. Baseline(h, c) = s
    BY <1>7 DEF Baseline, EstimatedBaseline
  <2> HIDE DEF s
  <2>5. EstimatedFits(s, c)
    BY <2>3 DEF EstimatedFits
  <2> QED
    BY <1>7, <2>2, <2>4, <2>5 DEF Fits
<1>8. CASE h = "otc"
  <2>1. "otc" \in AllParts /\ "otc" \in hooks
    BY <1>8, PartsOfHooks
  <2> DEFINE s == OtcBaseline(Cached(c, "otc"))
  <2>2. s \in Seq(Point) /\ Paired(s) /\ Sampled("otc", s, n) /\ OtcFits(s, n)
    BY <1>2, <2>1, OtcFit
  <2>3. Baseline(h, c) = s
    BY <1>8 DEF Baseline
  <2> HIDE DEF s
  <2> QED
    BY <1>8, <2>2, <2>3 DEF Fits
<1>9. CASE h = "participant"
  <2>1. "kbarToday" \in AllParts
    BY <1>9, PartsOfHooks
  <2>2. Candles(c) \in Seq(Point) /\ Paired(Candles(c)) /\ CandleFits(Candles(c), c, n)
    BY <1>2, <2>1, CandlesFit
  <2>3. Baseline(h, c) = Candles(c)
    BY <1>9 DEF Baseline
  <2> QED
    BY <1>9, <2>2, <2>3 DEF Fits, Plain
<1>10. CASE h \in {"sticky", "gap"}
  <2> DEFINE s == Baseline(h, c)
  <2>1. s = <<>>
    BY <1>10 DEF Baseline
  <2> HIDE DEF s
  <2>2. s \in Seq(Point) /\ DOMAIN s = {}
    BY <2>1
  <2>3. Paired(s) /\ Sampled(h, s, n) /\ GapFits(s, k)
    BY <2>1, <2>2 DEF Paired, Sampled, GapFits
  <2>4. Fits(h, s, c, n, k)
    BY <1>10, <2>2, <2>3 DEF Fits
  <2> QED
    BY <2>4 DEF s
<1> QED
  BY <1>1, <1>4, <1>5, <1>6, <1>7, <1>8, <1>9, <1>10 DEF Hooks

-----------------------------------------------------------------------------
(* Patches fit.                                                            *)

\* The candle of the running bar is no lower than the bars of the baseline.
LEMMA PatchedCandleFits ==
    ASSUME case \in Cases, NEW n \in 0..Len(case.feed), NEW c, c["kbarToday"] \in None..n,
           NEW k \in 1..n
    PROVE  LET p == PatchedCandle(TodayCandle(Cached(c, "kbarToday")), Row(k))
           IN /\ p \in Point /\ p.minute = 1 /\ p.value = k /\ p.extra \in Highs(n)
              /\ \A j \in DOMAIN Candles(c) : Candles(c)[j].minute = 1 => p.extra >= Candles(c)[j].extra
<1> DEFINE t == TodayCandle(Cached(c, "kbarToday"))
           p == PatchedCandle(t, Row(k))
<1>1. k \in 1..Len(case.feed) /\ k \in Nat /\ \A j \in 1..n : j \in 1..Len(case.feed)
  BY CaseType
<1>2. Row(k).high \in Nat /\ Row(k).at = k
  BY <1>1, HighType, RowType
<1>3. CASE t = <<>>
  <2>1. p = [minute |-> 1, value |-> k, extra |-> Row(k).high]
    BY <1>2, <1>3 DEF PatchedCandle
  <2>2. p \in Point /\ p.minute = 1 /\ p.value = k /\ p.extra \in Highs(n)
    BY <1>1, <1>2, <2>1 DEF Point, Highs
  <2> HIDE DEF p
  <2>3. Candles(c) = <<>> \/ Candles(c) = <<Yesterday>>
    <3> DEFINE y == Yesterday S == {y}
               d == IF c["daily"] = None THEN <<>> ELSE <<y>>
    <3>1. d \in Seq(S) /\ (d = <<>> \/ d = <<Yesterday>>)
      <4>1. y \in S
        OBVIOUS
      <4>2. d = <<>> \/ d = <<y>>
        OBVIOUS
      <4> HIDE DEF d, S, y
      <4>3. d \in Seq(S)
        <5>1. <<>> \in Seq(S)
          OBVIOUS
        <5>2. <<y>> \in Seq(S)
          BY <4>1
        <5> QED
          BY <4>2, <5>1, <5>2
      <4> QED
        BY <4>2, <4>3 DEF y
    <3>2. Candles(c) = d \o <<>>
      BY <1>3 DEF Candles, Yesterday
    <3> HIDE DEF d
    <3>3. Candles(c) = d
      BY <3>1, <3>2, ConcatEmptySeq
    <3> QED
      BY <3>1, <3>3
  <2>4. \A j \in DOMAIN Candles(c) : Candles(c)[j].minute # 1
    BY <2>3 DEF Yesterday
  <2> QED
    BY <2>2, <2>4 DEF p
<1>4. ASSUME NEW l \in 1..n, NEW m \in 1..n, t = <<TodayAt(l, m)>>
      PROVE  /\ p \in Point /\ p.minute = 1 /\ p.value = k /\ p.extra \in Highs(n)
             /\ p.extra \in Nat /\ p.extra >= Row(m).high
  <2> DEFINE a == Row(m).high b == Row(k).high T == {a, b}
  <2>1. a \in Nat /\ b \in Nat
    BY <1>1, HighType
  <2>2. t[1].extra = a /\ t # <<>>
    BY <1>4 DEF TodayAt
  <2> HIDE DEF t
  <2>3. p = [minute |-> 1, value |-> k, extra |-> Max(T)]
    BY <1>2, <2>2 DEF PatchedCandle
  <2> HIDE DEF p
  <2>4. a \in Highs(n) /\ b \in Highs(n)
    BY DEF Highs
  <2> HIDE DEF a, b
  <2>5. IsFiniteSet(T) /\ T \subseteq Nat /\ T # {}
    <3>1. IsFiniteSet({a} \cup {b})
      BY FS_Singleton, FS_Union
    <3>2. T = {a} \cup {b}
      OBVIOUS
    <3> QED
      BY <2>1, <3>1, <3>2
  <2>6. Max(T) \in {a, b} /\ Max(T) >= a /\ Max(T) \in Nat
    <3>1. Max(T) \in T /\ a \in T /\ \A x \in T : x <= Max(T)
      <4>1. a \in T
        OBVIOUS
      <4> HIDE DEF T
      <4> QED
        BY <2>5, <4>1, MaxIsGreatest
    <3>2. Max(T) \in {a, b}
      BY <3>1
    <3>3. Max(T) \in Nat
      BY <2>1, <3>2
    <3> HIDE DEF T
    <3> QED
      BY <2>1, <3>1, <3>2, <3>3
  <2> HIDE DEF T
  <2>7. p.extra \in Highs(n) /\ p.extra >= a /\ p.extra \in Nat
    BY <2>3, <2>4, <2>6
  <2>8. p \in Point /\ p.minute = 1 /\ p.value = k
    BY <1>1, <2>3, <2>6 DEF Point
  <2> QED
    BY <2>7, <2>8 DEF a
<1>5. ASSUME NEW l \in 1..n, NEW m \in 1..n, t = <<TodayAt(l, m)>>
      PROVE  \A j \in DOMAIN Candles(c) : Candles(c)[j].minute = 1 => Candles(c)[j].extra = Row(m).high
  <2> DEFINE x == TodayAt(l, m)
             d == IF c["daily"] = None THEN <<>> ELSE <<Yesterday>>
             S == {Yesterday, x}
  <2>1. x.extra = Row(m).high /\ Yesterday.minute = 0
    BY DEF TodayAt, Yesterday
  <2>2. t = <<x>> /\ Candles(c) = d \o <<x>>
    BY <1>5 DEF Candles, Yesterday
  <2>3. d \in Seq(S) /\ <<x>> \in Seq(S) /\ (Len(d) = 0 \/ (Len(d) = 1 /\ d[1] = Yesterday)) /\ Len(<<x>>) = 1 /\ <<x>>[1] = x
    <3> DEFINE y == Yesterday
    <3>1. x \in S /\ y \in S
      OBVIOUS
    <3>2. d = <<>> \/ d = <<y>>
      OBVIOUS
    <3> HIDE DEF x, d, S, y
    <3>3. d \in Seq(S) /\ <<x>> \in Seq(S)
      <4>1. <<>> \in Seq(S)
        OBVIOUS
      <4>2. <<y>> \in Seq(S)
        BY <3>1
      <4>3. <<x>> \in Seq(S)
        BY <3>1
      <4> QED
        BY <3>2, <4>1, <4>2, <4>3
    <3>4. Len(d) = 0 \/ (Len(d) = 1 /\ d[1] = y)
      BY <3>2
    <3> QED
      BY <3>3, <3>4 DEF y
  <2> DEFINE y == <<x>>
  <2> HIDE DEF S, d, x
  <2>4. d \in Seq(S) /\ y \in Seq(S) /\ (Len(d) = 0 \/ (Len(d) = 1 /\ d[1] = Yesterday)) /\ Len(y) = 1 /\ y[1] = x /\ Candles(c) = d \o y
    BY <2>2, <2>3
  <2> HIDE DEF y
  <2>5. /\ d \o y \in Seq(S) /\ Len(d \o y) = Len(d) + Len(y)
        /\ \A i \in 1..(Len(d) + Len(y)) : (d \o y)[i] = IF i <= Len(d) THEN d[i] ELSE y[i - Len(d)]
    BY <2>4, ConcatProperties
  <2>6. ASSUME NEW i \in DOMAIN (d \o y)
        PROVE  (d \o y)[i] = Yesterday \/ (d \o y)[i] = x
    <3>1. i \in 1..(Len(d) + Len(y))
      BY <2>5
    <3>2. CASE Len(d) = 0
      <4>1. i = 1 /\ ~(i <= Len(d)) /\ i - Len(d) = 1
        BY <2>4, <3>1, <3>2
      <4> QED
        BY <2>4, <2>5, <3>1, <4>1
    <3>3. CASE Len(d) = 1
      <4>1. (i = 1 /\ i <= Len(d)) \/ (~(i <= Len(d)) /\ i - Len(d) = 1)
        BY <2>4, <3>1, <3>3
      <4> QED
        BY <2>4, <2>5, <3>1, <3>3, <4>1
    <3> QED
      BY <2>4, <3>2, <3>3
  <2> QED
    BY <2>1, <2>4, <2>6
<1>6. ASSUME NEW l \in 1..n, NEW m \in 1..n, t = <<TodayAt(l, m)>>
      PROVE  \A j \in DOMAIN Candles(c) : Candles(c)[j].minute = 1 => p.extra >= Candles(c)[j].extra
  <2>1. /\ p.extra >= Row(m).high
        /\ \A j \in DOMAIN Candles(c) : Candles(c)[j].minute = 1 => Candles(c)[j].extra = Row(m).high
    BY <1>4, <1>5, <1>6
  <2> HIDE DEF p, t
  <2> QED
    BY <2>1
<1>7. t = <<>> \/ \E l, m \in 1..n : t = <<TodayAt(l, m)>>
  BY TodayFits DEF TodayAt
<1> HIDE DEF p, t
<1>8. ASSUME NEW l \in 1..n, NEW m \in 1..n, t = <<TodayAt(l, m)>>
      PROVE  /\ p \in Point /\ p.minute = 1 /\ p.value = k /\ p.extra \in Highs(n)
             /\ \A j \in DOMAIN Candles(c) : Candles(c)[j].minute = 1 => p.extra >= Candles(c)[j].extra
  BY <1>4, <1>6, <1>8
<1> QED
  BY <1>3, <1>7, <1>8 DEF p, t

\* A series without points has an empty index.
LEMMA IndexOfEmpty == IndexOf(<<>>) = <<>>
<1>1. Minutes(<<>>) = {}
  BY DEF Minutes
<1>2. IndexOf(<<>>) = [m \in {} |-> Max({i \in DOMAIN <<>> : <<>>[i].minute = m})]
  BY <1>1 DEF IndexOf
<1>3. /\ IndexOf(<<>>) = [m \in {} |-> IndexOf(<<>>)[m]] /\ <<>> = [m \in {} |-> <<>>[m]]
  <2> DEFINE e == <<>>
  <2>1. e = [m \in DOMAIN e |-> e[m]] /\ DOMAIN e = {}
    OBVIOUS
  <2> HIDE DEF e
  <2>2. e = [m \in {} |-> e[m]]
    BY <2>1
  <2> QED
    BY <1>2, <2>2 DEF e
<1> QED
  BY <1>3

\* The candle of a symbol after its item k.
LEMMA GapPatchFits ==
    ASSUME case \in Cases, NEW k \in 1..Len(case.feed), NEW l \in 0..k,
           NEW s \in Seq(Point), GapFits(s, l)
    PROVE  LET p == GapCandle(s, Item(k))
           IN /\ p \in Seq(Point) /\ Paired(p) /\ GapFits(p, k)
              /\ case.feed[k].price # 0 =>
                     2 \in DOMAIN p /\ p[2].minute = 1 /\ p[2].value = k /\ Len(p) = 2
<1> DEFINE item == Item(k)
           first == IF s # <<>> THEN s[1] ELSE [minute |-> 0, value |-> k, extra |-> item.price]
           seen == CASE s # <<>> -> <<s[1]>>
                     [] s = <<>> /\ item.price # 0 ->
                            <<[minute |-> 0, value |-> item.at, extra |-> item.price]>>
                     [] OTHER -> <<>>
           open == IF item.valued THEN item.open ELSE seen[1].extra
           tops == {open, item.price} \cup (IF item.valued THEN {item.dayHigh} ELSE {})
           p == GapCandle(s, item)
<1>1. /\ k \in Nat /\ 1 <= k /\ l \in Nat /\ l <= k /\ k \in 1..k /\ 1 \in 1..k
      /\ \A j \in 1..k : j \in 1..Len(case.feed) /\ j \in Nat /\ case.feed[j].price \in Nat
  BY CaseType
<1>2. /\ item.at = k /\ item.valued = case.feed[k].valued /\ item.price = case.feed[k].price
      /\ item.open = case.feed[1].price
      /\ item.dayHigh \in Nat /\ \E j \in 1..k : item.dayHigh = case.feed[j].price
      /\ case.feed[k].price <= item.dayHigh
  BY <1>1, ItemType
<1>3. p = IF item.price = 0 THEN seen ELSE Append(seen, [minute |-> 1, value |-> item.at, extra |-> Max(tops)])
  BY DEF GapCandle
<1>4. s # <<>> => 1 \in DOMAIN s /\ s[1] \in Point
  OBVIOUS
<1>5. first \in Point /\ first.minute = 0
      /\ first.value \in 1..k
      /\ (s # <<>> \/ item.price # 0 => first.extra = case.feed[first.value].price)
  <2>1. CASE s # <<>>
    <3>1. s[1].minute = 0 /\ s[1].value \in 1..l /\ s[1].extra = case.feed[s[1].value].price
      BY <2>1 DEF GapFits
    <3>2. 1..l \subseteq 1..k
      BY <1>1
    <3> QED
      BY <1>4, <2>1, <3>1, <3>2
  <2>2. CASE s = <<>>
    <3>1. first = [minute |-> 0, value |-> k, extra |-> item.price]
      BY <2>2
    <3> HIDE DEF first, item
    <3>2. item.price \in Nat
      BY <1>1, <1>2
    <3> QED
      BY <1>1, <1>2, <3>1, <3>2 DEF Point
  <2> QED
    BY <2>1, <2>2
<1>6. seen = IF s # <<>> \/ item.price # 0 THEN <<first>> ELSE <<>>
  BY <1>2
<1> HIDE DEF item, first, seen, p
<1>7. first.value \in Nat /\ first.extra \in Nat
  BY <1>5 DEF Point
<1>8. CASE s = <<>> /\ item.price = 0
  <2>1. p = <<>>
    BY <1>3, <1>6, <1>8
  <2>2. p \in Seq(Point) /\ DOMAIN p = {}
    BY <2>1
  <2>3. Paired(p) /\ GapFits(p, k)
    BY <2>1, <2>2 DEF Paired, GapFits
  <2> QED
    BY <1>2, <1>8, <2>2, <2>3 DEF p, item
<1>9. CASE s # <<>> /\ item.price = 0
  <2>1. p = <<first>>
    BY <1>3, <1>6, <1>9
  <2>2. p \in Seq(Point) /\ DOMAIN p = {1} /\ p[1] = first /\ p # <<>>
    BY <1>5, <2>1
  <2>3. Paired(p)
    <3>1. first.minute <= first.minute
      BY <1>5
    <3> QED
      BY <2>2, <3>1 DEF Paired
  <2>4. GapFits(p, k)
    <3>1. first.value \in first.value..k /\ first.extra >= case.feed[first.value].price
          /\ first.extra >= first.extra /\ first.extra = case.feed[first.value].price
      BY <1>1, <1>5, <1>7, <1>9
    <3>2. \A i \in DOMAIN p : i = 1 /\ p[i] = first
      BY <2>2
    <3> QED
      BY <1>5, <2>2, <3>1, <3>2 DEF GapFits
  <2> QED
    BY <1>2, <1>9, <2>2, <2>3, <2>4 DEF p, item
<1>10. CASE item.price # 0
  <2>1. seen = <<first>>
    BY <1>6, <1>10
  <2>2. seen[1] = first
    BY <2>1
  <2>3. open \in Nat /\ (\E j \in 1..k : open = case.feed[j].price)
        /\ (~item.valued => open = first.extra)
    BY <1>1, <1>2, <1>5, <1>7, <1>10, <2>2
  <2>4. /\ tops \subseteq Nat /\ IsFiniteSet(tops) /\ open \in tops /\ item.price \in tops
        /\ \A x \in tops : \E j \in 1..k : x = case.feed[j].price
    <3>1. item.price \in Nat /\ \E j \in 1..k : item.price = case.feed[j].price
      BY <1>1, <1>2
    <3> HIDE DEF open
    <3> DEFINE U == IF item.valued THEN {item.dayHigh} ELSE {}
    <3>2. IsFiniteSet(U)
      BY FS_Singleton, FS_EmptySet
    <3>3. IsFiniteSet(U \cup {open})
      BY <3>2, FS_AddElement
    <3>4. IsFiniteSet((U \cup {open}) \cup {item.price})
      <4> DEFINE W == U \cup {open}
      <4> HIDE DEF W
      <4>1. IsFiniteSet(W)
        BY <3>3 DEF W
      <4>2. IsFiniteSet(W \cup {item.price})
        BY <4>1, FS_AddElement
      <4> QED
        BY <4>2 DEF W
    <3>5. tops = (U \cup {open}) \cup {item.price}
      OBVIOUS
    <3> QED
      BY <1>2, <2>3, <3>1, <3>4, <3>5
  <2> HIDE DEF open, tops
  <2> DEFINE top == Max(tops)
  <2>5. top \in tops /\ top \in Nat /\ \A x \in tops : x <= top
    BY <2>4, MaxIsGreatest
  <2> HIDE DEF top
  <2>6. /\ top \in Nat /\ item.price <= top /\ open <= top
        /\ \E j \in 1..k : top = case.feed[j].price
    BY <2>4, <2>5
  <2> DEFINE q == [minute |-> 1, value |-> k, extra |-> top]
  <2>7. q \in Point /\ q.minute = 1 /\ q.value = k /\ q.extra = top
    BY <1>1, <2>6 DEF Point
  <2>8. p = Append(<<first>>, q)
    BY <1>2, <1>3, <1>10, <2>1 DEF top
  <2> HIDE DEF q
  <2>9. p \in Seq(Point) /\ Len(p) = 2 /\ DOMAIN p = {1, 2} /\ p[1] = first /\ p[2] = q /\ p # <<>>
    BY <1>5, <2>7, <2>8
  <2>10. Paired(p)
    <3>1. first.minute = 0 /\ q.minute = 1
      BY <1>5, <2>7
    <3> QED
      BY <2>9, <3>1 DEF Paired
  <2>11. GapFits(p, k)
    <3>1. /\ first.value \in first.value..k /\ first.extra >= case.feed[first.value].price
          /\ first.extra >= first.extra /\ first.extra = case.feed[first.value].price
      BY <1>1, <1>5, <1>7, <1>10
    <3>2. /\ q.value \in first.value..k /\ q.extra >= case.feed[q.value].price
          /\ (\E j \in 1..k : q.extra = case.feed[j].price)
          /\ ~case.feed[q.value].valued => q.extra >= first.extra
      <4>1. k \in first.value..k
        BY <1>1, <1>5, <1>7
      <4>2. top >= case.feed[k].price
        BY <1>1, <1>2, <2>6
      <4>3. ~case.feed[k].valued => top >= first.extra
        BY <1>2, <1>7, <2>3, <2>6
      <4> QED
        BY <2>6, <2>7, <4>1, <4>2, <4>3
    <3>3. \E j \in 1..k : first.extra = case.feed[j].price
      BY <1>5, <3>1
    <3>4. \A i \in DOMAIN p : (i = 1 /\ p[i] = first) \/ (i = 2 /\ p[i] = q)
      BY <2>9
    <3>5. ASSUME NEW i \in DOMAIN p
          PROVE  /\ i = 1 \/ (i = 2 /\ p[2].minute = 1)
                 /\ p[i].value \in p[1].value..k
                 /\ \E j \in 1..k : p[i].extra = case.feed[j].price
                 /\ p[i].extra >= case.feed[p[i].value].price
                 /\ ~case.feed[p[i].value].valued => p[i].extra >= p[1].extra
      <4>1. CASE i = 1 /\ p[i] = first
        BY <2>9, <3>1, <3>3, <4>1
      <4>2. CASE i = 2 /\ p[i] = q
        BY <2>7, <2>9, <3>2, <4>2
      <4> QED
        BY <3>4, <4>1, <4>2
    <3>6. p[1].minute = 0 /\ p[1].value \in 1..k /\ p[1].extra = case.feed[p[1].value].price
      BY <1>5, <2>9, <3>1
    <3> QED
      BY <3>5, <3>6 DEF GapFits
  <2> QED
    BY <2>7, <2>9, <2>10, <2>11 DEF p, item
<1> QED
  BY <1>8, <1>9, <1>10

\* The point of payload k, of a hook that keeps a series by minute.
LEMMA LivePointFits ==
    ASSUME case \in Cases, NEW n \in 0..Len(case.feed), NEW c, CacheType(c, n),
           NEW h \in hooks, h \notin {"sticky", "gap"},
           NEW chart, chart.series \in Seq(Point), NEW k \in 1..n, Takes(h, chart, k, c)
    PROVE  LET p == LivePoint(h, chart, k, c)
           IN /\ p \in Point /\ p.value = k
              /\ h # "participant" =>
                     p.minute = case.feed[k].minute /\ (h # "kbar" => case.feed[k].valued)
              /\ h = "participant" =>
                     /\ p.minute = 1 /\ p.extra \in Highs(n)
                     /\ \A j \in DOMAIN Candles(c) : Candles(c)[j].minute = 1 => p.extra >= Candles(c)[j].extra
              /\ h = "estimated" /\ c["estimated"] # None => p.extra = 1
              /\ h = "otc" => chart.series # <<>> /\ p.extra = chart.series[1].value
<1> DEFINE p == LivePoint(h, chart, k, c)
<1>1. k \in 1..Len(case.feed) /\ k \in Nat /\ case.feed[k].minute \in Nat
  BY CaseType
<1>2. Row(k).minute = case.feed[k].minute
  BY <1>1, RowType
<1>3. h \in Hooks
  BY CaseType
<1>4. h \notin {"kbar", "participant", "gap"} => case.feed[k].valued
  BY DEF Takes
<1>5. CASE h = "participant"
  <2>1. p = PatchedCandle(TodayCandle(Cached(c, "kbarToday")), Row(k))
    BY <1>5 DEF LivePoint
  <2>2. c["kbarToday"] \in None..n
    BY <1>5, PartsOfHooks DEF CacheType
  <2> HIDE DEF p
  <2> DEFINE q == PatchedCandle(TodayCandle(Cached(c, "kbarToday")), Row(k))
  <2>3. /\ q \in Point /\ q.minute = 1 /\ q.value = k /\ q.extra \in Highs(n)
        /\ \A j \in DOMAIN Candles(c) : Candles(c)[j].minute = 1 => q.extra >= Candles(c)[j].extra
    BY <2>2, PatchedCandleFits
  <2> HIDE DEF q
  <2>4. p = q
    BY <2>1 DEF q
  <2> QED
    BY <1>5, <2>3, <2>4 DEF p
<1>6. CASE h = "estimated"
  <2>1. p = [minute |-> case.feed[k].minute, value |-> k, extra |-> IF c["estimated"] = None THEN 0 ELSE 1]
    BY <1>2, <1>6 DEF LivePoint
  <2> HIDE DEF p
  <2>2. p \in Point
    BY <1>1, <2>1 DEF Point
  <2> QED
    BY <1>4, <1>6, <2>1, <2>2 DEF p
<1>7. CASE h = "otc"
  <2> DEFINE f == chart.series[1]
  <2>1. p = [minute |-> case.feed[k].minute, value |-> k, extra |-> f.value]
    BY <1>2, <1>7 DEF LivePoint
  <2>2. chart.series # <<>>
    BY <1>7 DEF Takes
  <2>3. f \in Point
    BY <2>2
  <2> HIDE DEF p, f
  <2>4. p \in Point
    BY <1>1, <2>1, <2>3 DEF Point
  <2> QED
    BY <1>4, <1>7, <2>1, <2>2, <2>4 DEF p, f
<1>8. CASE h \in {"kbar", "metric", "quote"}
  <2>1. p = [minute |-> case.feed[k].minute, value |-> k, extra |-> 0]
    BY <1>2, <1>8 DEF LivePoint
  <2> HIDE DEF p
  <2>2. p \in Point
    BY <1>1, <2>1 DEF Point
  <2> QED
    BY <1>4, <1>8, <2>1, <2>2 DEF p
<1> QED
  BY <1>3, <1>5, <1>6, <1>7, <1>8 DEF Hooks

\* The minute of a chart at which it shows payload k.
PlaceOf(h, k) == IF h \in {"participant", "gap"} THEN 1 ELSE case.feed[k].minute

\* Does the last point of minute m show k?
ShowsLast(s, m, k) == \E i \in DOMAIN s : IsLast(s, m, i) /\ s[i].value = k

\* A chart whose series fits, and whose index is that of its series.
Charted(h, chart, c, n, k) ==
    Fits(h, chart.series, c, n, k) /\ chart.index = IndexOf(chart.series)

\* An upsert keeps what a chart fits.
LEMMA UpsertFits ==
    ASSUME case \in Cases, NEW n \in 0..Len(case.feed), NEW c, CacheType(c, n),
           NEW h \in hooks, h \notin {"sticky", "gap"}, NEW l,
           NEW chart, Charted(h, chart, c, n, l),
           NEW k \in 1..n, Takes(h, chart, k, c)
    PROVE  LET u == Upsert(chart.series, chart.index, LivePoint(h, chart, k, c))
           IN /\ Charted(h, u, c, n, k)
              /\ ShowsLast(u.series, PlaceOf(h, k), k)
              /\ \A m, i : m # PlaceOf(h, k) /\ IsLast(chart.series, m, i) =>
                     ShowsLast(u.series, m, chart.series[i].value)
<1> DEFINE s == chart.series
           p == LivePoint(h, chart, k, c)
           u == Upsert(s, IndexOf(s), p)
           t == u.series
<1>1. Fits(h, s, c, n, l) /\ chart.index = IndexOf(s)
  BY DEF Charted
<1>2. s \in Seq(Point) /\ Paired(s)
  BY <1>1 DEF Fits
<1>3. /\ p \in Point /\ p.value = k
      /\ h # "participant" => p.minute = case.feed[k].minute /\ (h # "kbar" => case.feed[k].valued)
      /\ h = "participant" =>
             /\ p.minute = 1 /\ p.extra \in Highs(n)
             /\ \A j \in DOMAIN Candles(c) : Candles(c)[j].minute = 1 => p.extra >= Candles(c)[j].extra
      /\ h = "estimated" /\ c["estimated"] # None => p.extra = 1
      /\ h = "otc" => s # <<>> /\ p.extra = s[1].value
  BY <1>2, LivePointFits
<1>4. /\ t \in Seq(Point) /\ Paired(t)
      /\ u.index = IndexOf(t)
      /\ \E i \in DOMAIN t : t[i] = p /\ IsLast(t, p.minute, i)
      /\ \A i \in DOMAIN t : t[i] = p \/ \E j \in DOMAIN s : t[i] = s[j]
      /\ \A i : \A m : m # p.minute /\ IsLast(s, m, i) => \E j \in DOMAIN t : t[j] = s[i] /\ IsLast(t, m, j)
      /\ t[1] = p \/ (s # <<>> /\ t[1] = s[1])
  <2> HIDE DEF p, s
  <2> QED
    BY <1>2, <1>3, UpsertLaw
<1>5. u = Upsert(chart.series, chart.index, p)
  BY <1>1
<1>6. p.minute = PlaceOf(h, k)
  BY <1>3 DEF PlaceOf
<1> HIDE DEF p, u, s
<1>7. h \in Plain => Sampled(h, t, n)
  <2> SUFFICES ASSUME h \in Plain PROVE Sampled(h, t, n)
    OBVIOUS
  <2>1. Sampled(h, s, n) /\ h # "participant"
    BY <1>1 DEF Fits, Plain
  <2>2. p.value = k /\ p.minute = case.feed[k].minute /\ (h # "kbar" => case.feed[k].valued)
    BY <1>3, <2>1
  <2>3. \A i \in DOMAIN t : t[i] = p \/ \E j \in DOMAIN s : t[i] = s[j]
    BY <1>4
  <2> QED
    BY <2>1, <2>2, <2>3 DEF Sampled
<1>8. h = "estimated" => EstimatedFits(t, c)
  <2>1. h = "estimated" => EstimatedFits(s, c)
    BY <1>1 DEF Fits
  <2> QED
    BY <1>3, <1>4, <2>1 DEF EstimatedFits
<1>9. h = "participant" => CandleFits(t, c, n)
  <2> SUFFICES ASSUME h = "participant" PROVE CandleFits(t, c, n)
    OBVIOUS
  <2>1. CandleFits(s, c, n)
    BY <1>1 DEF Fits
  <2>2. p.minute = 1 /\ p.value \in 1..n /\ p.extra \in Highs(n)
        /\ \A j \in DOMAIN Candles(c) : Candles(c)[j].minute = 1 => p.extra >= Candles(c)[j].extra
    BY <1>3
  <2> QED
    BY <1>4, <2>1, <2>2 DEF CandleFits
<1>10. h = "otc" => OtcFits(t, n)
  <2> SUFFICES ASSUME h = "otc" PROVE OtcFits(t, n)
    OBVIOUS
  <2>1. OtcFits(s, n) /\ Sampled(h, s, n)
    BY <1>1 DEF Fits, Plain
  <2>2. s # <<>> /\ p.extra = s[1].value /\ p.minute = case.feed[k].minute /\ case.feed[k].valued
    BY <1>3
  <2>3. 1 \in DOMAIN s /\ s[1] \in Point /\ s[1].minute \in Nat
    <3>1. 1 \in DOMAIN s /\ s[1] \in Point
      BY <1>2, <2>2
    <3> QED
      BY <3>1 DEF Point
  <2>4. s[1].value \in 1..n /\ case.feed[s[1].value].minute = s[1].minute
    BY <2>1, <2>3 DEF Sampled
  <2>5. k \in 1..Len(case.feed)
    BY CaseType
  <2>6. s[1].minute <= p.minute /\ p.minute \in Nat
    BY <1>3, <2>1, <2>2, <2>5, CaseType DEF OtcFits
  <2>7. t[1].minute = s[1].minute
    <3>1. CASE t[1] = s[1]
      BY <3>1
    <3>2. CASE t[1] = p /\ p.minute # s[1].minute
      <4>1. s[1].minute \in Minutes(s)
        BY <2>3 DEF Minutes
      <4>2. PICK i : IsLast(s, s[1].minute, i)
        BY <1>2, <4>1, LastIsIndexed
      <4>3. PICK j \in DOMAIN t : t[j] = s[i]
        BY <1>4, <3>2, <4>2
      <4>4. t[j].minute = s[1].minute
        BY <4>2, <4>3 DEF IsLast
      <4>5. 1 \in DOMAIN t /\ 1 <= j
        BY <1>4, <4>3
      <4>6. t[1].minute <= t[j].minute
        BY <1>4, <4>5 DEF Paired
      <4> QED
        BY <2>3, <2>6, <3>2, <4>4, <4>6
    <3> QED
      BY <1>4, <3>1, <3>2
  <2>8. \A i \in DOMAIN t : t[i].extra \in 1..n /\ case.feed[t[i].extra].minute = s[1].minute
    <3>1. p.extra \in 1..n /\ case.feed[p.extra].minute = s[1].minute
      BY <2>2, <2>4
    <3>2. \A j \in DOMAIN s : s[j].extra \in 1..n /\ case.feed[s[j].extra].minute = s[1].minute
      BY <2>1 DEF OtcFits
    <3>3. \A i \in DOMAIN t : t[i] = p \/ \E j \in DOMAIN s : t[i] = s[j]
      BY <1>4
    <3>4. ASSUME NEW i \in DOMAIN t
          PROVE  t[i].extra \in 1..n /\ case.feed[t[i].extra].minute = s[1].minute
      <4>1. CASE t[i] = p
        BY <3>1, <4>1
      <4>2. CASE t[i] # p
        <5>1. PICK j \in DOMAIN s : t[i] = s[j]
          BY <3>3, <4>2
        <5> QED
          BY <3>2, <5>1
      <4> QED
        BY <4>1, <4>2
    <3> QED
      BY <3>4
  <2>9. \A j \in 1..Len(case.feed) : case.feed[j].valued => s[1].minute <= case.feed[j].minute
    BY <2>1, <2>2 DEF OtcFits
  <2> QED
    BY <2>7, <2>8, <2>9 DEF OtcFits
<1>11. Fits(h, t, c, n, k)
  BY <1>4, <1>7, <1>8, <1>9, <1>10 DEF Fits
<1>12. ShowsLast(t, PlaceOf(h, k), k)
  BY <1>3, <1>4, <1>6 DEF ShowsLast
<1>13. \A m, i : m # PlaceOf(h, k) /\ IsLast(s, m, i) => ShowsLast(t, m, s[i].value)
  BY <1>4, <1>6 DEF ShowsLast
<1> QED
  BY <1>4, <1>5, <1>11, <1>12, <1>13 DEF p, s, Charted

\* What fits goes on to fit when more is produced and delivered.
LEMMA FitsLater ==
    ASSUME case \in Cases, NEW h, NEW s, NEW c, NEW n \in 0..Len(case.feed), NEW l \in Nat, Fits(h, s, c, n, l),
           NEW m \in n..Len(case.feed), NEW k \in Nat, l <= k
    PROVE  Fits(h, s, c, m, k)
<1>1. 1..n \subseteq 1..m /\ 1..l \subseteq 1..k
  BY CaseType
<1>2. Highs(n) \subseteq Highs(m)
  BY <1>1 DEF Highs
<1>3. s \in Seq(Point) /\ Paired(s) /\ (h = "estimated" => EstimatedFits(s, c))
  BY DEF Fits
<1>4. h \in Plain => Sampled(h, s, m)
  BY <1>1 DEF Fits, Sampled
<1>5. h = "otc" => OtcFits(s, m)
  BY <1>1 DEF Fits, OtcFits
<1>6. h = "participant" => CandleFits(s, c, m)
  <2> SUFFICES ASSUME CandleFits(s, c, n) PROVE CandleFits(s, c, m)
    BY DEF Fits
  <2> QED
    BY <1>1, <1>2 DEF CandleFits
<1>7. h = "gap" => GapFits(s, k)
  <2> SUFFICES ASSUME GapFits(s, l) PROVE GapFits(s, k)
    BY DEF Fits
  <2>1. s # <<>> => 1 \in DOMAIN s /\ s[1] \in Point /\ s[1].value \in Nat
    <3>1. s # <<>> => 1 \in DOMAIN s /\ s[1] \in Point
      BY <1>3
    <3> QED
      BY <3>1 DEF Point
  <2>2. s # <<>> => s[1].value..l \subseteq s[1].value..k
    BY <2>1
  <2> QED
    BY <1>1, <2>2 DEF GapFits
<1> QED
  BY <1>3, <1>4, <1>5, <1>6, <1>7 DEF Fits

\* What the patch effect of a hook makes of a chart.
LEMMA PatchLaw ==
    ASSUME case \in Cases, NEW n \in 0..Len(case.feed), NEW c, CacheType(c, n),
           NEW h \in hooks, NEW k \in 0..n, NEW l \in 0..k,
           NEW chart, Charted(h, chart, c, n, l)
    PROVE  LET p == Patch(h, chart, k, c)
           IN /\ Charted(h, p, c, n, k)
              /\ Takes(h, chart, k, c) => ShowsLast(p.series, PlaceOf(h, k), k)
              /\ ~Takes(h, chart, k, c) /\ h # "gap" => p = chart
              /\ h \notin {"sticky", "gap"} =>
                     \A m, i : IsLast(chart.series, m, i) =>
                         \/ ShowsLast(p.series, m, chart.series[i].value)
                         \/ ShowsLast(p.series, m, k)
<1> DEFINE p == Patch(h, chart, k, c)
           s == chart.series
<1>1. n \in Nat /\ k \in Nat /\ l \in Nat /\ l <= k /\ (k # 0 => k \in 1..n /\ k \in 1..Len(case.feed))
      /\ n \in n..Len(case.feed)
  BY CaseType
<1>2. Fits(h, s, c, n, l) /\ chart.index = IndexOf(s)
  BY DEF Charted
<1>3. s \in Seq(Point) /\ Paired(s)
  BY <1>2 DEF Fits
<1>4. \A m, i : IsLast(s, m, i) => ShowsLast(s, m, s[i].value)
  BY DEF ShowsLast, IsLast
<1>5. ASSUME p = chart
      PROVE  Charted(h, p, c, n, k)
             /\ (h \notin {"sticky", "gap"} => \A m, i : IsLast(s, m, i) =>
                         \/ ShowsLast(p.series, m, s[i].value)
                         \/ ShowsLast(p.series, m, k))
  <2>1. Fits(h, s, c, n, k)
    BY <1>2, <1>1, FitsLater
  <2>2. p.series = s /\ p.index = IndexOf(s)
    BY <1>2, <1>5
  <2> HIDE DEF p
  <2> QED
    BY <1>4, <2>1, <2>2 DEF Charted
<1>6. CASE h = "gap" /\ k = 0
  <2>1. p = chart
    BY <1>6 DEF Patch
  <2>2. ~Takes(h, chart, k, c)
    BY <1>6 DEF Takes
  <2> QED
    BY <1>5, <1>6, <2>1, <2>2
<1>7. CASE h = "gap" /\ k # 0
  <2> DEFINE g == GapCandle(s, Item(k))
  <2>1. p = Indexed(g)
    BY <1>7 DEF Patch
  <2>2. p.series = g /\ p.index = IndexOf(g)
    BY <2>1 DEF Indexed
  <2>3. GapFits(s, l)
    BY <1>2, <1>7 DEF Fits
  <2>4. /\ g \in Seq(Point) /\ Paired(g) /\ GapFits(g, k)
        /\ case.feed[k].price # 0 =>
               2 \in DOMAIN g /\ g[2].minute = 1 /\ g[2].value = k /\ Len(g) = 2
    BY <1>1, <1>3, <1>7, <2>3, GapPatchFits
  <2> HIDE DEF g, p, s
  <2>5. Fits(h, g, c, n, k)
    BY <1>7, <2>4 DEF Fits, Plain
  <2>6. ASSUME Takes(h, chart, k, c) PROVE ShowsLast(g, PlaceOf(h, k), k)
    <3>1. case.feed[k].price # 0
      BY <1>7, <2>6 DEF Takes
    <3>2. DOMAIN g = 1..2 /\ g[2].minute = 1 /\ g[2].value = k /\ 2 \in DOMAIN g
      BY <2>4, <3>1
    <3>3. IsLast(g, 1, 2)
      BY <3>2 DEF IsLast
    <3> QED
      BY <1>7, <3>2, <3>3 DEF ShowsLast, PlaceOf
  <2> QED
    BY <1>7, <2>2, <2>5, <2>6 DEF p, Charted
<1>8. CASE h # "gap" /\ ~Takes(h, chart, k, c)
  <2>1. p = chart
    BY <1>8 DEF Patch
  <2> QED
    BY <1>5, <1>8, <2>1
<1>9. CASE h = "sticky" /\ Takes(h, chart, k, c)
  <2> DEFINE t == Sticky(Row(k))
             q == [minute |-> Row(k).minute, value |-> Row(k).at, extra |-> 0]
  <2>1. p = Indexed(t)
    BY <1>9 DEF Patch
  <2>2. p.series = t /\ p.index = IndexOf(t)
    BY <2>1 DEF Indexed
  <2>3. k # 0 /\ case.feed[k].valued
    BY <1>9 DEF Takes
  <2>4. q.minute = case.feed[k].minute /\ q.value = k /\ q \in Point
    <3>1. Row(k).minute = case.feed[k].minute /\ Row(k).at = k /\ case.feed[k].minute \in Nat
      BY <1>1, <2>3, RowType, CaseType
    <3> QED
      BY <1>1, <3>1 DEF Point
  <2>5. t = <<q>>
    BY DEF Sticky
  <2> HIDE DEF q, t, p, s
  <2>6. t \in Seq(Point) /\ DOMAIN t = {1} /\ t[1] = q /\ t # <<>>
    BY <2>4, <2>5
  <2>7. Paired(t)
    <3>1. q.minute <= q.minute
      BY <2>4 DEF Point
    <3> QED
      BY <2>6, <3>1 DEF Paired
  <2>8. Sampled(h, t, n)
    BY <1>1, <2>3, <2>4, <2>6 DEF Sampled
  <2>9. Fits(h, t, c, n, k)
    BY <1>9, <2>6, <2>7, <2>8 DEF Fits
  <2>10. IsLast(t, case.feed[k].minute, 1) /\ t[1].value = k
    BY <2>4, <2>6 DEF IsLast
  <2>11. ShowsLast(t, PlaceOf(h, k), k)
    BY <1>9, <2>6, <2>10 DEF ShowsLast, PlaceOf
  <2> QED
    BY <1>9, <2>2, <2>9, <2>11 DEF p, Charted
<1>10. CASE h \notin {"sticky", "gap"} /\ Takes(h, chart, k, c)
  <2> DEFINE u == Upsert(chart.series, chart.index, LivePoint(h, chart, k, c))
  <2>1. p = u
    BY <1>10 DEF Patch
  <2>2. k \in 1..n
    BY <1>1, <1>10 DEF Takes
  <2> HIDE DEF p, s
  <2>3. /\ Charted(h, u, c, n, k)
        /\ ShowsLast(u.series, PlaceOf(h, k), k)
        /\ \A m, i : m # PlaceOf(h, k) /\ IsLast(chart.series, m, i) =>
               ShowsLast(u.series, m, chart.series[i].value)
    BY <1>10, <2>2, UpsertFits
  <2> HIDE DEF u
  <2>4. \A m, i : IsLast(chart.series, m, i) =>
            ShowsLast(u.series, m, chart.series[i].value) \/ ShowsLast(u.series, m, k)
    BY <2>3
  <2> QED
    BY <1>10, <2>1, <2>3, <2>4 DEF p, s
<1> QED
  BY <1>6, <1>7, <1>8, <1>9, <1>10

-----------------------------------------------------------------------------
(* Another cache.                                                          *)

\* Series s has every minute of the baseline b, with a value no older unless it is one up to k.
Covers(s, b, k) ==
    \A m, i : IsLast(b, m, i) =>
        \E j : IsLast(s, m, j) /\ (b[i].value <= s[j].value \/ s[j].value <= k)

\* A cache that goes from c to d forgets nothing.
Keeps(c, d) == \A part \in AllParts : d[part] = None => c[part] = None

\* A series covers itself.
LEMMA CoversItself ==
    ASSUME NEW b \in Seq(Point), NEW k
    PROVE  Covers(b, b, k)
<1> SUFFICES ASSUME NEW m, NEW i, IsLast(b, m, i)
             PROVE  \E j : IsLast(b, m, j) /\ (b[i].value <= b[j].value \/ b[j].value <= k)
  BY DEF Covers
<1>1. b[i] \in Point
  BY DEF IsLast
<1>2. b[i].value \in Nat
  BY <1>1 DEF Point
<1> QED
  BY <1>2

\* A part that is not fresh reads as it did.
LEMMA NotFresh ==
    ASSUME NEW c, NEW d, Keeps(c, d), NEW part \in AllParts, ~Fresh(c, d, part)
    PROVE  Cached(d, part) = Cached(c, part) /\ (d[part] # None => c[part] # None)
BY DEF Keeps, Fresh, Cached

\* The candles that today's does not change.
LEMMA CandlesKept ==
    ASSUME case \in Cases, "participant" \in hooks, NEW n \in 0..Len(case.feed), NEW c, NEW d,
           CacheType(c, n), CacheType(d, n), Keeps(c, d),
           ~Resets("participant", c, d)
    PROVE  \/ Candles(d) = Candles(c)
           \/ Candles(d) = <<>>
           \/ /\ Candles(d) = <<Yesterday>>
              /\ Candles(c) = <<Yesterday>> \/ \E k, j \in 1..n : Candles(c) = <<Yesterday, TodayAt(k, j)>>
<1>1. "daily" \in AllParts /\ "kbarToday" \in AllParts
  BY PartsOfHooks
<1>2. (c["daily"] = None <=> d["daily"] = None) /\ ~FreshToday(c, d)
  BY <1>1 DEF Resets, Keeps
<1> DEFINE day(x) == IF x["daily"] = None THEN <<>> ELSE <<Yesterday>>
           t == TodayCandle(Cached(c, "kbarToday"))
           u == TodayCandle(Cached(d, "kbarToday"))
<1>3. Candles(c) = day(c) \o t /\ Candles(d) = day(d) \o u
  BY DEF Candles, Yesterday
<1>4. day(d) = day(c)
  BY <1>2
<1>5. CASE ~Fresh(c, d, "kbarToday")
  <2>1. u = t
    BY <1>1, <1>5, NotFresh
  <2> HIDE DEF day, t, u
  <2> QED
    BY <1>3, <1>4, <2>1
<1>6. CASE Fresh(c, d, "kbarToday") /\ Rows("kbarToday", d["kbarToday"]) = <<>>
  <2>1. Cached(d, "kbarToday") = <<>>
    BY <1>6 DEF Cached
  <2>2. u = <<>>
    BY <2>1 DEF TodayCandle
  <2>3. CASE c["daily"] = None
    <3>1. day(d) = <<>>
      BY <1>2, <2>3
    <3> HIDE DEF day, u
    <3>2. Candles(d) = <<>> \o <<>>
      BY <1>3, <2>2, <3>1
    <3> QED
      BY <3>2
  <2>4. CASE c["daily"] # None
    <3>1. day(d) = <<Yesterday>> /\ day(c) = <<Yesterday>>
      BY <1>2, <2>4
    <3>2. Candles(d) = <<Yesterday>>
      <4> HIDE DEF day, u
      <4>1. Candles(d) = <<Yesterday>> \o <<>>
        BY <1>3, <2>2, <3>1
      <4> DEFINE y == Yesterday
      <4>2. <<y>> \o <<>> = <<y>>
        <5> HIDE DEF y
        <5> QED
          OBVIOUS
      <4> QED
        BY <4>1, <4>2
    <3>3. c["kbarToday"] \in None..n
      BY <1>1 DEF CacheType
    <3>4. Candles(c) # <<>> /\ Len(Candles(c)) >= 1 /\ Candles(c)[1] = Yesterday
      <4>1. t = <<>> \/ \E k, j \in 1..n : t = <<TodayAt(k, j)>>
        BY <3>3, TodayFits DEF TodayAt
      <4>2. t \in Seq({t[1]})
        <5>1. CASE t = <<>>
          <6> HIDE DEF t
          <6> QED
            BY <5>1
        <5>2. ASSUME NEW k \in 1..n, NEW j \in 1..n, t = <<TodayAt(k, j)>>
              PROVE  t \in Seq({t[1]})
          <6> DEFINE x == TodayAt(k, j)
          <6>1. t = <<x>>
            BY <5>2
          <6> HIDE DEF x, t
          <6> QED
            BY <6>1
        <5> QED
          BY <4>1, <5>1, <5>2
      <4> DEFINE y == Yesterday S == {y, t[1]} a == <<y>> r == a \o t
      <4>3. r = Candles(c)
        BY <1>3, <3>1
      <4>4. a \in Seq(S) /\ t \in Seq(S)
        <5>1. a \in Seq(S)
          OBVIOUS
        <5>2. {t[1]} \subseteq S
          OBVIOUS
        <5> HIDE DEF S, a, t
        <5> QED
          BY <4>2, <5>1, <5>2
      <4>5. Len(a) = 1 /\ a[1] = y
        OBVIOUS
      <4>6. r \in Seq(S) /\ Len(r) = Len(a) + Len(t)
            /\ \A i \in 1..(Len(a) + Len(t)) : r[i] = IF i <= Len(a) THEN a[i] ELSE t[i - Len(a)]
        <5> HIDE DEF S, a, t
        <5> QED
          BY <4>4, ConcatProperties
      <4> HIDE DEF S, a, t, r, y
      <4>7. Len(t) \in Nat
        BY <4>4
      <4>8. Len(r) >= 1 /\ r[1] = y
        BY <4>5, <4>6, <4>7
      <4>9. r # <<>>
        BY <4>8
      <4> QED
        BY <4>3, <4>8, <4>9 DEF y
    <3>5. \A k, j \in 1..n : Candles(c) # <<TodayAt(k, j)>>
      <4> SUFFICES ASSUME NEW k \in 1..n, NEW j \in 1..n, Candles(c) = <<TodayAt(k, j)>> PROVE FALSE
        OBVIOUS
      <4>1. Candles(c)[1] = TodayAt(k, j)
        <5> DEFINE x == TodayAt(k, j)
        <5>1. Candles(c) = <<x>>
          OBVIOUS
        <5> HIDE DEF x
        <5>2. Candles(c)[1] = x
          BY <5>1
        <5> QED
          BY <5>2 DEF x
      <4>2. TodayAt(k, j).minute = 1 /\ Yesterday.minute = 0
        BY DEF TodayAt, Yesterday
      <4> QED
        BY <3>4, <4>1, <4>2
    <3> QED
      BY <3>2, <3>3, <3>4, <3>5, CandlesShape
  <2> QED
    BY <2>3, <2>4
<1> QED
  BY <1>2, <1>5, <1>6 DEF FreshToday

\* A hook whose reset effect does not run keeps a series that fits and covers.
LEMMA NotResetLaw ==
    ASSUME case \in Cases, NEW n \in 0..Len(case.feed), NEW c, NEW d,
           CacheType(c, n), CacheType(d, n), Keeps(c, d),
           NEW h \in hooks, ~Resets(h, c, d), NEW k, NEW s
    PROVE  /\ Fits(h, s, c, n, k) => Fits(h, s, d, n, k)
           /\ Covers(s, Baseline(h, c), k) => Covers(s, Baseline(h, d), k)
           /\ h \in {"kbar", "metric"} /\ d[Part(h)] # None => c[Part(h)] # None
<1>1. h \in Hooks
  BY CaseType
<1>2. CASE h \in {"sticky", "gap"}
  <2>1. Baseline(h, d) = Baseline(h, c)
    BY <1>2 DEF Baseline
  <2>2. Fits(h, s, c, n, k) => Fits(h, s, d, n, k)
    BY <1>2 DEF Fits
  <2> QED
    BY <1>2, <2>1, <2>2
<1>3. CASE h \in {"kbar", "metric", "quote", "estimated", "otc"}
  <2>1. Part(h) \in AllParts
    BY <1>3, PartsOfHooks DEF Part
  <2>2. ~Fresh(c, d, Part(h))
    BY <1>3 DEF Resets
  <2>3. Cached(d, Part(h)) = Cached(c, Part(h)) /\ (d[Part(h)] # None => c[Part(h)] # None)
    BY <2>1, <2>2, NotFresh
  <2>4. Baseline(h, d) = Baseline(h, c)
    BY <1>3, <2>3 DEF Baseline, Part
  <2>5. h = "estimated" => (EstimatedFits(s, c) => EstimatedFits(s, d))
    BY <2>3 DEF EstimatedFits, Part
  <2>6. Fits(h, s, c, n, k) => Fits(h, s, d, n, k)
    BY <1>3, <2>5 DEF Fits
  <2> QED
    BY <2>3, <2>4, <2>6
<1>4. CASE h = "participant"
  <2>1. \/ Candles(d) = Candles(c)
        \/ Candles(d) = <<>>
        \/ /\ Candles(d) = <<Yesterday>>
           /\ Candles(c) = <<Yesterday>> \/ \E j, l \in 1..n : Candles(c) = <<Yesterday, TodayAt(j, l)>>
    BY <1>4, CandlesKept
  <2>2. Baseline(h, c) = Candles(c) /\ Baseline(h, d) = Candles(d)
    BY <1>4 DEF Baseline
  <2> DEFINE y == Yesterday
  <2>3. y.minute = 0 /\ y.value = 0
    BY DEF Yesterday
  <2>4. ASSUME CandleFits(s, c, n) PROVE CandleFits(s, d, n)
    <3>1. CASE Candles(d) = Candles(c)
      BY <2>4, <3>1 DEF CandleFits
    <3>2. CASE Candles(d) = <<>> \/ Candles(d) = <<y>>
      <4> HIDE DEF y
      <4>1. \A j \in DOMAIN Candles(d) : Candles(d)[j].minute # 1
        BY <2>3, <3>2
      <4> QED
        BY <2>4, <4>1 DEF CandleFits
    <3> QED
      BY <2>1, <3>1, <3>2
  <2>5. ASSUME NEW m, NEW i, IsLast(Candles(d), m, i)
        PROVE  \E j : IsLast(Candles(c), m, j) /\ Candles(c)[j].value = Candles(d)[i].value
    <3>1. CASE Candles(d) = Candles(c)
      BY <2>5, <3>1
    <3>2. CASE Candles(d) = <<>>
      BY <2>5, <3>2 DEF IsLast
    <3>3. CASE Candles(d) = <<y>> /\ Candles(c) = <<y>>
      BY <2>5, <3>3
    <3>4. ASSUME Candles(d) = <<y>>, NEW j \in 1..n, NEW l \in 1..n, Candles(c) = <<y, TodayAt(j, l)>>
          PROVE  \E g : IsLast(Candles(c), m, g) /\ Candles(c)[g].value = Candles(d)[i].value
      <4> DEFINE x == TodayAt(j, l)
      <4>1. x.minute = 1
        BY DEF TodayAt
      <4>2. Candles(c) = <<y, x>>
        BY <3>4
      <4> HIDE DEF x, y
      <4>3. i = 1 /\ m = 0 /\ Candles(d)[i] = y
        BY <2>3, <2>5, <3>4 DEF IsLast
      <4>4. DOMAIN Candles(c) = {1, 2} /\ Candles(c)[1] = y /\ Candles(c)[2] = x
        BY <4>2
      <4>5. IsLast(Candles(c), 0, 1)
        BY <2>3, <4>1, <4>4 DEF IsLast
      <4> QED
        BY <4>3, <4>4, <4>5
    <3> QED
      BY <2>1, <3>1, <3>2, <3>3, <3>4
  <2>6. Covers(s, Candles(c), k) => Covers(s, Candles(d), k)
    <3> HIDE DEF y
    <3> SUFFICES ASSUME Covers(s, Candles(c), k), NEW m, NEW i, IsLast(Candles(d), m, i)
                 PROVE  \E j : IsLast(s, m, j) /\ (Candles(d)[i].value <= s[j].value \/ s[j].value <= k)
      BY DEF Covers
    <3>1. PICK g : IsLast(Candles(c), m, g) /\ Candles(c)[g].value = Candles(d)[i].value
      BY <2>5
    <3> QED
      BY <3>1 DEF Covers
  <2>7. Fits(h, s, c, n, k) => Fits(h, s, d, n, k)
    BY <1>4, <2>4 DEF Fits
  <2> QED
    BY <1>4, <2>2, <2>6, <2>7
<1> QED
  BY <1>1, <1>2, <1>3, <1>4 DEF Hooks

\* A chart keeps what is promised of it: it fits, covers the baseline of c, and shows k if it takes it.
Promised(h, chart, c, n, k) ==
    Charted(h, chart, c, n, k) /\ Covers(chart.series, Baseline(h, c), k)

\* A chart shows k if it takes it.
Shows(h, chart, c, k) == Takes(h, chart, k, c) => ShowsLast(chart.series, PlaceOf(h, k), k)

\* What the patch effect makes of a chart is promised too, and shows the payload.
LEMMA PatchPromised ==
    ASSUME case \in Cases, NEW n \in 0..Len(case.feed), NEW c, CacheType(c, n),
           NEW h \in hooks, NEW k \in 0..n, NEW l \in 0..k,
           NEW chart, Promised(h, chart, c, n, l)
    PROVE  LET p == Patch(h, chart, k, c) IN Promised(h, p, c, n, k) /\ Shows(h, p, c, k)
<1> DEFINE p == Patch(h, chart, k, c)
           b == Baseline(h, c)
<1>1. Charted(h, chart, c, n, l) /\ Covers(chart.series, b, l)
  BY DEF Promised
<1>2. /\ Charted(h, p, c, n, k)
      /\ Takes(h, chart, k, c) => ShowsLast(p.series, PlaceOf(h, k), k)
      /\ ~Takes(h, chart, k, c) /\ h # "gap" => p = chart
      /\ h \notin {"sticky", "gap"} =>
             \A m, i : IsLast(chart.series, m, i) =>
                 \/ ShowsLast(p.series, m, chart.series[i].value)
                 \/ ShowsLast(p.series, m, k)
  BY <1>1, PatchLaw
<1>3. Fits(h, chart.series, c, n, l) /\ n \in Nat /\ k \in Nat /\ l \in Nat /\ l <= k
  BY <1>1, CaseType DEF Charted
<1>4. chart.series \in Seq(Point) /\ b \in Seq(Point)
  BY <1>3, BaselineFits DEF Fits
<1> HIDE DEF p
<1>5. Covers(p.series, b, k)
  <2>1. CASE h \in {"sticky", "gap"}
    <3>1. b = <<>>
      BY <2>1 DEF Baseline
    <3> HIDE DEF b
    <3> QED
      BY <3>1 DEF Covers, IsLast
  <2>2. CASE h \notin {"sticky", "gap"}
    <3> HIDE DEF b
    <3> SUFFICES ASSUME NEW m, NEW i, IsLast(b, m, i)
                 PROVE  \E j : IsLast(p.series, m, j) /\ (b[i].value <= p.series[j].value \/ p.series[j].value <= k)
      BY DEF Covers
    <3>1. PICK j : IsLast(chart.series, m, j) /\ (b[i].value <= chart.series[j].value \/ chart.series[j].value <= l)
      BY <1>1 DEF Covers
    <3>2. chart.series[j] \in Point /\ b[i] \in Point
      BY <1>4, <3>1 DEF IsLast
    <3>3. chart.series[j].value \in Nat /\ b[i].value \in Nat
      BY <3>2 DEF Point
    <3>4. ShowsLast(p.series, m, chart.series[j].value) \/ ShowsLast(p.series, m, k)
      BY <1>2, <2>2, <3>1
    <3>5. PICK g : IsLast(p.series, m, g) /\ (p.series[g].value = chart.series[j].value \/ p.series[g].value = k)
      BY <3>4 DEF ShowsLast
    <3> QED
      BY <1>3, <3>1, <3>3, <3>5
  <2> QED
    BY <2>1, <2>2
<1>6. Shows(h, p, c, k)
  <2> SUFFICES ASSUME Takes(h, p, k, c), ~Takes(h, chart, k, c) PROVE FALSE
    BY <1>2 DEF Shows
  <2>1. CASE h = "gap"
    BY <2>1 DEF Takes
  <2>2. CASE h # "gap"
    BY <1>2, <2>2
  <2> QED
    BY <2>1, <2>2
<1> QED
  BY <1>2, <1>5, <1>6 DEF Promised, p

\* So is a baseline.
LEMMA ResetPromised ==
    ASSUME case \in Cases, NEW n \in 0..Len(case.feed), NEW c, CacheType(c, n),
           NEW h \in hooks, NEW k
    PROVE  Promised(h, Reset(h, c), c, n, k)
<1> DEFINE b == Baseline(h, c)
<1>1. Fits(h, b, c, n, k)
  BY BaselineFits
<1>2. Reset(h, c).series = b /\ Reset(h, c).index = IndexOf(b)
  BY DEF Reset, Indexed
<1>3. Covers(b, b, k)
  <2>1. b \in Seq(Point)
    BY <1>1 DEF Fits
  <2> HIDE DEF b
  <2> QED
    BY <2>1, CoversItself
<1> QED
  BY <1>1, <1>2, <1>3 DEF Promised, Charted

\* The chart of a page that mounts.
LEMMA MountPromised ==
    ASSUME case \in Cases, NEW n \in 0..Len(case.feed), NEW c, CacheType(c, n),
           NEW h \in hooks, NEW k \in 0..n
    PROVE  LET p == Patch(h, Reset(h, c), k, c) IN Promised(h, p, c, n, k) /\ Shows(h, p, c, k)
<1>1. Promised(h, Reset(h, c), c, n, k)
  BY ResetPromised
<1>2. k \in 0..k
  BY CaseType
<1> QED
  BY <1>1, <1>2, PatchPromised

\* The chart after an answer. It shows the payload as far as it did, but for another baseline
\* that came without the patch effect.
LEMMA CommittedPromised ==
    ASSUME case \in Cases, NEW n \in 0..Len(case.feed), NEW c, NEW d,
           CacheType(c, n), CacheType(d, n), Keeps(c, d),
           NEW h \in hooks, latest[Channel(h)] \in 0..n,
           Promised(h, charts[h], c, n, latest[Channel(h)])
    PROVE  LET p == Committed(h, c, d)
               k == latest[Channel(h)]
           IN /\ Promised(h, p, d, n, k)
              /\ \/ Shows(h, p, d, k)
                 \/ p = charts[h] /\ (Takes(h, p, k, d) => Takes(h, p, k, c))
                 \/ h \in {"kbar", "metric"} /\ c[Part(h)] # None /\ d[Part(h)] # c[Part(h)]
                 \/ h \in {"quote", "otc"} /\ d[h] # c[h]
                 \/ h = "participant" /\ d["daily"] # c["daily"]
<1> DEFINE k == latest[Channel(h)]
           p == Committed(h, c, d)
<1>1. h \in Hooks
  BY CaseType
<1>2. CASE ~Resets(h, c, d)
  <2>1. p = charts[h]
    BY <1>2 DEF Committed
  <2> DEFINE s == charts[h].series
  <2>2. Fits(h, s, c, n, k) /\ charts[h].index = IndexOf(s) /\ Covers(s, Baseline(h, c), k)
    BY DEF Promised, Charted
  <2>3. Fits(h, s, d, n, k) /\ Covers(s, Baseline(h, d), k)
        /\ (h \in {"kbar", "metric"} /\ d[Part(h)] # None => c[Part(h)] # None)
    BY <1>2, <2>2, NotResetLaw
  <2>4. Promised(h, charts[h], d, n, k)
    BY <2>2, <2>3 DEF Promised, Charted
  <2>5. Takes(h, charts[h], k, d) => Takes(h, charts[h], k, c)
    BY <2>3 DEF Takes
  <2> HIDE DEF p
  <2> QED
    BY <2>1, <2>4, <2>5 DEF p
<1>3. CASE Resets(h, c, d) /\ Reapplies(h, c, d)
  <2>1. p = Patch(h, Reset(h, d), k, d)
    BY <1>3 DEF Committed
  <2>2. Promised(h, p, d, n, k) /\ Shows(h, p, d, k)
    BY <2>1, MountPromised
  <2> HIDE DEF p
  <2> QED
    BY <2>2 DEF p
<1>4. CASE Resets(h, c, d) /\ ~Reapplies(h, c, d)
  <2>1. p = Reset(h, d)
    BY <1>4 DEF Committed
  <2>2. Promised(h, p, d, n, k)
    BY <2>1, ResetPromised
  <2>3. \/ h \in {"kbar", "metric"} /\ c[Part(h)] # None /\ d[Part(h)] # c[Part(h)]
        \/ h \in {"quote", "otc"} /\ d[h] # c[h]
        \/ h = "participant" /\ d["daily"] # c["daily"]
    <3>1. CASE h \in {"kbar", "metric"}
      <4>1. Fresh(c, d, Part(h))
        BY <1>4, <3>1 DEF Resets
      <4>2. d[Part(h)] # None /\ (c[Part(h)] = None \/ Rows(Part(h), c[Part(h)]) # Rows(Part(h), d[Part(h)]))
        BY <4>1 DEF Fresh
      <4>3. ~(c[Part(h)] = None /\ d[Part(h)] # None)
        BY <1>4, <3>1 DEF Reapplies
      <4> QED
        BY <3>1, <4>2, <4>3
    <3>2. CASE h \in {"quote", "otc"}
      <4>1. Fresh(c, d, h)
        BY <1>4, <3>2 DEF Resets, Part
      <4>2. d[h] # None /\ (c[h] = None \/ Rows(h, c[h]) # Rows(h, d[h]))
        BY <4>1 DEF Fresh
      <4> QED
        BY <3>2, <4>2
    <3>3. CASE h = "participant"
      <4>1. ~FreshToday(c, d)
        BY <1>4, <3>3 DEF Reapplies
      <4> QED
        BY <1>4, <3>3, <4>1 DEF Resets
    <3>4. h \notin {"sticky", "gap"}
      BY <1>4 DEF Resets
    <3>5. h # "estimated"
      BY <1>4 DEF Resets, Reapplies, Part
    <3> QED
      BY <1>1, <3>1, <3>2, <3>3, <3>4, <3>5 DEF Hooks
  <2> HIDE DEF p
  <2> QED
    BY <2>2, <2>3 DEF p
<1> QED
  BY <1>2, <1>3, <1>4

-----------------------------------------------------------------------------
(* The inductive invariant.                                                *)

\* The request of q, when n samples have been produced.
Request(q, n) == [busy : BOOLEAN, tries : 0..1, served : [Parts(q) -> None..n]]

\* The channels of the real-time store.
Channels == {Channel(h) : h \in hooks}

\* Every variable has its type.
Typed ==
    /\ case \in Cases
    /\ produced \in 0..Len(case.feed)
    /\ latest \in [Channels -> 0..produced]
    /\ CacheType(cache, produced)
    /\ DOMAIN fetch = Asked /\ \A q \in Asked : fetch[q] \in Request(q, produced)
    /\ mounted \in BOOLEAN
    /\ DOMAIN charts = hooks
    /\ asks \in 0..MaxAsks /\ mounts \in 0..MaxMounts

\* Every chart fits what has been produced and fetched.
ChartsFit ==
    \A h \in hooks : Charted(h, charts[h], cache, produced, latest[Channel(h)])

\* Those of a page cover their baselines.
ChartsCover ==
    mounted => \A h \in hooks : Covers(charts[h].series, Baseline(h, cache), latest[Channel(h)])

\* Those of a page that is left are empty.
ChartsLeft == ~mounted => \A h \in hooks : charts[h] = Blank

\* The OTC index is asked for once, by the page.
OtcOnce ==
    "otc" \in hooks => /\ ~mounted => cache["otc"] = None
                       /\ fetch["otc"].busy => mounted /\ cache["otc"] = None

\* The invariant: TypeOK and the properties are read off it.
IInv == Typed /\ ChartsFit /\ ChartsCover /\ ChartsLeft /\ OtcOnce

\* What is said of a case stays so, since the case does.
LEMMA SameCase ==
    ASSUME case' = case, NEW CONSTANT h, NEW CONSTANT chart, NEW CONSTANT c, NEW CONSTANT n, NEW CONSTANT k
    PROVE  /\ Charted(h, chart, c, n, k)' = Charted(h, chart, c, n, k)
           /\ Baseline(h, c)' = Baseline(h, c)
           /\ Takes(h, chart, k, c)' = Takes(h, chart, k, c)
           /\ PlaceOf(h, k)' = PlaceOf(h, k)
<1>1. Charted(h, chart, c, n, k)' = Charted(h, chart, c, n, k)
  BY DEF Charted, Fits, Sampled, OtcFits, EstimatedFits, CandleFits, Candles, Cached, Rows, Kept, Row, Highs,
         GapFits
<1>2. Baseline(h, c)' = Baseline(h, c)
  BY DEF Baseline, Candles, Cached, Rows, Kept, Row
<1>3. Takes(h, chart, k, c)' = Takes(h, chart, k, c)
  BY DEF Takes
<1>4. PlaceOf(h, k)' = PlaceOf(h, k)
  BY DEF PlaceOf
<1> QED
  BY <1>1, <1>2, <1>3, <1>4

\* What the hooks ask for, and the parts of it.
LEMMA HooksAsk ==
    ASSUME case \in Cases
    PROVE  /\ \A h \in hooks : Channel(h) \in Channels
           /\ \A q \in Asked : Parts(q) \subseteq AllParts
           /\ "otc" \in hooks <=> "otc" \in Asked
           /\ \A q \in Asked : "otc" \in Parts(q) => q = "otc"
<1>1. /\ \A h \in hooks : Channel(h) \in Channels
      /\ \A q \in Asked : Parts(q) \subseteq AllParts
  BY DEF Channels, AllParts
<1>2. \A q : "otc" \in Parts(q) => q = "otc"
  BY DEF Parts
<1>3. "otc" \in hooks <=> "otc" \in Asked
  <2>1. "otc" \in Queries("otc")
    BY DEF Queries
  <2>2. \A h : "otc" \in Queries(h) => h = "otc"
    BY DEF Queries
  <2> QED
    BY <2>1, <2>2 DEF Asked
<1> QED
  BY <1>1, <1>2, <1>3

\* The invariant after a step, from what holds of the new values.
LEMMA Primed ==
    ASSUME case' = case, case \in Cases,
           produced' \in 0..Len(case.feed),
           latest' \in [Channels -> 0..produced'],
           CacheType(cache', produced'),
           DOMAIN fetch' = Asked, \A q \in Asked : fetch'[q] \in Request(q, produced'),
           mounted' \in BOOLEAN,
           DOMAIN charts' = hooks,
           asks' \in 0..MaxAsks, mounts' \in 0..MaxMounts,
           \A h \in hooks : Charted(h, charts'[h], cache', produced', latest'[Channel(h)]),
           mounted' => \A h \in hooks :
               Covers(charts'[h].series, Baseline(h, cache'), latest'[Channel(h)]),
           ~mounted' => \A h \in hooks : charts'[h] = Blank,
           "otc" \in hooks => /\ ~mounted' => cache'["otc"] = None
                              /\ fetch'["otc"].busy => mounted' /\ cache'["otc"] = None
    PROVE  IInv'
<1>1. hooks' = hooks /\ Asked' = Asked /\ AllParts' = AllParts /\ Channels' = Channels
  BY DEF hooks, Asked, AllParts, Channels
<1>2. Typed'
  BY <1>1 DEF Typed, CacheType
<1>3. ChartsFit'
  BY <1>1, SameCase DEF ChartsFit
<1>4. ChartsCover'
  BY <1>1, SameCase DEF ChartsCover
<1>5. ChartsLeft'
  BY <1>1 DEF ChartsLeft, Blank
<1>6. OtcOnce'
  BY <1>1 DEF OtcOnce
<1> QED
  BY <1>2, <1>3, <1>4, <1>5, <1>6 DEF IInv

\* A chart without points fits any cache and covers no baseline but an empty one.
LEMMA BlankCharted ==
    ASSUME NEW h, NEW c, NEW n, NEW k
    PROVE  Charted(h, Blank, c, n, k)
<1>1. Blank.series = <<>> /\ Blank.index = IndexOf(<<>>)
  BY IndexOfEmpty DEF Blank
<1>2. <<>> \in Seq(Point) /\ DOMAIN <<>> = {}
  OBVIOUS
<1> QED
  BY <1>1, <1>2 DEF Charted, Fits, Paired, Sampled, EstimatedFits, OtcFits, CandleFits, GapFits

\* A hook's channel in the real-time store.
LEMMA LatestType ==
    ASSUME Typed, NEW h \in hooks
    PROVE  /\ latest[Channel(h)] \in 0..produced /\ latest[Channel(h)] \in Nat
           /\ produced \in Nat /\ Len(case.feed) \in Nat /\ produced \in 0..Len(case.feed)
<1>1. produced \in Nat /\ Len(case.feed) \in Nat
  BY CaseType DEF Typed
<1>2. Channel(h) \in Channels
  BY DEF Channels
<1> QED
  BY <1>1, <1>2 DEF Typed

-----------------------------------------------------------------------------
(* Every step keeps the invariant.                                         *)

\* The requests a query starts, begins and fails with.
LEMMA IdleType ==
    ASSUME NEW q, NEW n \in Nat
    PROVE  /\ Idle(q) \in Request(q, n) /\ [Idle(q) EXCEPT !.busy = TRUE] \in Request(q, n)
           /\ FailsTo(q) \in Request(q, n)
           /\ ~Idle(q).busy /\ FailsTo("otc") = Idle("otc")
<1>1. None \in None..n
  BY DEF None
<1>2. Idle(q) \in Request(q, n) /\ ~Idle(q).busy
  BY <1>1 DEF Idle, Request
<1> DEFINE idle == Idle(q)
           begun == [idle EXCEPT !.busy = TRUE]
<1>3. begun \in Request(q, n)
  <2> HIDE DEF idle
  <2> QED
    BY <1>2 DEF Request, idle
<1>4. [Idle(q) EXCEPT !.busy = TRUE, !.tries = 1] \in Request(q, n)
  <2>1. [idle EXCEPT !.busy = TRUE, !.tries = 1] = [begun EXCEPT !.tries = 1]
    <3> HIDE DEF idle
    <3> QED
      OBVIOUS
  <2>2. [begun EXCEPT !.tries = 1] \in Request(q, n)
    <3> HIDE DEF begun
    <3> QED
      BY <1>3 DEF Request
  <2> QED
    BY <2>1, <2>2
<1>5. FailsTo(q) \in Request(q, n)
  BY <1>2, <1>4 DEF FailsTo
<1>6. FailsTo("otc") = Idle("otc")
  BY DEF FailsTo
<1> QED
  BY <1>2, <1>3, <1>5, <1>6

\* A request keeps its type when more is produced.
LEMMA RequestLater ==
    ASSUME NEW q, NEW n \in Nat, NEW m \in Nat, n <= m, NEW r \in Request(q, n)
    PROVE  r \in Request(q, m)
<1>1. None..n \subseteq None..m
  BY DEF None
<1> QED
  BY <1>1 DEF Request

\* The invariant holds at first.
LEMMA InitInv == Init => IInv
<1> SUFFICES ASSUME Init PROVE IInv
  OBVIOUS
<1>1. case \in Cases /\ produced = 0 /\ Len(case.feed) \in Nat
  BY CaseType DEF Init
<1>2. CacheType(cache, produced)
  <2>1. None \in None..0
    BY DEF None
  <2> QED
    BY <1>1, <2>1 DEF Init, CacheType
<1>3. DOMAIN fetch = Asked /\ \A q \in Asked : fetch[q] = Idle(q) /\ fetch[q] \in Request(q, produced)
  BY <1>1, IdleType DEF Init
<1>4. latest \in [Channels -> 0..produced]
  BY <1>1 DEF Init, Channels
<1>5. asks \in 0..MaxAsks /\ mounts \in 0..MaxMounts /\ mounted = FALSE
  BY TimelinesAssumption DEF Init
<1>6. DOMAIN charts = hooks /\ \A h \in hooks : charts[h] = Blank
  BY DEF Init
<1>7. Typed
  <2>1. produced \in 0..Len(case.feed)
    BY <1>1
  <2>2. mounted \in BOOLEAN
    BY <1>5
  <2> QED
    BY <1>1, <1>2, <1>3, <1>4, <1>5, <1>6, <2>1, <2>2 DEF Typed
<1>8. ChartsFit
  BY <1>6, BlankCharted DEF ChartsFit
<1>9. OtcOnce
  <2> SUFFICES ASSUME "otc" \in hooks
               PROVE  cache["otc"] = None /\ ~fetch["otc"].busy
    BY DEF OtcOnce
  <2>1. "otc" \in Asked /\ "otc" \in AllParts
    BY <1>1, HooksAsk, PartsOfHooks
  <2> QED
    BY <1>1, <1>3, <2>1, IdleType DEF Init
<1> QED
  BY <1>5, <1>6, <1>7, <1>8, <1>9 DEF IInv, ChartsCover, ChartsLeft

\* A sample is produced: the charts are not touched, and still fit.
LEMMA ProduceInv == IInv /\ Produce => IInv'
<1> SUFFICES ASSUME IInv, Produce PROVE IInv'
  OBVIOUS
<1>1. case \in Cases /\ produced \in Nat /\ Len(case.feed) \in Nat /\ produced < Len(case.feed)
      /\ produced' = produced + 1
      /\ produced \in 0..Len(case.feed) /\ produced' \in 0..Len(case.feed) /\ produced' \in produced..Len(case.feed)
  <2>1. case \in Cases /\ produced \in 0..Len(case.feed)
    BY DEF IInv, Typed
  <2>2. Len(case.feed) \in Nat
    BY <2>1, CaseType
  <2>3. produced < Len(case.feed) /\ produced' = produced + 1
    BY DEF Produce
  <2> QED
    BY <2>1, <2>2, <2>3
<1>2. UNCHANGED <<case, latest, cache, fetch, mounted, charts, asks, mounts>>
  BY DEF Produce
<1>3. latest' \in [Channels -> 0..produced']
  <2>1. 0..produced \subseteq 0..produced'
    BY <1>1
  <2> QED
    BY <1>2, <2>1 DEF IInv, Typed
<1>4. CacheType(cache', produced')
  <2>1. None..produced \subseteq None..produced'
    BY <1>1 DEF None
  <2> QED
    BY <1>2, <2>1 DEF IInv, Typed, CacheType
<1>5. \A q \in Asked : fetch'[q] \in Request(q, produced')
  <2>1. produced' \in Nat /\ produced <= produced'
    BY <1>1
  <2> QED
    BY <1>1, <1>2, <2>1, RequestLater DEF IInv, Typed
<1>6. ASSUME NEW h \in hooks
      PROVE  Charted(h, charts'[h], cache', produced', latest'[Channel(h)])
  <2>1. latest[Channel(h)] \in Nat /\ latest[Channel(h)] <= latest[Channel(h)]
    BY LatestType DEF IInv
  <2>2. Fits(h, charts[h].series, cache, produced, latest[Channel(h)])
        /\ charts[h].index = IndexOf(charts[h].series)
    BY DEF IInv, ChartsFit, Charted
  <2>3. Fits(h, charts[h].series, cache, produced', latest[Channel(h)])
    BY <1>1, <2>1, <2>2, FitsLater
  <2> QED
    BY <1>2, <2>2, <2>3 DEF Charted
<1>7. mounted' => \A h \in hooks : Covers(charts'[h].series, Baseline(h, cache'), latest'[Channel(h)])
  BY <1>2 DEF IInv, ChartsCover
<1>8. ~mounted' => \A h \in hooks : charts'[h] = Blank
  BY <1>2 DEF IInv, ChartsLeft
<1>9. "otc" \in hooks => /\ ~mounted' => cache'["otc"] = None
                         /\ fetch'["otc"].busy => mounted' /\ cache'["otc"] = None
  BY <1>2 DEF IInv, OtcOnce
<1>10. /\ case' = case /\ DOMAIN fetch' = Asked /\ mounted' \in BOOLEAN /\ DOMAIN charts' = hooks
       /\ asks' \in 0..MaxAsks /\ mounts' \in 0..MaxMounts
  BY <1>2 DEF IInv, Typed
<1> QED
  BY <1>1, <1>3, <1>4, <1>5, <1>6, <1>7, <1>8, <1>9, <1>10, Primed

\* A step that changes requests only.
LEMMA FetchInv ==
    ASSUME IInv, UNCHANGED <<case, produced, latest, cache, mounted, charts>>,
           DOMAIN fetch' = Asked, \A q \in Asked : fetch'[q] \in Request(q, produced),
           "otc" \in hooks /\ fetch'["otc"].busy => mounted /\ cache["otc"] = None,
           asks' \in 0..MaxAsks, mounts' = mounts
    PROVE  IInv'
<1>1. /\ case' = case /\ case \in Cases /\ produced' \in 0..Len(case.feed)
      /\ latest' \in [Channels -> 0..produced'] /\ CacheType(cache', produced')
      /\ mounted' \in BOOLEAN /\ DOMAIN charts' = hooks
      /\ mounts' \in 0..MaxMounts
  BY DEF IInv, Typed
<1>2. \A q \in Asked : fetch'[q] \in Request(q, produced')
  OBVIOUS
<1>3. \A h \in hooks : Charted(h, charts'[h], cache', produced', latest'[Channel(h)])
  BY DEF IInv, ChartsFit
<1>4. mounted' => \A h \in hooks : Covers(charts'[h].series, Baseline(h, cache'), latest'[Channel(h)])
  BY DEF IInv, ChartsCover
<1>5. ~mounted' => \A h \in hooks : charts'[h] = Blank
  BY DEF IInv, ChartsLeft
<1>6. "otc" \in hooks => /\ ~mounted' => cache'["otc"] = None
                         /\ fetch'["otc"].busy => mounted' /\ cache'["otc"] = None
  BY DEF IInv, OtcOnce
<1> QED
  BY <1>1, <1>2, <1>3, <1>4, <1>5, <1>6, Primed

\* What Begun begins.
LEMMA BegunType ==
    ASSUME IInv, NEW qs
    PROVE  /\ DOMAIN Begun(qs) = Asked
           /\ \A q \in Asked : /\ Begun(qs)[q] \in Request(q, produced)
                               /\ Begun(qs)[q].busy => q \in qs \/ fetch[q].busy
<1>1. produced \in Nat
  BY CaseType DEF IInv, Typed
<1>2. ASSUME NEW q \in Asked
      PROVE  /\ Begun(qs)[q] \in Request(q, produced)
             /\ Begun(qs)[q].busy => q \in qs \/ fetch[q].busy
  <2>1. fetch[q] \in Request(q, produced)
    BY DEF IInv, Typed
  <2>2. [Idle(q) EXCEPT !.busy = TRUE] \in Request(q, produced)
    BY <1>1, IdleType
  <2>3. CASE q \in qs /\ ~fetch[q].busy
    <3>1. Begun(qs)[q] = [Idle(q) EXCEPT !.busy = TRUE]
      BY <2>3 DEF Begun
    <3> QED
      BY <2>2, <2>3, <3>1
  <2>4. CASE ~(q \in qs /\ ~fetch[q].busy)
    <3>1. Begun(qs)[q] = fetch[q]
      BY <2>4 DEF Begun
    <3> QED
      BY <2>1, <3>1
  <2> QED
    BY <2>3, <2>4
<1>3. DOMAIN Begun(qs) = Asked
  BY DEF Begun
<1> QED
  BY <1>2, <1>3

\* A query that is asked for.
LEMMA AskInv == ASSUME IInv, NEW q \in Asked, Ask(q) PROVE IInv'
<1>1. fetch' = Begun({q}) /\ q # "otc" /\ asks < MaxAsks /\ asks' = asks + 1
      /\ UNCHANGED <<case, produced, latest, cache, mounted, charts, mounts>>
  BY DEF Ask
<1>2. asks' \in 0..MaxAsks
  BY <1>1, TimelinesAssumption DEF IInv, Typed
<1>3. "otc" \in hooks /\ fetch'["otc"].busy => mounted /\ cache["otc"] = None
  <2> SUFFICES ASSUME "otc" \in hooks, fetch'["otc"].busy PROVE mounted /\ cache["otc"] = None
    OBVIOUS
  <2>1. "otc" \in Asked
    BY HooksAsk DEF IInv, Typed
  <2>2. fetch["otc"].busy
    BY <1>1, <2>1, BegunType
  <2> QED
    BY <2>2 DEF IInv, OtcOnce
<1> QED
  BY <1>1, <1>2, <1>3, BegunType, FetchInv

\* A request that is answered.
LEMMA ServeInv == ASSUME IInv, NEW q \in Asked, Serve(q) PROVE IInv'
<1>1. PICK p \in Parts(q) :
          fetch' = [fetch EXCEPT ![q].served[p] = IF q = "daily" THEN 0 ELSE produced]
  BY DEF Serve, Served
<1>2. fetch[q].busy /\ UNCHANGED <<case, produced, latest, cache, mounted, charts, asks, mounts>>
  BY DEF Serve, Served
<1>3. produced \in Nat /\ DOMAIN fetch = Asked /\ \A r \in Asked : fetch[r] \in Request(r, produced)
  BY CaseType DEF IInv, Typed
<1>4. (IF q = "daily" THEN 0 ELSE produced) \in None..produced
  BY <1>3 DEF None
<1>5. DOMAIN fetch' = Asked /\ \A r \in Asked \ {q} : fetch'[r] = fetch[r]
  BY <1>1, <1>3
<1>6. fetch'[q] \in Request(q, produced) /\ fetch'[q].busy = fetch[q].busy
  <2>1. fetch'[q] = [fetch[q] EXCEPT !.served[p] = IF q = "daily" THEN 0 ELSE produced]
    BY <1>1, <1>3
  <2>2. fetch[q] \in Request(q, produced)
    BY <1>3
  <2> QED
    BY <1>4, <2>1, <2>2 DEF Request
<1>7. "otc" \in hooks /\ fetch'["otc"].busy => mounted /\ cache["otc"] = None
  <2> SUFFICES ASSUME "otc" \in hooks, fetch'["otc"].busy PROVE fetch["otc"].busy
    BY DEF IInv, OtcOnce
  <2>1. "otc" \in Asked
    BY HooksAsk DEF IInv, Typed
  <2> QED
    BY <1>5, <1>6, <2>1
<1>8. asks' \in 0..MaxAsks
  BY <1>2 DEF IInv, Typed
<1>9. \A r \in Asked : fetch'[r] \in Request(r, produced)
  BY <1>3, <1>5, <1>6
<1> QED
  BY <1>2, <1>5, <1>7, <1>8, <1>9, FetchInv

\* A chart that is left fits whatever the cache and the store become.
LEMMA LeftFits ==
    ASSUME IInv, ~mounted, NEW h \in hooks, NEW c, NEW n, NEW k
    PROVE  charts[h] = Blank /\ Charted(h, charts[h], c, n, k)
BY BlankCharted DEF IInv, ChartsLeft

\* A chart of a mounted page fits and covers.
LEMMA MountedPromised ==
    ASSUME IInv, mounted, NEW h \in hooks
    PROVE  Promised(h, charts[h], cache, produced, latest[Channel(h)])
BY DEF IInv, ChartsFit, ChartsCover, Promised

\* The samples a batch may bring, to the hooks of its channel.
LEMMA DeliverChart ==
    ASSUME IInv, NEW h \in hooks, NEW k \in (latest[Channel(h)] + 1)..produced, mounted
    PROVE  LET p == Patch(h, charts[h], k, cache)
           IN Promised(h, p, cache, produced, k) /\ Shows(h, p, cache, k)
<1>1. /\ latest[Channel(h)] \in Nat /\ produced \in Nat /\ produced \in 0..Len(case.feed)
      /\ case \in Cases /\ CacheType(cache, produced)
  BY LatestType DEF IInv, Typed
<1>2. k \in 0..produced /\ latest[Channel(h)] \in 0..k
  BY <1>1
<1>3. Promised(h, charts[h], cache, produced, latest[Channel(h)])
  BY MountedPromised
<1> QED
  BY <1>1, <1>2, <1>3, PatchPromised

\* A batch that is delivered.
LEMMA DeliverInv == ASSUME IInv, NEW c \in DOMAIN latest, Deliver(c) PROVE IInv'
<1>1. PICK k \in (latest[c] + 1)..produced :
          /\ latest' = [latest EXCEPT ![c] = k]
          /\ charts' = [h \in hooks |->
                 IF mounted /\ Channel(h) = c THEN Patch(h, charts[h], k, cache) ELSE charts[h]]
  BY DEF Deliver
<1>2. UNCHANGED <<case, produced, cache, fetch, mounted, asks, mounts>>
  BY DEF Deliver
<1>3. /\ case \in Cases /\ produced \in Nat /\ produced \in 0..Len(case.feed) /\ Len(case.feed) \in Nat
      /\ latest \in [Channels -> 0..produced] /\ c \in Channels
      /\ CacheType(cache, produced) /\ produced \in produced..Len(case.feed)
  BY CaseType DEF IInv, Typed
<1>4. latest[c] \in Nat /\ k \in 0..produced /\ latest[c] <= k
  BY <1>3
<1>5. latest' \in [Channels -> 0..produced'] /\ latest'[c] = k
      /\ \A h \in hooks : Channel(h) # c => latest'[Channel(h)] = latest[Channel(h)]
  <2>1. \A h \in hooks : Channel(h) \in Channels
    BY DEF Channels
  <2> QED
    BY <1>1, <1>2, <1>3, <1>4, <2>1
<1>6. \A h \in hooks :
          charts'[h] = IF mounted /\ Channel(h) = c THEN Patch(h, charts[h], k, cache) ELSE charts[h]
  BY <1>1
<1>7. ASSUME NEW h \in hooks
      PROVE  /\ Charted(h, charts'[h], cache, produced, latest'[Channel(h)])
             /\ mounted => Covers(charts'[h].series, Baseline(h, cache), latest'[Channel(h)])
             /\ ~mounted => charts'[h] = Blank
  <2>1. CASE mounted /\ Channel(h) = c
    <3>1. charts'[h] = Patch(h, charts[h], k, cache) /\ latest'[Channel(h)] = k
      BY <1>5, <1>6, <2>1
    <3>2. Promised(h, Patch(h, charts[h], k, cache), cache, produced, k)
      BY <2>1, DeliverChart
    <3> QED
      BY <2>1, <3>1, <3>2 DEF Promised
  <2>2. CASE mounted /\ Channel(h) # c
    <3>1. charts'[h] = charts[h] /\ latest'[Channel(h)] = latest[Channel(h)]
      BY <1>5, <1>6, <2>2
    <3>2. Promised(h, charts[h], cache, produced, latest[Channel(h)])
      BY <2>2, MountedPromised
    <3> QED
      BY <2>2, <3>1, <3>2 DEF Promised
  <2>3. CASE ~mounted
    <3>1. charts'[h] = charts[h]
      BY <1>6, <2>3
    <3>2. charts[h] = Blank /\ Charted(h, charts[h], cache, produced, latest'[Channel(h)])
      BY <2>3, LeftFits
    <3> QED
      BY <2>3, <3>1, <3>2
  <2> QED
    BY <2>1, <2>2, <2>3
<1>8. /\ DOMAIN fetch' = Asked /\ \A q \in Asked : fetch'[q] \in Request(q, produced')
      /\ mounted' \in BOOLEAN /\ asks' \in 0..MaxAsks /\ mounts' \in 0..MaxMounts
      /\ produced' \in 0..Len(case.feed) /\ CacheType(cache', produced') /\ case' = case
  BY <1>2 DEF IInv, Typed
<1>9. "otc" \in hooks => /\ ~mounted' => cache'["otc"] = None
                         /\ fetch'["otc"].busy => mounted' /\ cache'["otc"] = None
  BY <1>2 DEF IInv, OtcOnce
<1>10. DOMAIN charts' = hooks
  BY <1>1
<1>11. /\ \A h \in hooks : Charted(h, charts'[h], cache', produced', latest'[Channel(h)])
       /\ mounted' => \A h \in hooks : Covers(charts'[h].series, Baseline(h, cache'), latest'[Channel(h)])
       /\ ~mounted' => \A h \in hooks : charts'[h] = Blank
  BY <1>2, <1>7
<1> QED
  BY <1>3, <1>5, <1>8, <1>9, <1>10, <1>11, Primed

\* The cache of an answer.
LEMMA AnswerCache ==
    ASSUME IInv, NEW q \in Asked, Answer(q)
    PROVE  /\ CacheType(cache', produced) /\ Keeps(cache, cache')
           /\ q # "otc" /\ "otc" \in hooks => cache'["otc"] = cache["otc"]
<1>1. /\ cache' = [p \in AllParts |-> IF p \in Parts(q) THEN fetch[q].served[p] ELSE cache[p]]
      /\ \A p \in Parts(q) : fetch[q].served[p] # None
  BY DEF Answer, Resolved
<1>2. /\ fetch[q] \in Request(q, produced) /\ CacheType(cache, produced)
  BY DEF IInv, Typed
<1>3. fetch[q].served \in [Parts(q) -> None..produced]
  BY <1>2 DEF Request
<1>4. \A p \in AllParts : cache'[p] = IF p \in Parts(q) THEN fetch[q].served[p] ELSE cache[p]
  BY <1>1
<1>5. CacheType(cache', produced)
  BY <1>1, <1>2, <1>3 DEF CacheType
<1>6. Keeps(cache, cache')
  BY <1>1, <1>4 DEF Keeps
<1>7. ASSUME q # "otc", "otc" \in hooks PROVE cache'["otc"] = cache["otc"]
  <2>1. "otc" \in AllParts /\ "otc" \notin Parts(q)
    BY <1>7, HooksAsk, PartsOfHooks DEF IInv, Typed
  <2> QED
    BY <1>4, <2>1
<1> QED
  BY <1>5, <1>6, <1>7

\* The charts after an answer: see CommittedPromised.
LEMMA AnswerChart ==
    ASSUME IInv, NEW q \in Asked, Answer(q), mounted, NEW h \in hooks
    PROVE  LET p == Committed(h, cache, cache')
               k == latest[Channel(h)]
           IN /\ charts'[h] = p
              /\ Promised(h, p, cache', produced, k)
              /\ \/ Shows(h, p, cache', k)
                 \/ p = charts[h] /\ (Takes(h, p, k, cache') => Takes(h, p, k, cache))
                 \/ h \in {"kbar", "metric"} /\ cache[Part(h)] # None /\ cache'[Part(h)] # cache[Part(h)]
                 \/ h \in {"quote", "otc"} /\ cache'[h] # cache[h]
                 \/ h = "participant" /\ cache'["daily"] # cache["daily"]
<1>1. charts' = [g \in hooks |-> IF mounted THEN Committed(g, cache, cache') ELSE charts[g]]
  BY DEF Answer
<1>2. /\ case \in Cases /\ produced \in 0..Len(case.feed) /\ CacheType(cache, produced)
      /\ latest[Channel(h)] \in 0..produced
  BY LatestType DEF IInv, Typed
<1>3. CacheType(cache', produced) /\ Keeps(cache, cache')
  BY AnswerCache
<1>4. Promised(h, charts[h], cache, produced, latest[Channel(h)])
  BY MountedPromised
<1> QED
  BY <1>1, <1>2, <1>3, <1>4, CommittedPromised

\* A query that resolves.
LEMMA AnswerInv == ASSUME IInv, NEW q \in Asked, Answer(q) PROVE IInv'
<1>1. UNCHANGED <<case, produced, latest, mounted, asks, mounts>>
      /\ charts' = [h \in hooks |-> IF mounted THEN Committed(h, cache, cache') ELSE charts[h]]
      /\ fetch' = [fetch EXCEPT ![q] = Idle(q)] /\ fetch[q].busy
  BY DEF Answer, Resolved
<1>2. /\ case \in Cases /\ produced \in Nat /\ DOMAIN fetch = Asked
      /\ \A r \in Asked : fetch[r] \in Request(r, produced)
  BY CaseType DEF IInv, Typed
<1>3. DOMAIN fetch' = Asked /\ fetch'[q] = Idle(q) /\ \A r \in Asked \ {q} : fetch'[r] = fetch[r]
  BY <1>1, <1>2
<1>4. \A r \in Asked : fetch'[r] \in Request(r, produced')
  BY <1>1, <1>2, <1>3, IdleType
<1>5. "otc" \in hooks => /\ ~mounted' => cache'["otc"] = None
                         /\ fetch'["otc"].busy => mounted' /\ cache'["otc"] = None
  <2> SUFFICES ASSUME "otc" \in hooks
               PROVE  /\ ~mounted' => cache'["otc"] = None
                      /\ fetch'["otc"].busy => mounted' /\ cache'["otc"] = None
    OBVIOUS
  <2>1. /\ ~mounted => cache["otc"] = None
        /\ fetch["otc"].busy => mounted /\ cache["otc"] = None
    BY DEF IInv, OtcOnce
  <2>2. "otc" \in Asked
    BY <1>2, HooksAsk
  <2>3. CASE q = "otc"
    <3>1. ~fetch'["otc"].busy
      BY <1>2, <1>3, <2>3, IdleType
    <3>2. mounted'
      BY <1>1, <2>1, <2>3
    <3> QED
      BY <3>1, <3>2
  <2>4. CASE q # "otc"
    <3>1. cache'["otc"] = cache["otc"]
      BY <2>4, AnswerCache
    <3>2. fetch'["otc"] = fetch["otc"]
      BY <1>3, <2>2, <2>4
    <3> QED
      BY <1>1, <2>1, <3>1, <3>2
  <2> QED
    BY <2>3, <2>4
<1>6. ASSUME NEW h \in hooks
      PROVE  /\ Charted(h, charts'[h], cache', produced, latest[Channel(h)])
             /\ mounted => Covers(charts'[h].series, Baseline(h, cache'), latest[Channel(h)])
             /\ ~mounted => charts'[h] = Blank
  <2>1. CASE mounted
    <3>1. Promised(h, charts'[h], cache', produced, latest[Channel(h)])
      BY <2>1, AnswerChart
    <3> QED
      BY <2>1, <3>1 DEF Promised
  <2>2. CASE ~mounted
    <3>1. charts'[h] = charts[h]
      BY <1>1, <2>2
    <3>2. charts[h] = Blank /\ Charted(h, charts[h], cache', produced, latest[Channel(h)])
      BY <2>2, LeftFits
    <3> QED
      BY <2>2, <3>1, <3>2
  <2> QED
    BY <2>1, <2>2
<1>7. /\ case' = case /\ produced' \in 0..Len(case.feed) /\ latest' \in [Channels -> 0..produced']
      /\ mounted' \in BOOLEAN /\ asks' \in 0..MaxAsks /\ mounts' \in 0..MaxMounts
  BY <1>1 DEF IInv, Typed
<1>8. DOMAIN charts' = hooks /\ CacheType(cache', produced')
  BY <1>1, AnswerCache
<1>9. /\ \A h \in hooks : Charted(h, charts'[h], cache', produced', latest'[Channel(h)])
      /\ mounted' => \A h \in hooks : Covers(charts'[h].series, Baseline(h, cache'), latest'[Channel(h)])
      /\ ~mounted' => \A h \in hooks : charts'[h] = Blank
  BY <1>1, <1>6
<1> QED
  BY <1>2, <1>3, <1>4, <1>5, <1>7, <1>8, <1>9, Primed

\* A request that fails: the OTC index has no baseline when its series goes.
LEMMA FailInv == ASSUME IInv, NEW q \in Asked, Fail(q) PROVE IInv'
<1>1. UNCHANGED <<case, produced, latest, cache, mounted, asks, mounts>>
      /\ fetch' = [fetch EXCEPT ![q] = FailsTo(q)] /\ fetch[q].busy
      /\ charts' = IF q = "otc" THEN [charts EXCEPT !["otc"] = Blank] ELSE charts
  BY DEF Fail
<1>2. /\ case \in Cases /\ produced \in Nat /\ DOMAIN fetch = Asked /\ DOMAIN charts = hooks
      /\ \A r \in Asked : fetch[r] \in Request(r, produced)
  BY CaseType DEF IInv, Typed
<1>3. DOMAIN fetch' = Asked /\ fetch'[q] = FailsTo(q) /\ \A r \in Asked \ {q} : fetch'[r] = fetch[r]
  BY <1>1, <1>2
<1>4. \A r \in Asked : fetch'[r] \in Request(r, produced)
  BY <1>2, <1>3, IdleType
<1>5. "otc" \in hooks /\ fetch'["otc"].busy => mounted /\ cache["otc"] = None
  <2> SUFFICES ASSUME "otc" \in hooks, fetch'["otc"].busy PROVE mounted /\ cache["otc"] = None
    OBVIOUS
  <2>1. "otc" \in Asked
    BY <1>2, HooksAsk
  <2>2. q # "otc"
    BY <1>2, <1>3, IdleType
  <2>3. fetch["otc"].busy
    BY <1>3, <2>1, <2>2
  <2> QED
    BY <2>3 DEF IInv, OtcOnce
<1>6. asks' \in 0..MaxAsks /\ mounts' = mounts
  BY <1>1 DEF IInv, Typed
<1>7. CASE q # "otc"
  <2>1. charts' = charts
    BY <1>1, <1>7
  <2> QED
    BY <1>1, <1>3, <1>4, <1>5, <1>6, <2>1, FetchInv
<1>8. CASE q = "otc" /\ "otc" \in hooks
  <2>1. mounted /\ cache["otc"] = None
    BY <1>1, <1>8 DEF IInv, OtcOnce
  <2>2. charts'["otc"] = Blank /\ DOMAIN charts' = hooks /\ \A h \in hooks \ {"otc"} : charts'[h] = charts[h]
    BY <1>1, <1>2, <1>8
  <2>3. ASSUME NEW h \in hooks
        PROVE  /\ Charted(h, charts'[h], cache, produced, latest[Channel(h)])
               /\ Covers(charts'[h].series, Baseline(h, cache), latest[Channel(h)])
    <3>1. CASE h = "otc"
      <4>1. Cached(cache, "otc") = <<>>
        BY <2>1 DEF Cached
      <4>2. Baseline(h, cache) = OtcBaseline(<<>>)
        BY <3>1, <4>1 DEF Baseline
      <4>3. CacheType(cache, produced) /\ case \in Cases /\ produced \in 0..Len(case.feed)
        BY DEF IInv, Typed
      <4>4. OtcBaseline(<<>>) = <<>>
        <5>1. /\ <<>> \in Seq(RowSet) /\ DOMAIN <<>> = {}
          OBVIOUS
        <5> DEFINE s == OtcBaseline(<<>>) V == {p \in DOMAIN <<>> : <<>>[p].valued}
        <5>2. MadeOf(s, <<>>, V)
          BY <5>1, OtcMadeOf
        <5>3. V = {}
          BY <5>1
        <5> HIDE DEF s, V
        <5>4. s \in Seq(Point) /\ DOMAIN s = {}
          BY <5>2, <5>3 DEF MadeOf
        <5>5. s = <<>>
          BY <5>4
        <5> QED
          BY <5>5 DEF s
      <4>5. Covers(charts'[h].series, <<>>, latest[Channel(h)])
        BY DEF Covers, IsLast
      <4> QED
        BY <2>2, <3>1, <4>2, <4>4, <4>5, BlankCharted
    <3>2. CASE h # "otc"
      <4>1. charts'[h] = charts[h]
        BY <2>2, <3>2
      <4>2. Promised(h, charts[h], cache, produced, latest[Channel(h)])
        BY <2>1, MountedPromised
      <4> QED
        BY <4>1, <4>2 DEF Promised
    <3> QED
      BY <3>1, <3>2
  <2>4. /\ case' = case /\ case \in Cases /\ produced' \in 0..Len(case.feed)
        /\ latest' \in [Channels -> 0..produced'] /\ CacheType(cache', produced')
        /\ mounted' \in BOOLEAN /\ mounts' \in 0..MaxMounts /\ mounted'
    BY <1>1, <2>1 DEF IInv, Typed
  <2>5. \A r \in Asked : fetch'[r] \in Request(r, produced')
    BY <1>1, <1>4
  <2>6. "otc" \in hooks => /\ ~mounted' => cache'["otc"] = None
                           /\ fetch'["otc"].busy => mounted' /\ cache'["otc"] = None
    BY <1>1, <2>1
  <2>7. /\ \A h \in hooks : Charted(h, charts'[h], cache', produced', latest'[Channel(h)])
        /\ mounted' => \A h \in hooks : Covers(charts'[h].series, Baseline(h, cache'), latest'[Channel(h)])
        /\ ~mounted' => \A h \in hooks : charts'[h] = Blank
    BY <1>1, <2>3, <2>4
  <2> QED
    BY <1>3, <1>6, <2>2, <2>4, <2>5, <2>6, <2>7, Primed
<1>9. q = "otc" => "otc" \in hooks
  BY <1>2, HooksAsk
<1> QED
  BY <1>7, <1>8, <1>9

\* The charts of a page that mounts.
LEMMA MountChart ==
    ASSUME IInv, Mount, NEW h \in hooks
    PROVE  /\ charts'[h] = Patch(h, Reset(h, cache), latest[Channel(h)], cache)
           /\ Promised(h, charts'[h], cache, produced, latest[Channel(h)])
           /\ Shows(h, charts'[h], cache, latest[Channel(h)])
<1>1. charts' = [g \in hooks |-> Patch(g, Reset(g, cache), latest[Channel(g)], cache)]
  BY DEF Mount
<1>2. /\ case \in Cases /\ produced \in 0..Len(case.feed) /\ CacheType(cache, produced)
      /\ latest[Channel(h)] \in 0..produced
  BY LatestType DEF IInv, Typed
<1> QED
  BY <1>1, <1>2, MountPromised

\* A page that mounts.
LEMMA MountInv == IInv /\ Mount => IInv'
<1> SUFFICES ASSUME IInv, Mount PROVE IInv'
  OBVIOUS
<1>1. UNCHANGED <<case, produced, latest, cache, asks>>
      /\ ~mounted /\ mounted' = TRUE /\ mounts < MaxMounts /\ mounts' = mounts + 1
      /\ charts' = [g \in hooks |-> Patch(g, Reset(g, cache), latest[Channel(g)], cache)]
  BY DEF Mount
<1>2. PICK stale \in SUBSET Asked : fetch' = Begun(stale)
  BY DEF Mount
<1>3. /\ case \in Cases /\ case' = case /\ produced' \in 0..Len(case.feed)
      /\ latest' \in [Channels -> 0..produced'] /\ CacheType(cache', produced')
      /\ asks' \in 0..MaxAsks
  BY <1>1 DEF IInv, Typed
<1>4. mounts' \in 0..MaxMounts
  BY <1>1, TimelinesAssumption DEF IInv, Typed
<1>5. DOMAIN fetch' = Asked /\ \A q \in Asked : fetch'[q] \in Request(q, produced')
  BY <1>1, <1>2, BegunType
<1>6. mounted' \in BOOLEAN /\ mounted'
  BY <1>1
<1>7. DOMAIN charts' = hooks
  BY <1>1
<1>8. \A h \in hooks : Promised(h, charts'[h], cache', produced', latest'[Channel(h)])
  BY <1>1, MountChart
<1>9. "otc" \in hooks => cache'["otc"] = None
  BY <1>1 DEF IInv, OtcOnce
<1>10. /\ \A h \in hooks : Charted(h, charts'[h], cache', produced', latest'[Channel(h)])
       /\ mounted' => \A h \in hooks : Covers(charts'[h].series, Baseline(h, cache'), latest'[Channel(h)])
  BY <1>8 DEF Promised
<1>11. "otc" \in hooks => /\ ~mounted' => cache'["otc"] = None
                          /\ fetch'["otc"].busy => mounted' /\ cache'["otc"] = None
  BY <1>6, <1>9
<1>12. ~mounted' => \A h \in hooks : charts'[h] = Blank
  BY <1>6
<1> QED
  BY <1>3, <1>4, <1>5, <1>6, <1>7, <1>10, <1>11, <1>12, Primed

\* A page that is left.
LEMMA UnmountInv == IInv /\ Unmount => IInv'
<1> SUFFICES ASSUME IInv, Unmount PROVE IInv'
  OBVIOUS
<1>1. UNCHANGED <<case, produced, latest, asks, mounts>>
      /\ mounted' = FALSE
      /\ charts' = [h \in hooks |-> Blank]
      /\ fetch' = [q \in Asked |-> Idle(q)]
      /\ cache' = [p \in AllParts |-> IF p = "otc" THEN None ELSE cache[p]]
  BY DEF Unmount
<1>2. /\ case \in Cases /\ case' = case /\ produced' \in 0..Len(case.feed)
      /\ latest' \in [Channels -> 0..produced'] /\ CacheType(cache, produced)
      /\ asks' \in 0..MaxAsks /\ mounts' \in 0..MaxMounts /\ produced \in Nat /\ produced' = produced
  BY <1>1, CaseType DEF IInv, Typed
<1>3. mounted' \in BOOLEAN
  BY <1>1
<1>4. CacheType(cache', produced')
  <2>1. None \in None..produced
    BY <1>2 DEF None
  <2> QED
    BY <1>1, <1>2, <2>1 DEF CacheType
<1>5. DOMAIN fetch' = Asked /\ \A q \in Asked : fetch'[q] \in Request(q, produced') /\ ~fetch'[q].busy
  BY <1>1, <1>2, IdleType
<1>6. DOMAIN charts' = hooks /\ \A h \in hooks : charts'[h] = Blank
  BY <1>1
<1>7. \A h \in hooks : Charted(h, charts'[h], cache', produced', latest'[Channel(h)])
  BY <1>6, BlankCharted
<1>8. "otc" \in hooks => /\ ~mounted' => cache'["otc"] = None
                         /\ fetch'["otc"].busy => mounted' /\ cache'["otc"] = None
  <2> SUFFICES ASSUME "otc" \in hooks PROVE cache'["otc"] = None /\ ~fetch'["otc"].busy
    OBVIOUS
  <2>1. "otc" \in AllParts /\ "otc" \in Asked
    BY <1>2, HooksAsk, PartsOfHooks
  <2> QED
    BY <1>1, <1>5, <2>1
<1>9. mounted' => \A h \in hooks : Covers(charts'[h].series, Baseline(h, cache'), latest'[Channel(h)])
  BY <1>1
<1>10. ~mounted' => \A h \in hooks : charts'[h] = Blank
  BY <1>6
<1> QED
  BY <1>2, <1>3, <1>4, <1>5, <1>6, <1>7, <1>8, <1>9, <1>10, Primed

\* Every step keeps the invariant.
LEMMA NextInv == IInv /\ [Next]_vars => IInv'
<1> SUFFICES ASSUME IInv, [Next]_vars PROVE IInv'
  OBVIOUS
<1>1. CASE UNCHANGED vars
  <2>1. UNCHANGED <<case, produced, latest, cache, mounted, charts, fetch, asks, mounts>>
    BY <1>1 DEF vars
  <2>2. /\ DOMAIN fetch' = Asked /\ \A q \in Asked : fetch'[q] \in Request(q, produced)
        /\ asks' \in 0..MaxAsks
        /\ "otc" \in hooks /\ fetch'["otc"].busy => mounted /\ cache["otc"] = None
    BY <2>1 DEF IInv, Typed, OtcOnce
  <2> QED
    BY <2>1, <2>2, FetchInv
<1>2. CASE Produce
  BY <1>2, ProduceInv
<1>3. CASE \E c \in DOMAIN latest : Deliver(c)
  BY <1>3, DeliverInv
<1>4. CASE \E q \in Asked : Ask(q) \/ Serve(q) \/ Answer(q) \/ Fail(q)
  BY <1>4, AskInv, ServeInv, AnswerInv, FailInv
<1>5. CASE Mount
  BY <1>5, MountInv
<1>6. CASE Unmount
  BY <1>6, UnmountInv
<1> QED
  BY <1>1, <1>2, <1>3, <1>4, <1>5, <1>6 DEF Next

\* So it always holds.
LEMMA Invariance == Spec => []IInv
<1>1. Init => IInv
  BY InitInv
<1>2. IInv /\ [Next]_vars => IInv'
  BY NextInv
<1> QED
  BY <1>1, <1>2, PTL DEF Spec

-----------------------------------------------------------------------------
(* The theorems.                                                           *)

\* Every variable has its type, whatever the feed, the hooks and the number of visits.
THEOREM TypeCorrect == Spec => []TypeOK
<1>1. IInv => TypeOK
  <2> SUFFICES ASSUME IInv PROVE TypeOK
    OBVIOUS
  <2>1. \A h \in hooks : charts[h].series \in Seq(Point)
    BY DEF IInv, ChartsFit, Charted, Fits
  <2> QED
    BY <2>1 DEF IInv, Typed, TypeOK, Request, CacheType, Channels
<1> QED
  BY <1>1, Invariance, PTL

\* An invariant's charts.
LEMMA ChartType ==
    ASSUME IInv, NEW h \in hooks
    PROVE  /\ Fits(h, charts[h].series, cache, produced, latest[Channel(h)])
           /\ charts[h].series \in Seq(Point) /\ Paired(charts[h].series)
           /\ charts[h].index = IndexOf(charts[h].series)
           /\ DOMAIN charts[h].series = 1..Len(charts[h].series) /\ Len(charts[h].series) \in Nat
           /\ \A i \in DOMAIN charts[h].series :
                  /\ charts[h].series[i].minute \in Nat /\ charts[h].series[i].value \in Nat
                  /\ charts[h].series[i].extra \in Nat
<1> DEFINE s == charts[h].series
<1>1. Fits(h, s, cache, produced, latest[Channel(h)]) /\ charts[h].index = IndexOf(s)
  BY DEF IInv, ChartsFit, Charted
<1>2. s \in Seq(Point) /\ Paired(s)
  BY <1>1 DEF Fits
<1> HIDE DEF s
<1>3. DOMAIN s = 1..Len(s) /\ Len(s) \in Nat /\ \A i \in DOMAIN s : s[i] \in Point
  BY <1>2
<1>4. \A i \in DOMAIN s : s[i].minute \in Nat /\ s[i].value \in Nat /\ s[i].extra \in Nat
  BY <1>3 DEF Point
<1> QED
  BY <1>1, <1>2, <1>3, <1>4 DEF s

\* A chart's points are in the order of their minutes and its index is never stale, however
\* baselines, batches and late samples interleave; the OTC series is thinned out within its ends.
THEOREM SeriesCorrect == Spec => []SeriesWellFormed
<1>1. IInv => SeriesWellFormed
  <2> SUFFICES ASSUME IInv, NEW h \in hooks
               PROVE  LET series == charts[h].series
                          drawn == Drawn(series, MaxPoints)
                      IN /\ \A i \in 1..(Len(series) - 1) : series[i].minute <= series[i + 1].minute
                         /\ charts[h].index = IndexOf(series)
                         /\ h = "otc" /\ series # <<>> =>
                                /\ Len(drawn) <= MaxPoints + 1
                                /\ drawn[1] = series[1]
                                /\ drawn[Len(drawn)].minute = series[Len(series)].minute
    BY DEF SeriesWellFormed
  <2> DEFINE s == charts[h].series
  <2>1. s \in Seq(Point) /\ Paired(s) /\ charts[h].index = IndexOf(s)
        /\ DOMAIN s = 1..Len(s) /\ Len(s) \in Nat
    BY ChartType
  <2> HIDE DEF s
  <2>2. \A i \in 1..(Len(s) - 1) : s[i].minute <= s[i + 1].minute
    BY <2>1 DEF Paired
  <2>3. s # <<>> =>
            /\ Len(Drawn(s, MaxPoints)) <= MaxPoints + 1
            /\ Drawn(s, MaxPoints)[1] = s[1]
            /\ Drawn(s, MaxPoints)[Len(Drawn(s, MaxPoints))].minute = s[Len(s)].minute
    BY <2>1, DrawnLaw, TimelinesAssumption
  <2> QED
    BY <2>1, <2>2, <2>3 DEF s
<1> QED
  BY <1>1, Invariance, PTL

\* What a chart shows was produced, at the minute it is shown at.
THEOREM RealCorrect == Spec => []ShownIsReal
<1>1. IInv => ShownIsReal
  <2> SUFFICES ASSUME IInv, NEW h \in hooks, NEW i \in DOMAIN charts[h].series
               PROVE  LET point == charts[h].series[i]
                          first == charts[h].series[1]
                      IN /\ point.value \in 0..produced
                         /\ h = "participant" =>
                                /\ point.minute = 0 => point.value = 0
                                /\ point.minute = 1 =>
                                       /\ point.value > 0
                                       /\ point.extra \in {Row(k).high : k \in 1..produced}
                                       /\ \A j \in DOMAIN Candles(cache) :
                                              Candles(cache)[j].minute = 1 => point.extra >= Candles(cache)[j].extra
                         /\ h \notin {"participant", "gap"} =>
                                /\ point.value > 0 /\ Row(point.value).minute = point.minute
                                /\ h # "kbar" => Row(point.value).valued
                         /\ h = "gap" =>
                                /\ point.extra \in {case.feed[k].price : k \in 1..produced}
                                /\ first.value \in 1..point.value
                                /\ point.extra >= case.feed[point.value].price
                                /\ ~case.feed[point.value].valued => point.extra >= first.extra
                         /\ h = "otc" => point.extra > 0 /\ Row(point.extra).minute = first.minute
                         /\ h = "estimated" /\ cache["estimated"] # None => point.extra = 1
    BY DEF ShownIsReal
  <2> DEFINE s == charts[h].series
             k == latest[Channel(h)]
  <2>1. Fits(h, s, cache, produced, k) /\ i \in DOMAIN s /\ i \in 1..Len(s) /\ Len(s) \in Nat
        /\ s[i].value \in Nat
    BY ChartType
  <2>2. /\ k \in Nat /\ produced \in Nat /\ k <= produced /\ produced <= Len(case.feed) /\ Len(case.feed) \in Nat
        /\ case \in Cases /\ h \in Hooks
    BY LatestType, CaseType DEF IInv, Typed
  <2> HIDE DEF s, k
  <2>3. ASSUME NEW j \in 1..produced
        PROVE  Row(j).minute = case.feed[j].minute /\ Row(j).valued = case.feed[j].valued
    BY <2>2, RowType
  <2>4. CASE h \in Plain
    <3>1. /\ s[i].value \in 1..produced /\ case.feed[s[i].value].minute = s[i].minute
          /\ h # "kbar" => case.feed[s[i].value].valued
      BY <2>1, <2>4 DEF Fits, Sampled
    <3>2. h = "otc" => s[i].extra \in 1..produced /\ case.feed[s[i].extra].minute = s[1].minute
      BY <2>1 DEF Fits, OtcFits
    <3>3. h = "estimated" /\ cache["estimated"] # None => s[i].extra = 1
      BY <2>1 DEF Fits, EstimatedFits
    <3>4. h \notin {"participant", "gap"}
      BY <2>4 DEF Plain
    <3>5. s[i].value \in 0..produced /\ s[i].value > 0 /\ Row(s[i].value).minute = s[i].minute
          /\ (h # "kbar" => Row(s[i].value).valued)
      BY <2>2, <2>3, <3>1
    <3>6. h = "otc" => s[i].extra > 0 /\ Row(s[i].extra).minute = s[1].minute
      BY <2>2, <2>3, <3>2
    <3> QED
      BY <3>3, <3>4, <3>5, <3>6 DEF s
  <2>5. CASE h = "participant"
    <3>1. /\ s[i].minute \in {0, 1}
          /\ s[i].minute = 0 => s[i].value = 0
          /\ s[i].minute = 1 =>
                 /\ s[i].value \in 1..produced
                 /\ s[i].extra \in Highs(produced)
                 /\ \A j \in DOMAIN Candles(cache) :
                        Candles(cache)[j].minute = 1 => s[i].extra >= Candles(cache)[j].extra
      BY <2>1, <2>5 DEF Fits, CandleFits
    <3>2. s[i].value \in 0..produced /\ (s[i].minute = 1 => s[i].value > 0)
      BY <2>2, <3>1
    <3> QED
      BY <2>5, <3>1, <3>2 DEF s, Highs
  <2>6. CASE h = "gap"
    <3>1. s # <<>> /\ GapFits(s, k)
      BY <2>1, <2>6 DEF Fits
    <3>2. /\ s[1].value \in 1..k
          /\ s[i].value \in s[1].value..k
          /\ \E j \in 1..k : s[i].extra = case.feed[j].price
          /\ s[i].extra >= case.feed[s[i].value].price
          /\ ~case.feed[s[i].value].valued => s[i].extra >= s[1].extra
      BY <2>1, <3>1 DEF GapFits
    <3>3. s[i].value \in 0..produced /\ s[1].value \in 1..s[i].value
          /\ \E j \in 1..produced : s[i].extra = case.feed[j].price
      BY <2>1, <2>2, <3>2
    <3> QED
      BY <2>6, <3>2, <3>3 DEF s
  <2> QED
    BY <2>2, <2>4, <2>5, <2>6 DEF Hooks, Plain
<1> QED
  BY <1>1, Invariance, PTL

\* A fetched baseline is on the chart, no minute of it older than the answer but where the
\* real-time store holds the older one or has gone on from it.
THEOREM CoverCorrect == Spec => []BaselineCovered
<1>1. IInv => BaselineCovered
  <2> SUFFICES ASSUME IInv, mounted, NEW h \in hooks, NEW m \in DOMAIN ValueByMinute(Baseline(h, cache))
               PROVE  LET base == ValueByMinute(Baseline(h, cache))
                          shown == ValueByMinute(charts[h].series)
                      IN /\ m \in DOMAIN shown
                         /\ shown[m] < base[m] => shown[m] <= latest[Channel(h)]
    BY DEF BaselineCovered
  <2> DEFINE b == Baseline(h, cache)
             s == charts[h].series
             k == latest[Channel(h)]
  <2>1. b \in Seq(Point)
    <3>1. Fits(h, b, cache, produced, k)
      BY BaselineFits DEF IInv, Typed
    <3> QED
      BY <3>1 DEF Fits
  <2>2. s \in Seq(Point)
    BY ChartType
  <2>3. Covers(s, b, k)
    BY DEF IInv, ChartsCover
  <2>4. m \in DOMAIN ValueByMinute(b)
    OBVIOUS
  <2> HIDE DEF b, s, k
  <2>5. m \in Minutes(b)
    BY <2>4 DEF ValueByMinute
  <2>6. PICK i : IsLast(b, m, i)
    BY <2>1, <2>5, LastIsIndexed
  <2>7. PICK j : IsLast(s, m, j) /\ (b[i].value <= s[j].value \/ s[j].value <= k)
    BY <2>3, <2>6 DEF Covers
  <2>8. ValueByMinute(b)[m] = b[i].value
    BY <2>1, <2>6, ValueIsLast
  <2>9. m \in DOMAIN ValueByMinute(s) /\ ValueByMinute(s)[m] = s[j].value
    BY <2>2, <2>7, ValueIsLast
  <2>10. b[i] \in Point /\ s[j] \in Point
    BY <2>1, <2>2, <2>6, <2>7 DEF IsLast
  <2>11. b[i].value \in Nat /\ s[j].value \in Nat
    BY <2>10 DEF Point
  <2> QED
    BY <2>7, <2>8, <2>9, <2>11 DEF b, s, k
<1> QED
  BY <1>1, Invariance, PTL

\* The ladder and the pressure draw at each minute of the price the last quote up to it.
THEOREM OverlayCorrect == Spec => []OverlayCarries
<1>1. IInv => OverlayCarries
  <2> SUFFICES ASSUME IInv, {"kbar", "quote"} \subseteq hooks
               PROVE  LET quotes == ValueByMinute(charts["quote"].series)
                          prices == ValueByMinute(charts["kbar"].series)
                      IN \A i \in DOMAIN Ticks :
                             LET known == {m \in DOMAIN prices \cap DOMAIN quotes : m <= Ticks[i].minute}
                             IN Overlay(Ticks, quotes)[i].extra = IF known = {} THEN 0 ELSE quotes[Max(known)]
    BY DEF OverlayCarries
  <2> DEFINE s == charts["kbar"].series
             prices == ValueByMinute(s)
             quotes == ValueByMinute(charts["quote"].series)
             chips == IF "metric" \in hooks THEN ValueByMinute(charts["metric"].series) ELSE <<>>
  <2>1. s \in Seq(Point) /\ DOMAIN s = 1..Len(s) /\ Len(s) \in Nat /\ \A i \in DOMAIN s : s[i].minute \in Nat
    BY ChartType
  <2>2. Ticks = OrderFlow(prices, chips)
    BY DEF Ticks
  <2> HIDE DEF s
  <2>3. DOMAIN prices = Minutes(s)
    BY DEF ValueByMinute
  <2>4. IsFiniteSet(Minutes(s)) /\ Minutes(s) \subseteq Nat
    <3> DEFINE f == [i \in DOMAIN s |-> s[i].minute]
    <3>1. IsFiniteSet(DOMAIN s)
      BY <2>1, FS_Interval
    <3>2. IsFiniteSet({f[i] : i \in DOMAIN s})
      <4> HIDE DEF f
      <4> QED
        BY <3>1, ImageFinite
    <3>3. Minutes(s) = {f[i] : i \in DOMAIN s}
      BY DEF Minutes
    <3>4. Minutes(s) \subseteq Nat
      BY <2>1 DEF Minutes
    <3> QED
      BY <3>2, <3>3, <3>4
  <2> HIDE DEF prices, quotes, chips
  <2>5. \A i \in DOMAIN OrderFlow(prices, chips) :
            LET known == {m \in DOMAIN prices \cap DOMAIN quotes : m <= OrderFlow(prices, chips)[i].minute}
            IN Overlay(OrderFlow(prices, chips), quotes)[i].extra = IF known = {} THEN 0 ELSE quotes[Max(known)]
    BY <2>3, <2>4, OverlayLaw
  <2>6. \A i \in DOMAIN Ticks :
            LET known == {m \in DOMAIN prices \cap DOMAIN quotes : m <= Ticks[i].minute}
            IN Overlay(Ticks, quotes)[i].extra = IF known = {} THEN 0 ELSE quotes[Max(known)]
    BY <2>2, <2>5
  <2> QED
    BY <2>6 DEF prices, quotes, s
<1> QED
  BY <1>1, Invariance, PTL

\* A chart that shows k at its place.
LEMMA ShownByLast ==
    ASSUME NEW s \in Seq(Point), NEW m, NEW k, ShowsLast(s, m, k)
    PROVE  At(ValueByMinute(s), m, 0) = k
<1>1. PICK i : IsLast(s, m, i) /\ s[i].value = k
  BY DEF ShowsLast
<1> QED
  BY <1>1, ValueIsLast DEF At

\* A step of a mounted page that leaves a hook what it looks at.
LEMMA SameChart ==
    ASSUME case' = case, NEW h, mounted' = mounted, charts'[h] = charts[h],
           latest'[Channel(h)] = latest[Channel(h)],
           Takes(h, charts[h], latest[Channel(h)], cache') => Takes(h, charts[h], latest[Channel(h)], cache)
    PROVE  (Taken(h) /\ ~Shown(h))' => Taken(h) /\ ~Shown(h) /\ UNCHANGED latest[Channel(h)]
BY DEF Taken, Shown, Takes

\* A chart that shows what the store holds is not one of those LatestShown is about.
LEMMA ShowsShown ==
    ASSUME case' = case, NEW h, charts'[h].series \in Seq(Point),
           Shows(h, charts'[h], cache', latest'[Channel(h)])
    PROVE  ~(Taken(h) /\ ~Shown(h))'
<1> DEFINE k == latest'[Channel(h)] s == charts'[h].series
<1>1. Takes(h, charts'[h], k, cache') => At(ValueByMinute(s), PlaceOf(h, k), 0) = k
  BY ShownByLast DEF Shows
<1>2. Taken(h)' => Takes(h, charts'[h], k, cache')
  BY DEF Taken, Takes
<1>3. Shown(h)' <=> At(ValueByMinute(s), PlaceOf(h, k), 0) = k
  BY DEF Shown, PlaceOf
<1> QED
  BY <1>1, <1>2, <1>3

\* A step after which a chart that takes the newest payload does not show it.
LEMMA LatestStep ==
    ASSUME IInv, [Next]_vars, NEW h \in hooks, (Taken(h) /\ ~Shown(h))'
    PROVE  Replaces(h) \/ (Taken(h) /\ ~Shown(h) /\ UNCHANGED latest[Channel(h)])
<1>1. IInv'
  BY NextInv
<1>2. case' = case /\ DOMAIN charts = hooks
  BY DEF IInv, Typed, Next, vars, Produce, Deliver, Ask, Serve, Answer, Fail, Mount, Unmount
<1>3. charts'[h].series \in Seq(Point)
  <2>1. h \in hooks'
    BY <1>2 DEF hooks
  <2>2. (\A g \in hooks : charts[g].series \in Seq(Point))'
    BY <1>1 DEF IInv, ChartsFit, Charted, Fits
  <2> QED
    BY <2>1, <2>2
<1>4. CASE UNCHANGED <<mounted, charts, latest, cache>>
  BY <1>2, <1>4, SameChart
<1>5. CASE UNCHANGED vars
  BY <1>4, <1>5 DEF vars
<1>6. CASE Produce
  BY <1>4, <1>6 DEF Produce
<1>7. ASSUME NEW c \in DOMAIN latest, Deliver(c)
      PROVE  Taken(h) /\ ~Shown(h) /\ UNCHANGED latest[Channel(h)]
  <2>1. PICK k \in (latest[c] + 1)..produced :
            /\ latest' = [latest EXCEPT ![c] = k]
            /\ charts' = [g \in hooks |->
                   IF mounted /\ Channel(g) = c THEN Patch(g, charts[g], k, cache) ELSE charts[g]]
    BY <1>7 DEF Deliver
  <2>2. mounted' = mounted /\ cache' = cache
    BY <1>7 DEF Deliver
  <2>3. mounted
    BY <2>2 DEF Taken
  <2>4. charts'[h] = IF Channel(h) = c THEN Patch(h, charts[h], k, cache) ELSE charts[h]
    BY <2>1, <2>3
  <2>5. Channel(h) \in DOMAIN latest
    BY DEF IInv, Typed, Channels
  <2>6. CASE Channel(h) = c
    <3>1. Shows(h, Patch(h, charts[h], k, cache), cache, k)
      BY <2>3, <2>6, DeliverChart
    <3>2. charts'[h] = Patch(h, charts[h], k, cache) /\ latest'[Channel(h)] = k
      BY <2>1, <2>4, <2>5, <2>6
    <3>3. Shows(h, charts'[h], cache', latest'[Channel(h)])
      BY <2>2, <3>1, <3>2
    <3> QED
      BY <1>2, <1>3, <3>3, ShowsShown
  <2>7. CASE Channel(h) # c
    <3>1. charts'[h] = charts[h] /\ latest'[Channel(h)] = latest[Channel(h)]
      BY <2>1, <2>4, <2>5, <2>7
    <3> QED
      BY <1>2, <2>2, <3>1, SameChart
  <2> QED
    BY <2>6, <2>7
<1>8. ASSUME NEW q \in Asked, Ask(q)
      PROVE  Taken(h) /\ ~Shown(h) /\ UNCHANGED latest[Channel(h)]
  BY <1>2, <1>8, SameChart DEF Ask
<1>9. ASSUME NEW q \in Asked, Serve(q)
      PROVE  Taken(h) /\ ~Shown(h) /\ UNCHANGED latest[Channel(h)]
  BY <1>2, <1>9, SameChart DEF Serve
<1>10. ASSUME NEW q \in Asked, Fail(q)
       PROVE  Taken(h) /\ ~Shown(h) /\ UNCHANGED latest[Channel(h)]
  <2>1. /\ UNCHANGED <<latest, cache, mounted>>
        /\ charts' = IF q = "otc" THEN [charts EXCEPT !["otc"] = Blank] ELSE charts
    BY <1>10 DEF Fail
  <2>2. CASE q = "otc" /\ h = "otc"
    <3>1. charts'[h].series = <<>>
      BY <1>2, <2>1, <2>2 DEF Blank
    <3>2. ~Takes(h, charts'[h], latest'[Channel(h)], cache')
      BY <2>2, <3>1 DEF Takes
    <3>3. ~Taken(h)'
      BY <1>2, <3>2, SameCase DEF Taken
    <3> QED
      BY <3>3
  <2>3. CASE ~(q = "otc" /\ h = "otc")
    <3>1. charts'[h] = charts[h]
      BY <1>2, <2>1, <2>3
    <3> QED
      BY <1>2, <2>1, <3>1, SameChart
  <2> QED
    BY <2>2, <2>3
<1>11. ASSUME NEW q \in Asked, Answer(q)
       PROVE  Replaces(h) \/ (Taken(h) /\ ~Shown(h) /\ UNCHANGED latest[Channel(h)])
  <2>1. mounted' = mounted /\ latest' = latest
    BY <1>11 DEF Answer
  <2>2. mounted
    BY <2>1 DEF Taken
  <2> DEFINE p == charts'[h] k == latest[Channel(h)]
  <2>3. \/ Shows(h, p, cache', k)
        \/ p = charts[h] /\ (Takes(h, p, k, cache') => Takes(h, p, k, cache))
        \/ h \in {"kbar", "metric"} /\ cache[Part(h)] # None /\ cache'[Part(h)] # cache[Part(h)]
        \/ h \in {"quote", "otc"} /\ cache'[h] # cache[h]
        \/ h = "participant" /\ cache'["daily"] # cache["daily"]
    BY <1>11, <2>2, AnswerChart
  <2>4. CASE Shows(h, p, cache', k)
    BY <1>2, <1>3, <2>1, <2>4, ShowsShown
  <2>5. CASE p = charts[h] /\ (Takes(h, p, k, cache') => Takes(h, p, k, cache))
    BY <1>2, <2>1, <2>5, SameChart
  <2>6. CASE \/ h \in {"kbar", "metric"} /\ cache[Part(h)] # None /\ cache'[Part(h)] # cache[Part(h)]
             \/ h \in {"quote", "otc"} /\ cache'[h] # cache[h]
             \/ h = "participant" /\ cache'["daily"] # cache["daily"]
    BY <2>6 DEF Replaces
  <2> QED
    BY <2>3, <2>4, <2>5, <2>6
<1>12. CASE Mount
  <2>1. Shows(h, charts'[h], cache, latest[Channel(h)])
    BY <1>12, MountChart
  <2>2. cache' = cache /\ latest' = latest
    BY <1>12 DEF Mount
  <2> QED
    BY <1>2, <1>3, <2>1, <2>2, ShowsShown
<1>13. CASE Unmount
  BY <1>13 DEF Unmount, Taken
<1> QED
  BY <1>5, <1>6, <1>7, <1>8, <1>9, <1>10, <1>11, <1>12, <1>13 DEF Next

\* Only another baseline of a hook whose patch effect does not run again takes the newest
\* payload off its chart.
THEOREM LatestCorrect == Spec => LatestShown
<1>1. IInv /\ [Next]_vars =>
          [\A h \in hooks : (Taken(h) /\ ~Shown(h))' =>
               \/ Replaces(h)
               \/ Taken(h) /\ ~Shown(h) /\ UNCHANGED latest[Channel(h)]]_vars
  BY LatestStep
<1> QED
  BY <1>1, Invariance, PTL DEF Spec, LatestShown

=============================================================================
