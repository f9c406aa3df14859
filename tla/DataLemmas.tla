----------------------------- MODULE DataLemmas -----------------------------
(***************************************************************************)
(* Facts about numbers, finite sets, sums and sequences that the proofs    *)
(* of several components need. Each is proved from the well-foundedness    *)
(* of the order in question: a set of counterexamples has a minimal        *)
(* member.                                                                 *)
(***************************************************************************)
EXTENDS FiniteSetTheorems, SequenceTheorems, TLAPS

----------------------------------------------------------------------------
(* Numbers.                                                                 *)

\* A set of numbers has a least member.
LEMMA LeastNumber ==
    ASSUME NEW S, S \subseteq Nat, S # {}
    PROVE  \E m \in S : \A n \in S : m <= n
<1> DEFINE R == OpToRel(<, Nat)
<1>1. IsWellFoundedOn(R, Nat)
  BY NatLessThanWellFounded
<1>2. \A x, y \in S : y < x => <<y, x>> \in R
  BY DEF OpToRel
<1> HIDE DEF R
<1>3. PICK x \in S : \A y \in S : <<y, x>> \notin R
  BY <1>1, WFMin
<1>4. \A y \in S : ~(y < x)
  BY <1>2, <1>3
<1>5. x \in Nat /\ \A y \in S : y \in Nat
  OBVIOUS
<1> QED
  BY <1>4, <1>5

\* A set with zero and the successors of its members has every number.
LEMMA Induction ==
    ASSUME NEW S, 0 \in S, \A n \in Nat : n \in S => n + 1 \in S
    PROVE  Nat \subseteq S
<1> SUFFICES ASSUME Nat \ S # {} PROVE FALSE
  OBVIOUS
<1>1. PICK m \in Nat \ S : \A n \in Nat \ S : m <= n
  BY LeastNumber
<1> QED
  BY <1>1

----------------------------------------------------------------------------
(* Finite sets.                                                             *)

\* A family that has a finite set as soon as it has its proper subsets has them all.
LEMMA SubsetInduction ==
    ASSUME NEW S, IsFiniteSet(S), NEW F,
           \A T \in SUBSET S : (\A U \in (SUBSET T) \ {T} : U \in F) => T \in F
    PROVE  SUBSET S \subseteq F
<1> DEFINE R == StrictSubsetOrdering(S)
<1>1. IsWellFoundedOn(R, SUBSET S)
  BY FS_StrictSubsetOrderingWellFounded, FS_FiniteSubsetsOfFinite
<1>2. \A T \in SUBSET S : \A U \in (SUBSET T) \ {T} : U \in SUBSET S /\ <<U, T>> \in R
  BY DEF StrictSubsetOrdering
<1> HIDE DEF R
<1> DEFINE Bad == (SUBSET S) \ F
<1> SUFFICES ASSUME Bad # {} PROVE FALSE
  OBVIOUS
<1>3. Bad \subseteq SUBSET S
  OBVIOUS
<1> HIDE DEF Bad
<1>4. PICK T \in Bad : \A U \in Bad : <<U, T>> \notin R
  BY <1>1, <1>3, WFMin
<1>5. T \in SUBSET S /\ T \notin F
  BY DEF Bad
<1>6. \A U \in (SUBSET T) \ {T} : U \in F
  BY <1>2, <1>4, <1>5 DEF Bad
<1> QED
  BY <1>5, <1>6

\* A finite set of numbers that is not empty has a greatest member.
LEMMA GreatestNumber ==
    ASSUME NEW S, IsFiniteSet(S), S \subseteq Nat, S # {}
    PROVE  \E m \in S : \A n \in S : n <= m
<1> DEFINE F == {T \in SUBSET S : T # {} => \E m \in T : \A n \in T : n <= m}
<1>1. ASSUME NEW T \in SUBSET S, \A U \in (SUBSET T) \ {T} : U \in F
      PROVE  T \in F
  <2> SUFFICES ASSUME T # {} PROVE \E m \in T : \A n \in T : n <= m
    OBVIOUS
  <2>1. PICK x \in T : TRUE
    OBVIOUS
  <2>2. x \in Nat /\ \A n \in T : n \in Nat
    OBVIOUS
  <2>3. CASE T \ {x} = {}
    BY <2>2, <2>3
  <2>4. CASE T \ {x} # {}
    <3>1. T \ {x} \in F
      BY <1>1
    <3>2. PICK m \in T \ {x} : \A n \in T \ {x} : n <= m
      BY <2>4, <3>1
    <3> QED
      BY <2>2, <3>2
  <2> QED
    BY <2>3, <2>4
<1> HIDE DEF F
<1>2. SUBSET S \subseteq F
  BY <1>1, SubsetInduction
<1>3. S \in F
  BY <1>2
<1> QED
  BY <1>3 DEF F

----------------------------------------------------------------------------
(* The sum of a function over a finite set (SumFunctionOnSet).              *)

\* h is the sum of f over every subset of S, taking the members in the order that
\* pick gives.
SumsInOrder(h, f, pick, S) ==
    h = [s \in SUBSET S |-> IF s = {} THEN 0 ELSE f[pick[s]] + h[s \ {pick[s]}]]

\* pick gives a member of every subset that has one.
Picks(pick, S) == \A s \in SUBSET S : s # {} => pick[s] \in s

\* f is a number on all of S.
NatOn(f, S) == \A x \in S : f[x] \in Nat

\* Such sums exist.
LEMMA SumsExist ==
    ASSUME NEW S, IsFiniteSet(S), NEW f, NatOn(f, S),
           NEW pick, Picks(pick, S)
    PROVE  \E h : SumsInOrder(h, f, pick, S)
<1> USE DEF NatOn
<1> DEFINE Small(n) == {s \in SUBSET S : Cardinality(s) <= n}
           SumsTo(h, n) == /\ h \in [Small(n) -> Nat]
                           /\ \A s \in Small(n) :
                                 h[s] = IF s = {} THEN 0
                                        ELSE f[pick[s]] + h[s \ {pick[s]}]
           Reached == {n \in Nat : \E h : SumsTo(h, n)}
<1>1. \A s \in SUBSET S : /\ IsFiniteSet(s) /\ Cardinality(s) \in Nat
                          /\ Cardinality(s) = 0 <=> s = {}
  BY FS_Subset, FS_CardinalityType, FS_EmptySet
<1>2. \A s \in SUBSET S : s # {} =>
          /\ pick[s] \in s /\ s \ {pick[s]} \in SUBSET S
          /\ Cardinality(s \ {pick[s]}) = Cardinality(s) - 1
  BY <1>1, FS_RemoveElement DEF Picks
<1>3. 0 \in Reached
  <2> DEFINE h == [s \in Small(0) |-> 0]
  <2>1. \A s \in Small(0) : s = {}
    BY <1>1
  <2>2. SumsTo(h, 0)
    BY <2>1
  <2> QED
    BY <2>2
<1>4. ASSUME NEW n \in Nat, n \in Reached
      PROVE  n + 1 \in Reached
  <2>1. PICK h : SumsTo(h, n)
    BY <1>4
  <2> DEFINE g == [s \in Small(n + 1) |-> IF s = {} THEN 0
                                          ELSE f[pick[s]] + h[s \ {pick[s]}]]
  <2>2. \A s \in Small(n + 1) : s # {} => s \ {pick[s]} \in Small(n)
    BY <1>1, <1>2
  <2>3. \A s \in Small(n) : s \in Small(n + 1) /\ h[s] \in Nat /\ g[s] = h[s]
    BY <1>1, <2>1
  <2>4. \A s \in Small(n + 1) : s # {} => f[pick[s]] \in Nat
    BY <1>2
  <2>5. g \in [Small(n + 1) -> Nat]
    <3>1. ASSUME NEW s \in Small(n + 1), s # {}
          PROVE  f[pick[s]] + h[s \ {pick[s]}] \in Nat
      <4> DEFINE a == f[pick[s]]
                 b == h[s \ {pick[s]}]
      <4>1. a \in Nat /\ b \in Nat
        BY <2>2, <2>3, <2>4, <3>1
      <4> HIDE DEF a, b
      <4>2. a + b \in Nat
        BY <4>1
      <4> QED
        BY <4>2 DEF a, b
    <3> QED
      BY <3>1
  <2>6. \A s \in Small(n + 1) : s # {} => h[s \ {pick[s]}] = g[s \ {pick[s]}]
    BY <2>2, <2>3
  <2>7. n + 1 \in Nat
    OBVIOUS
  <2>8. SumsTo(g, n + 1)
    BY <2>5, <2>6
  <2> HIDE DEF SumsTo, g
  <2> QED
    BY <2>7, <2>8
<1> HIDE DEF Reached
<1>5. Nat \subseteq Reached
  BY <1>3, <1>4, Induction
<1>6. Cardinality(S) \in Reached
  BY <1>5, FS_CardinalityType
<1>7. PICK h : SumsTo(h, Cardinality(S))
  BY <1>6 DEF Reached
<1>8. Small(Cardinality(S)) = SUBSET S
  BY FS_Subset
<1>9. SumsInOrder(h, f, pick, S)
  BY <1>7, <1>8 DEF SumsInOrder
<1> QED
  BY <1>9

\* h adds up f.
Sums(h, f, S) ==
    /\ h[{}] = 0
    /\ \A s \in SUBSET S : h[s] \in Nat
    /\ \A s \in SUBSET S : \A x \in s : h[s] = f[x] + h[s \ {x}]

\* What they have in common with a sum: nothing is zero, and any member may be
\* taken first.
LEMMA SumsLaw ==
    ASSUME NEW S, IsFiniteSet(S), NEW f, NatOn(f, S),
           NEW pick, Picks(pick, S), NEW h, SumsInOrder(h, f, pick, S)
    PROVE  Sums(h, f, S)
<1> USE DEF NatOn
<1> DEFINE Lawful == {s \in SUBSET S : /\ h[s] \in Nat
                                       /\ \A x \in s : h[s] = f[x] + h[s \ {x}]}
<1>1. h[{}] = 0
  BY DEF SumsInOrder
<1>2. \A s \in SUBSET S : s # {} => h[s] = f[pick[s]] + h[s \ {pick[s]}]
  BY DEF SumsInOrder
<1>3. ASSUME NEW s \in SUBSET S, \A U \in (SUBSET s) \ {s} : U \in Lawful
      PROVE  s \in Lawful
  <2>1. CASE s = {}
    BY <1>1, <2>1
  <2>2. CASE s # {}
    <3> DEFINE c == pick[s]
    <3>1. c \in s /\ h[s] = f[c] + h[s \ {c}]
      BY <1>2, <2>2 DEF Picks
    <3> HIDE DEF c
    <3>2. h[s \ {c}] \in Nat /\ f[c] \in Nat /\ h[s] \in Nat
      BY <1>3, <3>1
    <3>3. ASSUME NEW x \in s, x # c
          PROVE  h[s] = f[x] + h[s \ {x}]
      <4> DEFINE rest == (s \ {x}) \ {c}
      <4>1. /\ s \ {c} \in Lawful /\ s \ {x} \in Lawful /\ rest \in Lawful
            /\ x \in s \ {c} /\ c \in s \ {x}
        BY <1>3, <3>1, <3>3
      <4>2. (s \ {c}) \ {x} = rest
        OBVIOUS
      <4>4. h[s \ {c}] = f[x] + h[rest] /\ h[s \ {x}] = f[c] + h[rest]
        BY <4>1, <4>2
      <4>5. f[x] \in Nat /\ f[c] \in Nat
        BY <3>1, <3>3
      <4>3. h[rest] \in Nat
        BY <4>1
      <4> HIDE DEF rest
      <4> QED
        BY <3>1, <4>3, <4>4, <4>5
    <3> QED
      BY <3>1, <3>2, <3>3
  <2> QED
    BY <2>1, <2>2
<1> HIDE DEF Lawful
<1>4. SUBSET S \subseteq Lawful
  BY <1>3, SubsetInduction
<1> QED
  BY <1>1, <1>4 DEF Lawful, Sums

\* Two ways of summing the same values give the same sum.
LEMMA SumsAgree ==
    ASSUME NEW S, IsFiniteSet(S), NEW f, NatOn(f, S),
           NEW pick, Picks(pick, S), NEW h, SumsInOrder(h, f, pick, S),
           NEW T \in SUBSET S, NEW g, \A x \in T : g[x] = f[x],
           NEW choice, Picks(choice, T), NEW k, SumsInOrder(k, g, choice, T)
    PROVE  k[T] = h[T]
<1> DEFINE Same == {s \in SUBSET T : k[s] = h[s]}
<1>1. IsFiniteSet(T) /\ NatOn(g, T)
  BY FS_Subset DEF NatOn
<1>2. h[{}] = 0 /\ \A s \in SUBSET T : \A x \in s : h[s] = f[x] + h[s \ {x}]
  <2>1. Sums(h, f, S)
    BY SumsLaw
  <2>2. \A s \in SUBSET T : s \in SUBSET S
    OBVIOUS
  <2> QED
    BY <2>1, <2>2 DEF Sums
<1>3. k[{}] = 0 /\ \A s \in SUBSET T : \A x \in s : k[s] = g[x] + k[s \ {x}]
  <2>1. Sums(k, g, T)
    BY <1>1, SumsLaw
  <2> QED
    BY <2>1 DEF Sums
<1>4. ASSUME NEW s \in SUBSET T, \A U \in (SUBSET s) \ {s} : U \in Same
      PROVE  s \in Same
  <2>1. CASE s = {}
    BY <1>2, <1>3, <2>1
  <2>2. CASE s # {}
    <3>1. PICK x \in s : TRUE
      BY <2>2
    <3>2. s \ {x} \in Same
      BY <1>4, <3>1
    <3>3. k[s] = g[x] + k[s \ {x}] /\ h[s] = f[x] + h[s \ {x}] /\ g[x] = f[x]
      BY <1>2, <1>3, <3>1
    <3> QED
      BY <3>2, <3>3
  <2> QED
    BY <2>1, <2>2
<1> HIDE DEF Same
<1>5. SUBSET T \subseteq Same
  BY <1>1, <1>4, SubsetInduction
<1> QED
  BY <1>5 DEF Same

\* The library's sum takes its members in the order CHOOSE gives.
LEMMA SumIsInOrder ==
    ASSUME NEW S, IsFiniteSet(S), NEW f, NatOn(f, S)
    PROVE  \E h, pick : /\ Picks(pick, S) /\ SumsInOrder(h, f, pick, S)
                        /\ SumFunctionOnSet(f, S) = h[S]
<1> DEFINE pick == [s \in SUBSET S |-> CHOOSE x \in s : TRUE]
           Body(h) == [s \in SUBSET S |->
                          IF s = {} THEN 0
                          ELSE f[CHOOSE x \in s : TRUE] + h[s \ {CHOOSE x \in s : TRUE}]]
           iter == CHOOSE h : h = Body(h)
<1>1. Picks(pick, S)
  BY DEF Picks
<1>2. SumFunctionOnSet(f, S) = iter[S]
  BY DEF SumFunctionOnSet, FoldFunctionOnSet, MapThenFoldSet
<1>3. \A h : SumsInOrder(h, f, pick, S) <=> h = Body(h)
  BY DEF SumsInOrder
<1> HIDE DEF pick, Body
<1>4. iter = Body(iter)
  <2>1. \E h : h = Body(h)
    BY <1>1, <1>3, SumsExist
  <2> QED
    BY <2>1
<1> QED
  BY <1>1, <1>2, <1>3, <1>4

\* A sum over numbers is a number, and a sum over nothing is zero.
LEMMA SumType ==
    ASSUME NEW S, IsFiniteSet(S), NEW f, \A x \in S : f[x] \in Nat
    PROVE  /\ SumFunctionOnSet(f, S) \in Nat
           /\ S = {} => SumFunctionOnSet(f, S) = 0
<1>1. PICK h, pick : /\ Picks(pick, S) /\ SumsInOrder(h, f, pick, S)
                     /\ SumFunctionOnSet(f, S) = h[S]
  <2>1. NatOn(f, S)
    BY DEF NatOn
  <2> QED
    BY <2>1, SumIsInOrder
<1>2. h[{}] = 0 /\ \A s \in SUBSET S : h[s] \in Nat
  <2>1. NatOn(f, S)
    BY DEF NatOn
  <2>2. Sums(h, f, S)
    BY <1>1, <2>1, SumsLaw
  <2> QED
    BY <2>2 DEF Sums
<1> QED
  BY <1>1, <1>2

\* One more member adds its value, whatever the domains of the functions.
LEMMA SumAdd ==
    ASSUME NEW S, IsFiniteSet(S), NEW f \in [S -> Nat],
           NEW i, i \notin S, NEW g \in [S \cup {i} -> Nat], \A x \in S : g[x] = f[x]
    PROVE  SumFunctionOnSet(g, S \cup {i}) = SumFunctionOnSet(f, S) + g[i]
<1> DEFINE T == S \cup {i}
<1>1. IsFiniteSet(T) /\ NatOn(g, T) /\ i \in T /\ T \ {i} = S /\ S \in SUBSET T /\ NatOn(f, S)
  BY FS_AddElement DEF NatOn
<1> HIDE DEF T
<1>2. PICK h, pick : /\ Picks(pick, T) /\ SumsInOrder(h, g, pick, T)
                     /\ SumFunctionOnSet(g, T) = h[T]
  BY <1>1, SumIsInOrder
<1>3. h[T] = g[i] + h[S] /\ h[S] \in Nat
  <2>1. Sums(h, g, T)
    BY <1>1, <1>2, SumsLaw
  <2>2. /\ \A s \in SUBSET T : h[s] \in Nat
        /\ \A s \in SUBSET T : \A x \in s : h[s] = g[x] + h[s \ {x}]
    BY <2>1 DEF Sums
  <2>3. T \in SUBSET T
    OBVIOUS
  <2>4. h[T] = g[i] + h[T \ {i}] /\ h[S] \in Nat
    BY <1>1, <2>2, <2>3
  <2> QED
    BY <1>1, <2>4
<1>4. PICK k, choice : /\ Picks(choice, S) /\ SumsInOrder(k, f, choice, S)
                       /\ SumFunctionOnSet(f, S) = k[S]
  BY <1>1, SumIsInOrder
<1>5. \A x \in S : f[x] = g[x]
  OBVIOUS
<1>6. k[S] = h[S]
  BY <1>1, <1>2, <1>4, <1>5, SumsAgree
<1> QED
  BY <1>2, <1>3, <1>4, <1>6 DEF T

\* The sum over one member is its value.
LEMMA SumOne ==
    ASSUME NEW i, NEW g \in [{i} -> Nat]
    PROVE  SumFunctionOnSet(g, {i}) = g[i]
<1>1. PICK S : S = {}
  OBVIOUS
<1> DEFINE f == [x \in S |-> 0]
<1>2. IsFiniteSet(S) /\ i \notin S /\ S \cup {i} = {i}
  BY <1>1, FS_EmptySet
<1>3. f \in [S -> Nat] /\ (\A x \in S : f[x] \in Nat) /\ \A x \in S : g[x] = f[x]
  BY <1>1
<1>4. g \in [S \cup {i} -> Nat]
  BY <1>2
<1> HIDE DEF f
<1>5. SumFunctionOnSet(f, S) = 0
  BY <1>1, <1>2, <1>3, SumType
<1>6. SumFunctionOnSet(g, S \cup {i}) = SumFunctionOnSet(f, S) + g[i]
  BY <1>2, <1>3, <1>4, SumAdd
<1>7. SumFunctionOnSet(g, S \cup {i}) = SumFunctionOnSet(g, {i})
  BY <1>2
<1> QED
  BY <1>5, <1>6, <1>7

----------------------------------------------------------------------------
(* Sequences.                                                               *)

\* No two places hold the same.
NoRepeat(s) == \A i, j \in DOMAIN s : i # j => s[i] # s[j]

\* What appending does to the members.
LEMMA AppendMembers ==
    ASSUME NEW S, NEW s \in Seq(S), NEW x \in S
    PROVE  /\ Range(Append(s, x)) = Range(s) \cup {x}
           /\ NoRepeat(s) /\ x \notin Range(s) => NoRepeat(Append(s, x))
<1>1. /\ DOMAIN s = 1..Len(s) /\ Len(s) \in Nat
      /\ DOMAIN Append(s, x) = 1..(Len(s) + 1)
      /\ \A i \in 1..Len(s) : Append(s, x)[i] = s[i]
      /\ Append(s, x)[Len(s) + 1] = x
  BY AppendProperties, LenProperties
<1>2. \A i \in 1..(Len(s) + 1) : i \in 1..Len(s) \/ i = Len(s) + 1
  BY <1>1
<1>3. \A i \in 1..Len(s) : i \in 1..(Len(s) + 1)
  BY <1>1
<1>4. Len(s) + 1 \in 1..(Len(s) + 1)
  BY <1>1
<1> QED
  BY <1>1, <1>2, <1>3, <1>4 DEF Range, NoRepeat

\* What concatenation does to the members.
LEMMA ConcatMembers ==
    ASSUME NEW S, NEW s \in Seq(S), NEW t \in Seq(S)
    PROVE  /\ Range(s \o t) = Range(s) \cup Range(t)
           /\ NoRepeat(s) /\ NoRepeat(t) /\ Range(s) \cap Range(t) = {} => NoRepeat(s \o t)
<1> DEFINE m == Len(s)
           n == Len(t)
           u == s \o t
<1>1. /\ DOMAIN s = 1..m /\ DOMAIN t = 1..n /\ m \in Nat /\ n \in Nat
      /\ DOMAIN u = 1..(m + n)
      /\ \A i \in 1..(m + n) : u[i] = IF i <= m THEN s[i] ELSE t[i - m]
  BY ConcatProperties, LenProperties
<1> HIDE DEF m, n, u
<1>2. \A i \in 1..m : i \in 1..(m + n) /\ u[i] = s[i]
  BY <1>1
<1>3. \A i \in 1..n : m + i \in 1..(m + n) /\ u[m + i] = t[i]
  BY <1>1
<1>4. \A i \in 1..(m + n) : \/ i \in 1..m
                            \/ i - m \in 1..n /\ u[i] = t[i - m]
  BY <1>1
<1>5. Range(u) = Range(s) \cup Range(t)
  <2>1. Range(u) \subseteq Range(s) \cup Range(t)
    BY <1>1, <1>2, <1>4 DEF Range
  <2>2. Range(s) \subseteq Range(u)
    BY <1>1, <1>2 DEF Range
  <2>3. Range(t) \subseteq Range(u)
    BY <1>1, <1>3 DEF Range
  <2> QED
    BY <2>1, <2>2, <2>3
<1>6. ASSUME NoRepeat(s), NoRepeat(t), Range(s) \cap Range(t) = {}
      PROVE  NoRepeat(u)
  <2> SUFFICES ASSUME NEW i \in 1..(m + n), NEW j \in 1..(m + n), i # j
               PROVE  u[i] # u[j]
    BY <1>1 DEF NoRepeat
  <2>1. CASE i \in 1..m /\ j \in 1..m
    BY <1>1, <1>2, <1>6, <2>1 DEF NoRepeat
  <2>2. CASE i \in 1..m /\ j \notin 1..m
    BY <1>1, <1>2, <1>4, <1>6, <2>2 DEF Range
  <2>3. CASE i \notin 1..m /\ j \in 1..m
    BY <1>1, <1>2, <1>4, <1>6, <2>3 DEF Range
  <2>4. CASE i \notin 1..m /\ j \notin 1..m
    <3>1. /\ i - m \in 1..n /\ u[i] = t[i - m] /\ j - m \in 1..n /\ u[j] = t[j - m]
          /\ i - m # j - m
      BY <1>1, <1>4, <2>4
    <3> QED
      BY <1>1, <1>6, <3>1 DEF NoRepeat
  <2> QED
    BY <2>1, <2>2, <2>3, <2>4
<1> QED
  BY <1>5, <1>6 DEF u

\* The members of a finite set of numbers, the greatest first.
LEMMA Descending ==
    ASSUME NEW S, IsFiniteSet(S), S \subseteq Nat
    PROVE  \E n \in Nat : \E g :
               /\ g \in [1..n -> S]
               /\ \A x \in S : \E i \in 1..n : g[i] = x
               /\ \A i, j \in 1..n : i < j => g[i] > g[j]
<1> DEFINE Enumerates(g, n, T) == /\ g \in [1..n -> T]
                                  /\ \A x \in T : \E i \in 1..n : g[i] = x
                                  /\ \A i, j \in 1..n : i < j => g[i] > g[j]
           F == {T \in SUBSET S : \E n \in Nat : \E g : Enumerates(g, n, T)}
<1>1. ASSUME NEW T \in SUBSET S, \A U \in (SUBSET T) \ {T} : U \in F
      PROVE  T \in F
  <2>1. CASE T = {}
    <3> DEFINE g == [i \in 1..0 |-> 0]
    <3>1. Enumerates(g, 0, T)
      BY <2>1
    <3> QED
      BY <3>1
  <2>2. CASE T # {}
    <3>1. PICK m \in T : \A x \in T : m <= x
      BY <2>2, LeastNumber
    <3> DEFINE U == T \ {m}
    <3>10. PICK n \in Nat : \E g : Enumerates(g, n, U)
      <4> HIDE DEF Enumerates
      <4>1. U \in (SUBSET T) \ {T}
        BY <3>1
      <4>2. U \in F
        BY <1>1, <4>1
      <4> QED
        BY <4>2
    <3>2. PICK g : Enumerates(g, n, U)
      BY <3>10
    <3> DEFINE h == [i \in 1..(n + 1) |-> IF i = n + 1 THEN m ELSE g[i]]
    <3>3. \A i \in 1..(n + 1) : i = n + 1 \/ i \in 1..n
      OBVIOUS
    <3>4. \A i \in 1..n : i \in 1..(n + 1) /\ i # n + 1 /\ h[i] = g[i] /\ g[i] \in U
      BY <3>2
    <3>5. n + 1 \in 1..(n + 1) /\ h[n + 1] = m /\ n + 1 \in Nat
      OBVIOUS
    <3>6. h \in [1..(n + 1) -> T]
      BY <3>1, <3>3, <3>4
    <3>7. \A x \in T : \E i \in 1..(n + 1) : h[i] = x
      <4> SUFFICES ASSUME NEW x \in T, x # m
                   PROVE  \E i \in 1..(n + 1) : h[i] = x
        BY <3>5
      <4>1. PICK i \in 1..n : g[i] = x
        BY <3>2
      <4> QED
        BY <3>4, <4>1
    <3>8. \A i, j \in 1..(n + 1) : i < j => h[i] > h[j]
      <4> SUFFICES ASSUME NEW i \in 1..(n + 1), NEW j \in 1..(n + 1), i < j
                   PROVE  h[i] > h[j]
        OBVIOUS
      <4>1. i \in 1..n
        OBVIOUS
      <4>2. CASE j \in 1..n
        BY <3>2, <3>4, <4>1, <4>2
      <4>3. CASE j = n + 1
        <5>1. g[i] \in U /\ g[i] >= m /\ g[i] # m /\ m \in Nat /\ g[i] \in Nat
          BY <3>1, <3>4, <4>1
        <5> QED
          BY <3>4, <3>5, <4>1, <4>3, <5>1
      <4> QED
        BY <3>3, <4>2, <4>3
    <3> HIDE DEF h
    <3>9. Enumerates(h, n + 1, T)
      BY <3>6, <3>7, <3>8
    <3> QED
      BY <3>5, <3>9
  <2> QED
    BY <2>1, <2>2
<1> HIDE DEF F
<1>2. S \in F
  BY <1>1, SubsetInduction
<1> QED
  BY <1>2 DEF F
=============================================================================
