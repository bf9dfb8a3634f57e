----------------------------- MODULE FiniteFacts -----------------------------
(***************************************************************************)
(* Facts about numbers, finite sets and sums that the proofs of several    *)
(* components need. Induction is stated over sets: the set of the numbers, *)
(* or of the finite sets, for which a statement holds is a constant of the *)
(* lemma, so that its uses need no operator for a parameter.               *)
(***************************************************************************)
EXTENDS Integers, FiniteSets, FiniteSetsExt, FiniteSetTheorems, WellFoundedInduction, TLAPS

-----------------------------------------------------------------------------
(* Induction *)

\* A set of natural numbers that is not empty has a least element.
LEMMA LeastNumber ==
  ASSUME NEW A \in SUBSET Nat, A # {}
  PROVE  \E k \in A : \A j \in A : k <= j
<1>1. PICK k \in A : \A j \in A : ~(<<j, k>> \in OpToRel(<, Nat))
  BY NatLessThanWellFounded, WFMin, Zenon
<1>2. \A j \in A : ~(j < k)
  BY <1>1, Zenon DEF OpToRel
<1> QED
  BY <1>2

LEMMA NumberInduction ==
  ASSUME NEW A, 0 \in A, \A n \in Nat : n \in A => n + 1 \in A
  PROVE  Nat \subseteq A
<1> SUFFICES ASSUME Nat \ A # {} PROVE FALSE
  OBVIOUS
<1>1. PICK k \in Nat \ A : \A j \in Nat \ A : k <= j
  BY LeastNumber
<1>2. k # 0 /\ k - 1 \in Nat
  BY <1>1
<1>3. k - 1 \in A
  BY <1>1, <1>2
<1> QED
  BY <1>1, <1>2, <1>3

\* A family of subsets that has the empty one, and with each of its sets the set with one
\* element more, has the whole.
LEMMA SetInduction ==
  ASSUME NEW S, IsFiniteSet(S), NEW A, {} \in A,
         \A T \in SUBSET S : T \in A => \A x \in S \ T : T \cup {x} \in A
  PROVE  S \in A
<1> DEFINE N == {n \in Nat : \A T \in SUBSET S : Cardinality(T) = n => T \in A}
<1>1. 0 \in N
  BY FS_Subset, FS_EmptySet
<1>2. ASSUME NEW n \in Nat, n \in N
      PROVE  n + 1 \in N
  <2> SUFFICES ASSUME NEW T \in SUBSET S, Cardinality(T) = n + 1 PROVE T \in A
    OBVIOUS
  <2>1. IsFiniteSet(T)
    BY FS_Subset
  <2>2. T # {}
    BY <2>1, FS_EmptySet
  <2>3. PICK x \in T : TRUE
    BY <2>2
  <2>4. Cardinality(T \ {x}) = n
    <3>1. Cardinality(T \ {x}) = Cardinality(T) - 1
      BY <2>1, <2>3, FS_RemoveElement
    <3> QED
      BY <3>1
  <2>5. T \ {x} \in A
    BY <1>2, <2>4
  <2>6. T = (T \ {x}) \cup {x}
    BY <2>3
  <2> QED
    BY <2>3, <2>5, <2>6
<1>3. Nat \subseteq N
  <2> HIDE DEF N
  <2> QED
    BY <1>1, <1>2, NumberInduction
<1> QED
  BY <1>3, FS_CardinalityType

\* A finite set of numbers that is not empty has a greatest element.
LEMMA GreatestExists ==
  ASSUME NEW S \in SUBSET Nat, IsFiniteSet(S), S # {}
  PROVE  \E x \in S : \A y \in S : x >= y
<1> DEFINE A == {T \in SUBSET S : T # {} => \E x \in T : \A y \in T : x >= y}
<1>1. {} \in A
  OBVIOUS
<1>2. ASSUME NEW T \in SUBSET S, T \in A, NEW a \in S \ T
      PROVE  T \cup {a} \in A
  <2>1. CASE T = {}
    BY <2>1
  <2>2. CASE T # {}
    <3>1. PICK m \in T : \A y \in T : m >= y
      BY <1>2, <2>2
    <3>2. m >= a => \A y \in T \cup {a} : m >= y
      BY <3>1
    <3>3. a >= m => \A y \in T \cup {a} : a >= y
      BY <3>1
    <3>4. m >= a \/ a >= m
      OBVIOUS
    <3> QED
      BY <3>2, <3>3, <3>4
  <2> QED
    BY <2>1, <2>2
<1>3. S \in A
  <2> HIDE DEF A
  <2> QED
    BY <1>1, <1>2, SetInduction
<1> QED
  BY <1>3

-----------------------------------------------------------------------------
(* Sums over finite sets *)

Sum(f, S) == MapThenSumSet(LAMBDA i : f[i], S)

Chosen(s) == CHOOSE x \in s : TRUE

\* The recursion of the fold: g gives every subset of S its sum.
Summing(f, S, g) ==
  g = [s \in SUBSET S |-> IF s = {} THEN 0 ELSE f[Chosen(s)] + g[s \ {Chosen(s)}]]

LEMMA SumIsFold ==
  ASSUME NEW f, NEW S
  PROVE  Sum(f, S) = (CHOOSE g : Summing(f, S, g))[S]
BY DEF Sum, MapThenSumSet, MapThenFoldSet, Summing, Chosen

LEMMA ChosenIn ==
  ASSUME NEW s, s # {}
  PROVE  Chosen(s) \in s
BY DEF Chosen

LEMMA ChosenRemoved ==
  ASSUME NEW S, IsFiniteSet(S), NEW s \in SUBSET S, NEW n \in Nat, Cardinality(s) = n + 1
  PROVE  /\ s # {} /\ Chosen(s) \in s /\ s \ {Chosen(s)} \in SUBSET S
         /\ Cardinality(s \ {Chosen(s)}) = n
<1>1. IsFiniteSet(s)
  BY FS_Subset
<1>2. s # {}
  BY <1>1, FS_EmptySet
<1>3. Chosen(s) \in s
  BY <1>2, ChosenIn
<1>4. Cardinality(s \ {Chosen(s)}) = Cardinality(s) - 1
  BY <1>1, <1>3, FS_RemoveElement
<1> QED
  BY <1>2, <1>3, <1>4

LEMMA SummingExists ==
  ASSUME NEW f, NEW S, IsFiniteSet(S)
  PROVE  \E g : Summing(f, S, g)
<1> DEFINE Next(g) == [s \in SUBSET S |-> IF s = {} THEN 0 ELSE f[Chosen(s)] + g[s \ {Chosen(s)}]]
           UpTo(g, n) == \A s \in SUBSET S : Cardinality(s) <= n => g[s] = Next(g)[s]
           N == {n \in Nat : \E g : UpTo(g, n)}
<1>0. \A s \in SUBSET S : IsFiniteSet(s) /\ Cardinality(s) \in Nat
  BY FS_Subset, FS_CardinalityType
<1>1. 0 \in N
  <2> DEFINE g == [s \in SUBSET S |-> 0]
  <2>1. \A s \in SUBSET S : Cardinality(s) <= 0 => s = {}
    BY <1>0, FS_EmptySet
  <2>2. UpTo(g, 0)
    BY <2>1
  <2> QED
    BY <2>2
<1>2. ASSUME NEW n \in Nat, n \in N
      PROVE  n + 1 \in N
  <2>1. PICK g : UpTo(g, n)
    BY <1>2
  <2> DEFINE h == Next(g)
  <2>2. ASSUME NEW s \in SUBSET S, Cardinality(s) <= n + 1
        PROVE  h[s] = Next(h)[s]
    <3>1. CASE s = {}
      BY <3>1
    <3>2. CASE s # {}
      <4> DEFINE t == s \ {Chosen(s)}
      <4>1. Chosen(s) \in s /\ t \in SUBSET S /\ Cardinality(t) <= n
        BY <1>0, <2>2, <3>2, ChosenIn, FS_RemoveElement
      <4>2. g[t] = h[t]
        BY <2>1, <4>1
      <4>3. h[s] = f[Chosen(s)] + g[t] /\ Next(h)[s] = f[Chosen(s)] + h[t]
        BY <3>2
      <4> HIDE DEF h, t
      <4> QED
        BY <4>2, <4>3
    <3> QED
      BY <3>1, <3>2
  <2>3. UpTo(h, n + 1)
    BY <2>2
  <2> HIDE DEF h, UpTo
  <2> QED
    BY <2>3
<1>3. Nat \subseteq N
  <2> HIDE DEF N
  <2> QED
    BY <1>1, <1>2, NumberInduction
<1>4. PICK g : UpTo(g, Cardinality(S))
  BY <1>0, <1>3
<1>5. \A s \in SUBSET S : Cardinality(s) <= Cardinality(S)
  BY FS_Subset
<1> DEFINE h == Next(g)
<1>6. \A s \in SUBSET S : h[s] = g[s]
  BY <1>4, <1>5
<1>7. \A s \in SUBSET S : s \ {Chosen(s)} \in SUBSET S
  OBVIOUS
<1>8. h = [s \in SUBSET S |-> IF s = {} THEN 0 ELSE f[Chosen(s)] + h[s \ {Chosen(s)}]]
  BY <1>6, <1>7
<1> QED
  BY <1>8 DEF Summing

\* What a sum is depends on the summands only.
LEMMA SummingSame ==
  ASSUME NEW f, NEW S, NEW g, Summing(f, S, g), NEW e, NEW T, NEW h, Summing(e, T, h),
         IsFiniteSet(S), NEW R \in SUBSET (S \cap T), \A i \in R : f[i] = e[i]
  PROVE  g[R] = h[R]
<1> DEFINE N == {n \in Nat : \A s \in SUBSET R : Cardinality(s) = n => g[s] = h[s]}
<1>0. IsFiniteSet(R)
  BY FS_Subset
<1>1. 0 \in N
  <2>1. \A s \in SUBSET R : Cardinality(s) = 0 => s = {}
    BY <1>0, FS_Subset, FS_EmptySet
  <2>2. g[{}] = 0 /\ h[{}] = 0
    BY DEF Summing
  <2> QED
    BY <2>1, <2>2
<1>2. ASSUME NEW n \in Nat, n \in N
      PROVE  n + 1 \in N
  <2> SUFFICES ASSUME NEW s \in SUBSET R, Cardinality(s) = n + 1 PROVE g[s] = h[s]
    OBVIOUS
  <2> DEFINE c == Chosen(s)
  <2>1. s # {} /\ c \in s /\ s \ {c} \in SUBSET R /\ Cardinality(s \ {c}) = n
    BY <1>0, ChosenRemoved
  <2>2. g[s \ {c}] = h[s \ {c}]
    BY <1>2, <2>1
  <2>3. g[s] = f[c] + g[s \ {c}] /\ h[s] = e[c] + h[s \ {c}]
    BY <2>1 DEF Summing
  <2>4. f[c] = e[c]
    BY <2>1
  <2> QED
    BY <2>2, <2>3, <2>4
<1>3. Nat \subseteq N
  <2> HIDE DEF N
  <2> QED
    BY <1>1, <1>2, NumberInduction
<1> QED
  BY <1>0, <1>3, FS_CardinalityType

LEMMA SumSame ==
  ASSUME NEW f, NEW e, NEW S, IsFiniteSet(S), \A i \in S : f[i] = e[i]
  PROVE  Sum(f, S) = Sum(e, S)
<1> DEFINE g == CHOOSE x : Summing(f, S, x)
           h == CHOOSE x : Summing(e, S, x)
<1>1. Summing(f, S, g) /\ Summing(e, S, h)
  BY SummingExists
<1>2. Sum(f, S) = g[S] /\ Sum(e, S) = h[S]
  BY SumIsFold
<1> HIDE DEF g, h
<1> QED
  BY <1>1, <1>2, SummingSame

LEMMA SumNone == ASSUME NEW f PROVE Sum(f, {}) = 0
<1> DEFINE g == CHOOSE x : Summing(f, {}, x)
<1>1. Summing(f, {}, g)
  BY SummingExists, FS_EmptySet
<1>2. Sum(f, {}) = g[{}]
  BY SumIsFold
<1> HIDE DEF g
<1> QED
  BY <1>1, <1>2 DEF Summing

\* The sum takes the chosen element first.
LEMMA SumChosen ==
  ASSUME NEW f, NEW S, IsFiniteSet(S), S # {}
  PROVE  Sum(f, S) = f[Chosen(S)] + Sum(f, S \ {Chosen(S)})
<1> DEFINE T == S \ {Chosen(S)}
           g == CHOOSE x : Summing(f, S, x)
           h == CHOOSE x : Summing(f, T, x)
<1>1. IsFiniteSet(T)
  BY FS_Subset
<1>2. Summing(f, S, g) /\ Summing(f, T, h)
  BY <1>1, SummingExists
<1>3. Sum(f, S) = g[S] /\ Sum(f, T) = h[T]
  BY SumIsFold
<1> HIDE DEF g, h
<1>4. g[T] = h[T]
  BY <1>2, SummingSame
<1>5. g[S] = f[Chosen(S)] + g[T]
  BY <1>2 DEF Summing
<1> QED
  BY <1>3, <1>4, <1>5

LEMMA SumInt ==
  ASSUME NEW f, NEW S, IsFiniteSet(S), \A i \in S : f[i] \in Int
  PROVE  Sum(f, S) \in Int
<1> DEFINE N == {n \in Nat : \A s \in SUBSET S : Cardinality(s) = n => Sum(f, s) \in Int}
<1>1. 0 \in N
  <2>1. \A s \in SUBSET S : Cardinality(s) = 0 => s = {}
    BY FS_Subset, FS_EmptySet
  <2> QED
    BY <2>1, SumNone
<1>2. ASSUME NEW n \in Nat, n \in N
      PROVE  n + 1 \in N
  <2> SUFFICES ASSUME NEW s \in SUBSET S, Cardinality(s) = n + 1 PROVE Sum(f, s) \in Int
    OBVIOUS
  <2> DEFINE c == Chosen(s)
             t == s \ {c}
  <2>1. s # {} /\ c \in s /\ t \in SUBSET S /\ Cardinality(t) = n /\ IsFiniteSet(s)
    BY ChosenRemoved, FS_Subset
  <2>2. Sum(f, s) = f[c] + Sum(f, t)
    BY <2>1, SumChosen
  <2>3. Sum(f, t) \in Int /\ f[c] \in Int
    BY <1>2, <2>1
  <2> QED
    BY <2>2, <2>3
<1>3. Nat \subseteq N
  <2> HIDE DEF N
  <2> QED
    BY <1>1, <1>2, NumberInduction
<1> QED
  BY <1>3, FS_CardinalityType

\* Integers may be added up in any order.
LEMMA SumRemove ==
  ASSUME NEW f, NEW S, IsFiniteSet(S), \A i \in S : f[i] \in Int, NEW y \in S
  PROVE  Sum(f, S) = f[y] + Sum(f, S \ {y})
<1> DEFINE P(s) == \A x \in s : Sum(f, s) = f[x] + Sum(f, s \ {x})
           N == {n \in Nat : \A s \in SUBSET S : Cardinality(s) = n => P(s)}
<1>0. \A s \in SUBSET S : Sum(f, s) \in Int
  BY SumInt, FS_Subset
<1>1. 0 \in N
  <2>1. \A s \in SUBSET S : Cardinality(s) = 0 => s = {}
    BY FS_Subset, FS_EmptySet
  <2> QED
    BY <2>1
<1>2. ASSUME NEW n \in Nat, n \in N
      PROVE  n + 1 \in N
  <2> SUFFICES ASSUME NEW s \in SUBSET S, Cardinality(s) = n + 1, NEW x \in s
               PROVE  Sum(f, s) = f[x] + Sum(f, s \ {x})
    OBVIOUS
  <2> DEFINE c == Chosen(s)
             t == s \ {c}
  <2>1. s # {} /\ c \in s /\ t \in SUBSET S /\ Cardinality(t) = n /\ IsFiniteSet(s)
    BY ChosenRemoved, FS_Subset
  <2>2. Sum(f, s) = f[c] + Sum(f, t)
    BY <2>1, SumChosen
  <2>3. CASE x = c
    BY <2>2, <2>3
  <2>4. CASE x # c
    <3> DEFINE u == s \ {x}
               v == t \ {x}
    <3>1. x \in t /\ u \in SUBSET S /\ Cardinality(u) = n /\ c \in u /\ u \ {c} = v /\ v \in SUBSET S
      BY <2>1, <2>4, FS_RemoveElement
    <3>2. Sum(f, t) = f[x] + Sum(f, v)
      BY <1>2, <2>1, <3>1
    <3>3. Sum(f, u) = f[c] + Sum(f, v)
      BY <1>2, <3>1
    <3>4. Sum(f, v) \in Int /\ f[c] \in Int /\ f[x] \in Int
      BY <1>0, <2>1, <3>1
    <3> HIDE DEF u, v, t, c
    <3> QED
      BY <2>2, <3>2, <3>3, <3>4 DEF u
  <2> QED
    BY <2>3, <2>4
<1>3. Nat \subseteq N
  <2> HIDE DEF N
  <2> QED
    BY <1>1, <1>2, NumberInduction
<1> QED
  BY <1>3, FS_CardinalityType

\* The summand of y becomes n, the others stay.
Updated(e, f, S, y, n) ==
  f \in [S -> Int] /\ y \in S /\ n \in Int /\ e = [f EXCEPT ![y] = n]

LEMMA SumUpdate ==
  ASSUME NEW S, IsFiniteSet(S), NEW f, NEW e, NEW y, NEW n, Updated(e, f, S, y, n)
  PROVE  Sum(e, S) = Sum(f, S) - f[y] + n
<1>1. /\ y \in S /\ n \in Int /\ e[y] = n
      /\ \A i \in S : f[i] \in Int /\ e[i] \in Int
      /\ \A i \in S \ {y} : e[i] = f[i]
  BY DEF Updated
<1>2. Sum(f, S) = f[y] + Sum(f, S \ {y}) /\ Sum(e, S) = e[y] + Sum(e, S \ {y})
  BY <1>1, SumRemove
<1>3. IsFiniteSet(S \ {y})
  BY FS_Subset
<1>4. Sum(e, S \ {y}) = Sum(f, S \ {y})
  BY <1>1, <1>3, SumSame
<1>5. Sum(f, S \ {y}) \in Int /\ f[y] \in Int
  BY <1>1, <1>3, SumInt
<1> QED
  BY <1>1, <1>2, <1>4, <1>5

LEMMA SumAdd ==
  ASSUME NEW f, NEW S, IsFiniteSet(S), NEW x, x \notin S, \A i \in S \cup {x} : f[i] \in Int
  PROVE  Sum(f, S \cup {x}) = Sum(f, S) + f[x]
<1> DEFINE T == S \cup {x}
<1>1. IsFiniteSet(T)
  BY FS_AddElement
<1>2. T \ {x} = S
  OBVIOUS
<1>3. Sum(f, T) = f[x] + Sum(f, T \ {x})
  BY <1>1, SumRemove
<1>4. Sum(f, S) \in Int /\ f[x] \in Int
  BY SumInt
<1>5. Sum(f, T) = f[x] + Sum(f, S)
  BY <1>2, <1>3, Zenon
<1> HIDE DEF T
<1>6. Sum(f, T) = Sum(f, S) + f[x]
  BY <1>4, <1>5
<1> QED
  BY <1>6 DEF T

LEMMA SumOne ==
  ASSUME NEW f, NEW x, f[x] \in Int
  PROVE  Sum(f, {x}) = f[x]
<1>1. Sum(f, {} \cup {x}) = Sum(f, {}) + f[x]
  BY FS_EmptySet, SumAdd
<1> QED
  BY <1>1, SumNone

LEMMA SumUnion ==
  ASSUME NEW f, NEW S, IsFiniteSet(S), NEW T, IsFiniteSet(T), S \cap T = {},
         \A i \in S \cup T : f[i] \in Int
  PROVE  Sum(f, S \cup T) = Sum(f, S) + Sum(f, T)
<1> DEFINE A == {U \in SUBSET T : Sum(f, S \cup U) = Sum(f, S) + Sum(f, U)}
<1>1. {} \in A
  <2>1. S \cup {} = S
    OBVIOUS
  <2> QED
    BY <2>1, SumNone, SumInt
<1>2. ASSUME NEW U \in SUBSET T, U \in A, NEW x \in T \ U
      PROVE  U \cup {x} \in A
  <2>1. IsFiniteSet(U) /\ IsFiniteSet(S \cup U)
    BY FS_Subset, FS_Union
  <2>2. S \cup (U \cup {x}) = (S \cup U) \cup {x} /\ x \notin S \cup U
    OBVIOUS
  <2>3. Sum(f, S \cup (U \cup {x})) = Sum(f, S \cup U) + f[x]
    BY <2>1, <2>2, SumAdd
  <2>4. Sum(f, U \cup {x}) = Sum(f, U) + f[x]
    BY <2>1, SumAdd
  <2>5. Sum(f, S) \in Int /\ Sum(f, U) \in Int /\ f[x] \in Int
    BY <2>1, SumInt
  <2>6. Sum(f, S \cup U) = Sum(f, S) + Sum(f, U)
    BY <1>2
  <2>7. Sum(f, S \cup (U \cup {x})) = Sum(f, S) + Sum(f, U \cup {x})
    BY <2>3, <2>4, <2>5, <2>6
  <2> QED
    BY <2>7
<1>3. T \in A
  <2> HIDE DEF A
  <2> QED
    BY <1>1, <1>2, SetInduction
<1> QED
  BY <1>3

LEMMA SumLeq ==
  ASSUME NEW f, NEW e, NEW S, IsFiniteSet(S),
         \A i \in S : f[i] \in Int /\ e[i] \in Int /\ f[i] <= e[i]
  PROVE  Sum(f, S) <= Sum(e, S)
<1> DEFINE A == {U \in SUBSET S : Sum(f, U) <= Sum(e, U)}
<1>1. {} \in A
  BY SumNone
<1>2. ASSUME NEW U \in SUBSET S, U \in A, NEW x \in S \ U
      PROVE  U \cup {x} \in A
  <2>1. IsFiniteSet(U)
    BY FS_Subset
  <2>2. Sum(f, U \cup {x}) = Sum(f, U) + f[x] /\ Sum(e, U \cup {x}) = Sum(e, U) + e[x]
    BY <2>1, SumAdd
  <2>3. /\ Sum(f, U) \in Int /\ Sum(e, U) \in Int /\ f[x] \in Int /\ e[x] \in Int
        /\ f[x] <= e[x] /\ Sum(f, U) <= Sum(e, U)
    BY <1>2, <2>1, SumInt
  <2>4. Sum(f, U \cup {x}) <= Sum(e, U \cup {x})
    BY <2>2, <2>3
  <2> QED
    BY <2>4
<1>3. S \in A
  <2> HIDE DEF A
  <2> QED
    BY <1>1, <1>2, SetInduction
<1> QED
  BY <1>3

\* The signs of the summands are the sign of the sum; zeroes add nothing.
LEMMA SumSign ==
  ASSUME NEW f, NEW S, IsFiniteSet(S), \A i \in S : f[i] \in Int
  PROVE  /\ (\A i \in S : f[i] = 0) => Sum(f, S) = 0
         /\ (\A i \in S : f[i] >= 0) => Sum(f, S) >= 0
         /\ (\A i \in S : f[i] <= 0) => Sum(f, S) <= 0
<1> DEFINE e == [i \in S |-> 0]
           A == {U \in SUBSET S : Sum(e, U) = 0}
<1>1. {} \in A
  BY SumNone
<1>2. ASSUME NEW U \in SUBSET S, U \in A, NEW x \in S \ U
      PROVE  U \cup {x} \in A
  <2>1. IsFiniteSet(U)
    BY FS_Subset
  <2>2. \A i \in U \cup {x} : e[i] \in Int
    OBVIOUS
  <2>3. Sum(e, U \cup {x}) = Sum(e, U) + e[x]
    BY <2>1, <2>2, SumAdd
  <2>4. e[x] = 0
    OBVIOUS
  <2> HIDE DEF e
  <2> QED
    BY <1>2, <2>3, <2>4
<1>3. S \in A
  <2> HIDE DEF A
  <2> QED
    BY <1>1, <1>2, SetInduction
<1>4. Sum(e, S) = 0
  BY <1>3
<1>5. \A i \in S : e[i] \in Int /\ e[i] = 0
  OBVIOUS
<1>6. Sum(f, S) \in Int
  BY SumInt
<1> HIDE DEF e
<1>7. (\A i \in S : f[i] >= 0) => Sum(f, S) >= 0
  BY <1>4, <1>5, <1>6, SumLeq
<1>8. (\A i \in S : f[i] <= 0) => Sum(f, S) <= 0
  BY <1>4, <1>5, <1>6, SumLeq
<1>9. (\A i \in S : f[i] = 0) => Sum(f, S) = 0
  BY <1>4, <1>5, SumSame
<1> QED
  BY <1>7, <1>8, <1>9

\* The sum over the elements that matter.
LEMMA SumPart ==
  ASSUME NEW f, NEW S, IsFiniteSet(S), \A i \in S : f[i] \in Int,
         NEW T \in SUBSET S, \A i \in S \ T : f[i] = 0
  PROVE  Sum(f, S) = Sum(f, T)
<1> DEFINE U == S \ T
<1>1. IsFiniteSet(T) /\ IsFiniteSet(U) /\ T \cup U = S /\ T \cap U = {}
  BY FS_Subset
<1>2. \A i \in U : f[i] = 0
  OBVIOUS
<1> HIDE DEF U
<1>3. Sum(f, S) = Sum(f, T) + Sum(f, U)
  BY <1>1, SumUnion
<1>4. Sum(f, U) = 0 /\ Sum(f, T) \in Int
  BY <1>1, <1>2, SumSign, SumInt
<1> QED
  BY <1>3, <1>4

LEMMA SumMinus ==
  ASSUME NEW f, NEW e, NEW S, IsFiniteSet(S), \A i \in S : f[i] \in Int /\ e[i] = -f[i]
  PROVE  Sum(e, S) = -Sum(f, S)
<1> DEFINE A == {U \in SUBSET S : Sum(e, U) = -Sum(f, U)}
<1>1. {} \in A
  BY SumNone
<1>2. ASSUME NEW U \in SUBSET S, U \in A, NEW x \in S \ U
      PROVE  U \cup {x} \in A
  <2>1. IsFiniteSet(U)
    BY FS_Subset
  <2>2. Sum(f, U \cup {x}) = Sum(f, U) + f[x] /\ Sum(e, U \cup {x}) = Sum(e, U) + e[x]
    BY <2>1, SumAdd
  <2>3. Sum(f, U) \in Int /\ f[x] \in Int /\ e[x] = -f[x] /\ Sum(e, U) = -Sum(f, U)
    BY <1>2, <2>1, SumInt
  <2>4. Sum(e, U \cup {x}) = -Sum(f, U \cup {x})
    BY <2>2, <2>3
  <2> QED
    BY <2>4
<1>3. S \in A
  <2> HIDE DEF A
  <2> QED
    BY <1>1, <1>2, SetInduction
<1> QED
  BY <1>3

\* Renaming the summands one to one.
LEMMA SumRenamed ==
  ASSUME NEW f, NEW e, NEW S, NEW D, IsFiniteSet(D), NEW p \in [D -> S],
         \A i, j \in D : i # j => p[i] # p[j], \A x \in S : \E i \in D : p[i] = x,
         \A x \in S : f[x] \in Int, \A i \in D : e[i] = f[p[i]]
  PROVE  Sum(e, D) = Sum(f, S)
<1> DEFINE img(U) == {p[i] : i \in U}
           A == {U \in SUBSET D : IsFiniteSet(img(U)) /\ Sum(e, U) = Sum(f, img(U))}
<1>1. {} \in A
  <2>1. img({}) = {}
    OBVIOUS
  <2> QED
    BY <2>1, SumNone, FS_EmptySet
<1>2. ASSUME NEW U \in SUBSET D, U \in A, NEW x \in D \ U
      PROVE  U \cup {x} \in A
  <2>1. IsFiniteSet(U)
    BY FS_Subset
  <2>2. img(U \cup {x}) = img(U) \cup {p[x]} /\ p[x] \notin img(U) /\ img(U) \subseteq S
    OBVIOUS
  <2>3. Sum(e, U \cup {x}) = Sum(e, U) + e[x]
    BY <2>1, SumAdd
  <2>4. IsFiniteSet(img(U)) /\ Sum(e, U) = Sum(f, img(U)) /\ f[p[x]] = e[x]
    BY <1>2
  <2> HIDE DEF img
  <2>5. Sum(f, img(U) \cup {p[x]}) = Sum(f, img(U)) + f[p[x]]
    BY <2>2, <2>4, SumAdd
  <2>6. IsFiniteSet(img(U) \cup {p[x]})
    BY <2>4, FS_AddElement
  <2> QED
    BY <2>2, <2>3, <2>4, <2>5, <2>6
<1>3. D \in A
  <2> HIDE DEF A
  <2> QED
    BY <1>1, <1>2, SetInduction
<1>4. img(D) = S
  OBVIOUS
<1> QED
  BY <1>3, <1>4

-----------------------------------------------------------------------------
(* The smaller and the larger of two *)

LEMMA TwoExtremes ==
  ASSUME NEW a \in Int, NEW b \in Int
  PROVE  Min({a, b}) = (IF a <= b THEN a ELSE b) /\ Max({a, b}) = (IF a <= b THEN b ELSE a)
<1>1. \E x \in {a, b} : \A y \in {a, b} : x <= y
  <2>1. CASE a <= b
    BY <2>1
  <2>2. CASE ~(a <= b)
    BY <2>2
  <2> QED
    BY <2>1, <2>2
<1>2. \E x \in {a, b} : \A y \in {a, b} : x >= y
  <2>1. CASE a <= b
    BY <2>1
  <2>2. CASE ~(a <= b)
    BY <2>2
  <2> QED
    BY <2>1, <2>2
<1>3. Min({a, b}) \in {a, b} /\ \A y \in {a, b} : Min({a, b}) <= y
  BY <1>1 DEF Min
<1>4. Max({a, b}) \in {a, b} /\ \A y \in {a, b} : Max({a, b}) >= y
  BY <1>2 DEF Max
<1> QED
  BY <1>3, <1>4

=============================================================================
