---- MODULE FoldTheorems ----
(***************************************************************************)
(* The least and the greatest of a set of numbers, and sums over finite sets *)
(* as the community modules fold them: that they can be taken element by    *)
(* element, in any order.  Induction is by the smallest counterexample.      *)
(***************************************************************************)
EXTENDS Integers, FiniteSets, Functions, FiniteSetTheorems, TLAPS

(* Among finitely many numbers, each place in their order is taken.          *)
LEMMA PlaceTaken ==
  ASSUME NEW S, S \subseteq Nat, IsFiniteSet(S), NEW k \in 0..(Cardinality(S) - 1)
  PROVE  \E n \in S : Cardinality({m \in S : m < n}) = k
<1> DEFINE Below(n) == {m \in S : m < n}
           f == [n \in S |-> Cardinality(Below(n))]
           P == 0..(Cardinality(S) - 1)
<1>0. Cardinality(S) \in Nat
  BY FS_CardinalityType
<1>1. \A n \in S : IsFiniteSet(Below(n)) /\ Cardinality(Below(n)) \in P
  <2> SUFFICES ASSUME NEW n \in S PROVE IsFiniteSet(Below(n)) /\ Cardinality(Below(n)) \in P
    OBVIOUS
  <2>1. Below(n) \in SUBSET S /\ Below(n) # S
    OBVIOUS
  <2>2. IsFiniteSet(Below(n)) /\ Cardinality(Below(n)) \in Nat
    BY <2>1, FS_Subset, FS_CardinalityType
  <2>3. Cardinality(Below(n)) < Cardinality(S)
    BY <2>1, <2>2, <1>0, FS_Subset
  <2> QED
    BY <2>2, <2>3, <1>0
<1>2. \A a, b \in S : a < b => Cardinality(Below(a)) < Cardinality(Below(b))
  <2> SUFFICES ASSUME NEW a \in S, NEW b \in S, a < b
               PROVE  Cardinality(Below(a)) < Cardinality(Below(b))
    OBVIOUS
  <2>0. a \in Nat /\ b \in Nat /\ \A m \in S : m < a => m < b
    OBVIOUS
  <2>a. ~(a < a)
    BY <2>0
  <2>1. Below(a) \in SUBSET Below(b) /\ a \in Below(b) /\ a \notin Below(a)
    BY <2>0, <2>a, Zenon
  <2>2. Cardinality(Below(a)) <= Cardinality(Below(b)) /\ Below(a) # Below(b)
    BY <2>1, <1>1, FS_Subset
  <2>3. Cardinality(Below(a)) # Cardinality(Below(b))
    BY <2>1, <2>2, <1>1, FS_Subset
  <2> QED
    BY <2>2, <2>3, <1>1, <1>0
<1>3. \A a, b \in S : f[a] = f[b] => a = b
  <2> SUFFICES ASSUME NEW a \in S, NEW b \in S, f[a] = f[b], a # b PROVE FALSE
    OBVIOUS
  <2>1. f[a] \in P /\ f[b] \in P
    BY <1>1
  <2>2. a < b \/ b < a
    OBVIOUS
  <2> QED
    BY <2>1, <2>2, <1>2, <1>0
<1>4. f \in Injection(S, P)
  BY <1>1, <1>3 DEF Injection, IsInjective
<1>5. IsFiniteSet(P) /\ Cardinality(P) = Cardinality(S)
  BY <1>0, FS_Interval
<1>6. f \in Surjection(S, P)
  <2> HIDE DEF f, P
  <2> QED
    BY <1>4, <1>5, FS_Injection
<1>7. PICK n \in S : f[n] = k
  BY <1>6 DEF Surjection
<1> QED
  BY <1>7

(* A set of numbers has a least one.                                         *)
LEMMA LeastNumber ==
  ASSUME NEW S, S \subseteq Nat, S # {}
  PROVE  \E i \in S : \A j \in S : i <= j
<1>1. PICK n \in S : n \in Nat
  OBVIOUS
<1> DEFINE T == {m \in S : m <= n}
<1>2. T \subseteq Nat /\ IsFiniteSet(T) /\ n \in T
  <2>1. IsFiniteSet(0..n)
    BY <1>1, FS_Interval
  <2>2. T \subseteq 0..n /\ n \in T /\ T \subseteq Nat
    <3>1. \A m \in T : m \in Nat /\ m \in 0..n
      BY <1>1
    <3>2. n <= n
      BY <1>1
    <3> QED
      BY <3>1, <3>2
  <2> HIDE DEF T
  <2>3. IsFiniteSet(T)
    BY <2>1, <2>2, FS_Subset
  <2> QED
    BY <2>2, <2>3
<1> HIDE DEF T
<1>3. 0 \in 0..(Cardinality(T) - 1)
  <2>1. Cardinality(T) \in Nat /\ Cardinality(T) # 0
    BY <1>2, FS_CardinalityType, FS_EmptySet
  <2> QED
    BY <2>1
<1>4. PICK i \in T : Cardinality({m \in T : m < i}) = 0
  BY <1>2, <1>3, PlaceTaken
<1>5. {m \in T : m < i} = {}
  <2>1. IsFiniteSet({m \in T : m < i})
    BY <1>2, FS_Subset
  <2> QED
    BY <1>4, <2>1, FS_EmptySet
<1>6. \A j \in S : i <= j
  <2> SUFFICES ASSUME NEW j \in S, j < i PROVE FALSE
    BY <1>2
  <2>1. i <= n /\ j <= n
    BY <1>1, <1>2 DEF T
  <2>2. j \in {m \in T : m < i}
    BY <2>1 DEF T
  <2> QED
    BY <1>5, <2>2
<1> QED
  BY <1>6 DEF T

(* A nonempty set of numbers up to L has a greatest one.                     *)
LEMMA GreatestNumber ==
  ASSUME NEW L \in Nat, NEW X, X \subseteq 1 .. L, X # {}
  PROVE  \E m \in X : \A i \in X : i <= m
<1> DEFINE D == {L - i : i \in X}
<1>1. D \subseteq Nat /\ D # {}
  <2>1. \A i \in X : i \in Int /\ L - i \in Nat
    OBVIOUS
  <2> QED
    BY <2>1
<1> HIDE DEF D
<1>2. PICK d \in D : \A y \in D : d <= y
  BY <1>1, LeastNumber
<1>3. PICK m \in X : d = L - m
  BY DEF D
<1>4. ASSUME NEW i \in X PROVE i <= m
  <2>1. d <= L - i
    BY <1>2 DEF D
  <2> QED
    BY <1>3, <2>1
<1> QED
  BY <1>4

(* Members of a set of numbers up to L with fewer than n greater ones are    *)
(* no more than n.                                                         *)
LEMMA GreatestFew ==
  ASSUME NEW L \in Nat, NEW S, S \subseteq 1 .. L, NEW n \in Nat \ {0}, NEW T, T \subseteq S,
         \A i \in T : Cardinality({j \in S : j > i}) < n
  PROVE  IsFiniteSet(T) /\ Cardinality(T) \in Nat /\ Cardinality(T) <= n
<1> DEFINE D == {L + 1 - i : i \in T}
<1>1. T \subseteq S /\ T \subseteq 1 .. L
  OBVIOUS
<1>2. IsFiniteSet(1 .. L)
  BY FS_Interval
<1>3. IsFiniteSet(T) /\ IsFiniteSet(S)
  BY <1>1, <1>2, FS_Subset
<1>4. Cardinality(T) \in Nat
  BY <1>3, FS_CardinalityType
<1>5. CASE T = {}
  <2>1. Cardinality(T) = 0
    BY <1>3, <1>5, FS_EmptySet
  <2> QED
    BY <1>3, <2>1
<1>6. CASE T # {}
  <2>1. D \subseteq 1 .. L /\ D # {}
    <3>1. \A i \in T : L + 1 - i \in 1 .. L
      BY <1>1
    <3> QED
      BY <1>6, <3>1
  <2> HIDE DEF D
  <2>2. PICK d \in D : \A y \in D : y <= d
    BY <2>1, GreatestNumber
  <2>3. PICK m \in T : d = L + 1 - m
    BY DEF D
  <2>4. ASSUME NEW i \in T PROVE m <= i
    <3>1. L + 1 - i <= d
      BY <2>2 DEF D
    <3>2. i \in Int /\ m \in Int
      BY <1>1
    <3> QED
      BY <2>3, <3>1, <3>2
  <2> DEFINE A == {j \in S : j > m}
  <2>5. T \ {m} \subseteq A
    BY <1>1, <2>4
  <2>6. Cardinality(A) < n
    OBVIOUS
  <2>7. IsFiniteSet(A)
    BY <1>3, FS_Subset
  <2> HIDE DEF A
  <2>8. /\ Cardinality(T \ {m}) <= Cardinality(A)
        /\ Cardinality(T \ {m}) \in Nat /\ Cardinality(A) \in Nat
    BY <2>5, <2>7, FS_Subset, FS_CardinalityType
  <2>9. Cardinality(T \ {m}) = Cardinality(T) - 1
    BY <1>3, FS_RemoveElement
  <2>10. Cardinality(T) <= n
    BY <1>4, <2>6, <2>8, <2>9
  <2> QED
    BY <1>3, <1>4, <2>10
<1> QED
  BY <1>5, <1>6

\* Of the finite sets with some property, one has no smaller one: a family of
\* subsets that is not empty has a member none of whose elements can be left out.
LEMMA LeastSet ==
  ASSUME NEW S, IsFiniteSet(S), NEW F, F \subseteq SUBSET S, F # {}
  PROVE  \E T \in F : IsFiniteSet(T) /\ \A x \in T : T \ {x} \notin F
<1>1. \A T \in F : IsFiniteSet(T) /\ Cardinality(T) \in Nat
  BY FS_Subset, FS_CardinalityType
<1> DEFINE N == {Cardinality(T) : T \in F}
<1>2. N \subseteq Nat /\ N # {}
  BY <1>1
<1>3. PICK n \in N : \A m \in N : n <= m
  BY <1>2, LeastNumber
<1>4. PICK T \in F : n = Cardinality(T)
  OBVIOUS
<1>5. ASSUME NEW x \in T, T \ {x} \in F PROVE FALSE
  <2>1. Cardinality(T \ {x}) = Cardinality(T) - 1
    BY <1>1, FS_RemoveElement
  <2>2. n <= Cardinality(T \ {x})
    BY <1>3, <1>5
  <2> QED
    BY <1>1, <1>4, <2>1, <2>2
<1> QED
  BY <1>1, <1>5

\* What adds up the values of a function over each subset of S.
AddsUp(g, f, S) ==
    /\ g \in [SUBSET S -> Int] /\ g[{}] = 0
    /\ \A T \in SUBSET S : \A x \in T : g[T] = f[x] + g[T \ {x}]

\* There is one.
LEMMA SumExists ==
  ASSUME NEW S, IsFiniteSet(S), NEW f, \A x \in S : f[x] \in Int
  PROVE  \E g \in [SUBSET S -> Int] : AddsUp(g, f, S)
<1> DEFINE F == {T \in SUBSET S : ~ \E g \in [SUBSET T -> Int] : AddsUp(g, f, T)}
<1> SUFFICES ASSUME F # {} PROVE FALSE
  OBVIOUS
<1>1. PICK T \in F : \A x \in T : T \ {x} \notin F
  BY LeastSet
<1>2. CASE T = {}
  <2> DEFINE g == [U \in SUBSET T |-> 0]
  <2>1. g \in [SUBSET T -> Int] /\ AddsUp(g, f, T)
    BY <1>2 DEF AddsUp
  <2> QED
    BY <2>1
<1>3. CASE T # {}
  <2>1. PICK x \in T : f[x] \in Int /\ T \ {x} \in SUBSET S
    BY <1>3
  <2>2. PICK g \in [SUBSET (T \ {x}) -> Int] : AddsUp(g, f, T \ {x})
    BY <1>1, <2>1
  <2> DEFINE h == [U \in SUBSET T |-> IF x \in U THEN f[x] + g[U \ {x}] ELSE g[U]]
  <2>3. \A U \in SUBSET T : U \ {x} \in SUBSET (T \ {x}) /\ (x \notin U => U \in SUBSET (T \ {x}))
    OBVIOUS
  <2>4. h \in [SUBSET T -> Int]
    BY <2>1, <2>2, <2>3
  <2>5. h[{}] = 0
    BY <2>2 DEF AddsUp
  <2>6. ASSUME NEW U \in SUBSET T, NEW y \in U PROVE h[U] = f[y] + h[U \ {y}]
    <3>1. U \ {y} \in SUBSET T /\ f[y] \in Int
      OBVIOUS
    <3>2. CASE y = x
      <4>1. h[U] = f[x] + g[U \ {x}] /\ h[U \ {y}] = g[U \ {x}]
        BY <3>1, <3>2
      <4> QED
        BY <3>2, <4>1
    <3>3. CASE y # x /\ x \in U
      <4>1. h[U] = f[x] + g[U \ {x}] /\ h[U \ {y}] = f[x] + g[(U \ {y}) \ {x}]
        BY <3>1, <3>3
      <4>2. (U \ {y}) \ {x} = (U \ {x}) \ {y} /\ y \in U \ {x}
        BY <3>3
      <4>3. g[U \ {x}] = f[y] + g[(U \ {x}) \ {y}]
        BY <2>2, <2>3, <4>2 DEF AddsUp
      <4>4. g[(U \ {x}) \ {y}] \in Int
        BY <2>2, <2>3
      <4> QED
        <5>1. PICK a, b \in Int : a = f[x] /\ b = f[y]
          BY <2>1, <3>1
        <5>2. PICK c \in Int : c = g[(U \ {x}) \ {y}]
          BY <4>4
        <5>3. h[U] = a + (b + c) /\ h[U \ {y}] = a + c
          BY <4>1, <4>2, <4>3, <5>1, <5>2
        <5> HIDE DEF h
        <5> QED
          BY <5>1, <5>3
    <3>4. CASE x \notin U
      <4>1. h[U] = g[U] /\ h[U \ {y}] = g[U \ {y}]
        BY <3>1, <3>4
      <4> QED
        BY <2>2, <2>3, <3>4, <4>1 DEF AddsUp
    <3> QED
      BY <3>2, <3>3, <3>4
  <2>7. AddsUp(h, f, T)
    BY <2>4, <2>5, <2>6 DEF AddsUp
  <2> QED
    BY <2>4, <2>7
<1> QED
  BY <1>2, <1>3

\* It is the fold.
LEMMA SumIsFold ==
  ASSUME NEW S, IsFiniteSet(S), NEW f, NEW g, AddsUp(g, f, S)
  PROVE  SumFunctionOnSet(f, S) = g[S]
<1> DEFINE Least(T) == CHOOSE x \in T : TRUE
           R(it) == it = [T \in SUBSET S |-> IF T = {} THEN 0 ELSE f[Least(T)] + it[T \ {Least(T)}]]
           fold == CHOOSE it : R(it)
<1>1. SumFunctionOnSet(f, S) = fold[S]
  BY DEF SumFunctionOnSet, FoldFunctionOnSet, MapThenFoldSet
<1>2. \A T : T # {} => Least(T) \in T
  OBVIOUS
<1> HIDE DEF Least
<1>3. R(g)
  BY <1>2 DEF AddsUp
<1>4. R(fold)
  BY <1>3
<1> HIDE DEF fold
<1> DEFINE F == {T \in SUBSET S : fold[T] # g[T]}
<1>5. F = {}
  <2> SUFFICES ASSUME F # {} PROVE FALSE
    OBVIOUS
  <2>1. PICK T \in F : \A x \in T : T \ {x} \notin F
    BY LeastSet
  <2>2. CASE T = {}
    BY <1>4, <2>2 DEF AddsUp
  <2>3. CASE T # {}
    <3>1. Least(T) \in T /\ T \ {Least(T)} \in SUBSET S
      BY <1>2, <2>3
    <3>2. fold[T \ {Least(T)}] = g[T \ {Least(T)}]
      BY <2>1, <3>1
    <3>3. fold[T] = f[Least(T)] + fold[T \ {Least(T)}]
      BY <1>4, <2>3
    <3> QED
      BY <3>1, <3>2, <3>3 DEF AddsUp
  <2> QED
    BY <2>2, <2>3
<1> QED
  BY <1>1, <1>5

\* A sum is a number; nothing sums to 0; and a sum is that of all others and the
\* value of any one.
LEMMA SumAdds ==
  ASSUME NEW S, IsFiniteSet(S), NEW f, \A x \in S : f[x] \in Int
  PROVE  /\ SumFunctionOnSet(f, S) \in Int
         /\ S = {} => SumFunctionOnSet(f, S) = 0
         /\ \A x \in S : SumFunctionOnSet(f, S) = f[x] + SumFunctionOnSet(f, S \ {x})
<1>1. PICK g : AddsUp(g, f, S)
  BY SumExists
<1>2. SumFunctionOnSet(f, S) = g[S]
  BY <1>1, SumIsFold
<1>3. ASSUME NEW x \in S PROVE SumFunctionOnSet(f, S \ {x}) = g[S \ {x}]
  <2> DEFINE T == S \ {x}
             h == [U \in SUBSET T |-> g[U]]
  <2>1. IsFiniteSet(T) /\ T \subseteq S
    BY FS_Subset
  <2>2. AddsUp(h, f, T)
    BY <1>1, <2>1 DEF AddsUp
  <2>3. SumFunctionOnSet(f, T) = h[T]
    BY <2>1, <2>2, SumIsFold
  <2> QED
    BY <2>3
<1> QED
  BY <1>1, <1>2, <1>3 DEF AddsUp

\* A sum depends on the values over its set only.
LEMMA SumSame ==
  ASSUME NEW S, IsFiniteSet(S), NEW f, NEW e, \A x \in S : f[x] \in Int /\ e[x] = f[x]
  PROVE  SumFunctionOnSet(e, S) = SumFunctionOnSet(f, S)
<1>1. PICK g : AddsUp(g, f, S)
  BY SumExists
<1>2. AddsUp(g, e, S)
  BY <1>1 DEF AddsUp
<1> QED
  BY <1>1, <1>2, SumIsFold
=============================================================================
