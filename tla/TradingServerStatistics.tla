------------------------ MODULE TradingServerStatistics ------------------------
(***************************************************************************)
(* What the statistics are worth that many handlers update without a lock, *)
(* and that every trade of the log is counted by the call that made it.    *)
(***************************************************************************)
EXTENDS TradingServerAnswers

-------------------------------------------------------------------------------
\* Sums over finite sets, as the folds of the community modules compute them:
\* one element first, then the rest.

\* A set of naturals has a least member.
LEMMA LeastOfNats ==
  ASSUME NEW T, T \subseteq Nat, T # {}
  PROVE  \E m \in T : \A n \in T : m <= n
BY EngineAssumptions, Engine!LeastOfNats

\* A family of subsets of a finite set has a member of which no other is a part.
LEMMA SmallestSet ==
  ASSUME NEW S, IsFiniteSet(S), NEW Family \in SUBSET SUBSET S, Family # {}
  PROVE  \E T \in Family : \A U \in SUBSET T : U \in Family => U = T
<1> DEFINE Sizes == {Cardinality(T) : T \in Family}
<1>1. \A T \in Family : IsFiniteSet(T) /\ Cardinality(T) \in Nat
  BY FS_Subset, FS_CardinalityType
<1>2. Sizes \subseteq Nat /\ Sizes # {}
  BY <1>1
<1> HIDE DEF Sizes
<1>3. PICK m \in Sizes : \A n \in Sizes : m <= n
  BY <1>2, LeastOfNats
<1>4. PICK T \in Family : m = Cardinality(T)
  BY <1>3 DEF Sizes
<1>5. ASSUME NEW U \in SUBSET T, U \in Family PROVE U = T
  <2>1. Cardinality(T) <= Cardinality(U)
    BY <1>3, <1>4, <1>5 DEF Sizes
  <2>2. Cardinality(U) <= Cardinality(T) /\ (Cardinality(T) = Cardinality(U) => T = U)
    BY <1>1, FS_Subset
  <2> QED
    BY <1>1, <1>5, <2>1, <2>2
<1> QED
  BY <1>5

\* total[T] is the sum of a over T, for the subsets T of S: of a first
\* element, and of the others.
AddsUp(total, a, S) ==
  /\ total[{}] = 0
  /\ \A T \in SUBSET S : T # {} => \E x \in T : total[T] = a[x] + total[T \ {x}]

\* It does not matter which element is the first.
LEMMA AnyOrder ==
  ASSUME NEW S, IsFiniteSet(S), NEW a, \A x \in S : a[x] \in Int,
         NEW total, AddsUp(total, a, S)
  PROVE  \A T \in SUBSET S : /\ total[T] \in Int
                             /\ \A x \in T : total[T] = a[x] + total[T \ {x}]
<1> DEFINE Good(T) == total[T] \in Int /\ \A x \in T : total[T] = a[x] + total[T \ {x}]
           Bad == {T \in SUBSET S : ~Good(T)}
<1> SUFFICES ASSUME Bad # {} PROVE FALSE
  OBVIOUS
<1>1. PICK T \in Bad : \A U \in SUBSET T : U \in Bad => U = T
  <2>1. Bad \in SUBSET SUBSET S
    OBVIOUS
  <2> HIDE DEF Bad
  <2> QED
    BY <2>1, SmallestSet
<1>2. \A U \in SUBSET T : U # T => Good(U)
  BY <1>1
<1>3. ~Good(T) /\ T \in SUBSET S
  BY <1>1
<1>4. CASE T = {}
  BY <1>3, <1>4 DEF AddsUp
<1> HIDE DEF Good
<1>5. CASE T # {}
  <2>1. PICK y \in T : total[T] = a[y] + total[T \ {y}]
    BY <1>3, <1>5 DEF AddsUp
  <2>2. \A x \in T : a[x] \in Int /\ Good(T \ {x}) /\ (\A z \in T : Good((T \ {z}) \ {x}))
    BY <1>2, <1>3
  <2>3. ASSUME NEW x \in T, x # y PROVE total[T] = a[x] + total[T \ {x}]
    <3>1. total[T \ {y}] = a[x] + total[(T \ {y}) \ {x}]
      BY <2>2, <2>1, <2>3 DEF Good
    <3>2. total[T \ {x}] = a[y] + total[(T \ {y}) \ {x}]
      <4>1. PICK U : U = (T \ {y}) \ {x}
        OBVIOUS
      <4>2. U = (T \ {x}) \ {y} /\ y \in T \ {x}
        BY <2>1, <2>3, <4>1
      <4>3. total[T \ {x}] = a[y] + total[(T \ {x}) \ {y}]
        BY <2>2, <2>3, <4>2 DEF Good
      <4> QED
        BY <4>1, <4>2, <4>3
    <3>3. total[(T \ {y}) \ {x}] \in Int /\ a[x] \in Int /\ a[y] \in Int
      BY <2>2, <2>1, <2>3 DEF Good
    <3> QED
      BY <2>1, <3>1, <3>2, <3>3
  <2>4. total[T] \in Int
    <3>1. a[y] \in Int /\ total[T \ {y}] \in Int
      BY <2>2 DEF Good
    <3> QED
      BY <2>1, <3>1
  <2>5. Good(T)
    BY <2>1, <2>3, <2>4 DEF Good
  <2> QED
    BY <1>3, <2>5
<1> QED
  BY <1>4, <1>5

\* A sum of what is nowhere larger is not larger.
LEMMA SumsCompare ==
  ASSUME NEW S, IsFiniteSet(S), NEW a, NEW b,
         \A x \in S : a[x] \in Int /\ b[x] \in Int /\ a[x] <= b[x],
         NEW total, AddsUp(total, a, S), NEW other, AddsUp(other, b, S)
  PROVE  \A T \in SUBSET S : total[T] <= other[T]
<1> DEFINE Bad == {T \in SUBSET S : ~(total[T] <= other[T])}
<1> SUFFICES ASSUME Bad # {} PROVE FALSE
  OBVIOUS
<1>1. PICK T \in Bad : \A U \in SUBSET T : U \in Bad => U = T
  <2>1. Bad \in SUBSET SUBSET S
    OBVIOUS
  <2> HIDE DEF Bad
  <2> QED
    BY <2>1, SmallestSet
<1>2. T # {}
  <2>1. total[{}] <= other[{}]
    BY DEF AddsUp
  <2> QED
    BY <1>1, <2>1
<1>3. PICK x \in T : TRUE
  BY <1>2
<1>4. total[T \ {x}] <= other[T \ {x}]
  BY <1>1, <1>3
<1>5. /\ total[T] = a[x] + total[T \ {x}] /\ total[T \ {x}] \in Int
      /\ other[T] = b[x] + other[T \ {x}] /\ other[T \ {x}] \in Int
  <2>1. T \in SUBSET S /\ T \ {x} \in SUBSET S
    BY <1>1
  <2> HIDE DEF Bad
  <2>2. \A U \in SUBSET S : /\ total[U] \in Int
                            /\ \A y \in U : total[U] = a[y] + total[U \ {y}]
    <3>1. \A y \in S : a[y] \in Int
      OBVIOUS
    <3> QED
      BY <3>1, AnyOrder
  <2>3. \A U \in SUBSET S : /\ other[U] \in Int
                            /\ \A y \in U : other[U] = b[y] + other[U \ {y}]
    <3>1. \A y \in S : b[y] \in Int
      OBVIOUS
    <3> QED
      BY <3>1, AnyOrder
  <2> QED
    BY <2>1, <2>2, <2>3
<1>6. a[x] \in Int /\ b[x] \in Int /\ a[x] <= b[x]
  BY <1>1
<1>7. total[T] <= other[T]
  BY <1>4, <1>5, <1>6
<1> QED
  BY <1>1, <1>7

\* f computes sums as the folds do, c[T] being the first element of T; up to
\* sets of n elements, and all of them.
SumsUpTo(f, a, c, S, n) ==
  \A T \in SUBSET S : Cardinality(T) <= n =>
    /\ f[T] \in Int
    /\ f[T] = IF T = {} THEN 0 ELSE a[c[T]] + f[T \ {c[T]}]

Recursion(f, a, c, S) ==
  /\ f \in [SUBSET S -> Int]
  /\ \A T \in SUBSET S : f[T] = IF T = {} THEN 0 ELSE a[c[T]] + f[T \ {c[T]}]

\* The recursive function that a fold defines exists.
LEMMA SumExists ==
  ASSUME NEW S, IsFiniteSet(S), NEW a, \A x \in S : a[x] \in Int,
         NEW c, \A T \in SUBSET S : T # {} => c[T] \in T
  PROVE  \E f : Recursion(f, a, c, S)
<1> DEFINE N == Cardinality(S)
           F(n) == {f \in [SUBSET S -> Int] : SumsUpTo(f, a, c, S, n)}
           Bad == {n \in 0..N : F(n) = {}}
<1>1. \A T \in SUBSET S : IsFiniteSet(T) /\ Cardinality(T) \in Nat /\ Cardinality(T) <= N
  BY FS_Subset, FS_CardinalityType
<1>2. N \in Nat
  BY FS_CardinalityType
<1> HIDE DEF N
<1>3. Bad = {}
  <2> SUFFICES ASSUME Bad # {} PROVE FALSE
    OBVIOUS
  <2>1. PICK m \in Bad : \A n \in Bad : m <= n
    <3>1. Bad \subseteq Nat
      BY <1>2
    <3> HIDE DEF Bad
    <3> QED
      BY <3>1, LeastOfNats
  <2>2. CASE m = 0
    <3> DEFINE f == [T \in SUBSET S |-> 0]
    <3>1. \A T \in SUBSET S : Cardinality(T) <= 0 => T = {}
      BY <1>1, FS_EmptySet
    <3>2. f \in F(0)
      BY <3>1 DEF SumsUpTo
    <3> QED
      BY <2>1, <2>2, <3>2
  <2>3. CASE m # 0
    <3>1. m - 1 \in 0..N /\ m - 1 \notin Bad
      <4> HIDE DEF F
      <4> QED
        BY <1>2, <2>1, <2>3
    <3>2. PICK f : f \in F(m - 1)
      <4> HIDE DEF F
      <4> QED
        BY <3>1
    <3> DEFINE g == [T \in SUBSET S |->
                       IF T # {} /\ Cardinality(T) = m THEN a[c[T]] + f[T \ {c[T]}] ELSE f[T]]
    <3>3. \A T \in SUBSET S : T # {} =>
            /\ c[T] \in S /\ T \ {c[T]} \in SUBSET S
            /\ Cardinality(T \ {c[T]}) = Cardinality(T) - 1
      BY <1>1, FS_RemoveElement
    <3>4. f \in [SUBSET S -> Int] /\ SumsUpTo(f, a, c, S, m - 1)
      BY <3>2
    <3>5. g \in [SUBSET S -> Int]
      BY <3>3, <3>4
    <3>6. ASSUME NEW T \in SUBSET S, Cardinality(T) <= m
          PROVE  g[T] = IF T = {} THEN 0 ELSE a[c[T]] + g[T \ {c[T]}]
      <4>1. CASE T = {}
        <5>1. Cardinality(T) <= m - 1
          BY <1>2, <2>1, <2>3, <4>1, FS_EmptySet
        <5> QED
          BY <3>4, <4>1, <5>1 DEF SumsUpTo
      <4>2. CASE T # {}
        <5>1. Cardinality(T \ {c[T]}) # m /\ T \ {c[T]} \in SUBSET S
          BY <1>1, <1>2, <2>1, <3>3, <3>6, <4>2
        <5>2. g[T \ {c[T]}] = f[T \ {c[T]}]
          BY <5>1
        <5>3. CASE Cardinality(T) = m
          BY <4>2, <5>2, <5>3
        <5>4. CASE Cardinality(T) # m
          <6>1. Cardinality(T) <= m - 1
            BY <1>1, <1>2, <2>1, <3>6, <5>4
          <6>2. g[T] = f[T]
            BY <5>4
          <6> QED
            BY <3>4, <4>2, <5>2, <6>1, <6>2 DEF SumsUpTo
        <5> QED
          BY <5>3, <5>4
      <4> QED
        BY <4>1, <4>2
    <3>7. g \in F(m)
      <4> HIDE DEF g
      <4> QED
        BY <3>5, <3>6 DEF SumsUpTo
    <3> QED
      BY <2>1, <3>7
  <2> QED
    BY <2>2, <2>3
<1>4. PICK f : f \in F(N)
  <2> HIDE DEF F
  <2> QED
    BY <1>2, <1>3
<1>5. f \in [SUBSET S -> Int] /\ SumsUpTo(f, a, c, S, N)
  BY <1>4
<1>6. \A T \in SUBSET S : f[T] = IF T = {} THEN 0 ELSE a[c[T]] + f[T \ {c[T]}]
  BY <1>1, <1>5 DEF SumsUpTo
<1> QED
  BY <1>5, <1>6 DEF Recursion

\* The sum over S of the community modules.
LEMMA SumAddsUp ==
  ASSUME NEW S, IsFiniteSet(S), NEW a, \A x \in S : a[x] \in Int
  PROVE  \E total : AddsUp(total, a, S) /\ SumFunctionOnSet(a, S) = total[S]
<1> DEFINE First(T) == CHOOSE x \in T : TRUE
           Sums(f) == f = [T \in SUBSET S |-> IF T = {} THEN 0
                                             ELSE a[First(T)] + f[T \ {First(T)}]]
<1>1. PICK c : c = [T \in SUBSET S |-> First(T)]
  OBVIOUS
<1>2. \A T \in SUBSET S : c[T] = First(T) /\ (T # {} => c[T] \in T)
  BY <1>1
<1> HIDE DEF First
<1>3. PICK f : Recursion(f, a, c, S)
  BY <1>2, SumExists
<1>4. Sums(f)
  BY <1>2, <1>3 DEF Recursion
<1>5. PICK g : g = CHOOSE h : Sums(h)
  OBVIOUS
<1>6. SumFunctionOnSet(a, S) = g[S]
  BY <1>5 DEF SumFunctionOnSet, FoldFunctionOnSet, MapThenFoldSet, First
<1>7. Sums(g)
  <2> HIDE DEF Sums
  <2> QED
    BY <1>4, <1>5
<1>8. AddsUp(g, a, S)
  <2>1. \A T \in SUBSET S : g[T] = IF T = {} THEN 0 ELSE a[c[T]] + g[T \ {c[T]}]
    BY <1>2, <1>7
  <2>2. g[{}] = 0
    BY <2>1
  <2>3. \A T \in SUBSET S : T # {} => g[T] = a[c[T]] + g[T \ {c[T]}]
    BY <2>1
  <2> HIDE DEF Sums
  <2> QED
    BY <1>2, <2>2, <2>3 DEF AddsUp
<1> QED
  BY <1>6, <1>8

\* What a sum is made of.
LEMMA SumParts ==
  /\ \A a : SumFunctionOnSet(a, {}) = 0
  /\ \A S, a : IsFiniteSet(S) /\ (\A x \in S : a[x] \in Int) =>
       /\ SumFunctionOnSet(a, S) \in Int
       /\ \A x \in S : SumFunctionOnSet(a, S) = a[x] + SumFunctionOnSet(a, S \ {x})
<1>1. ASSUME NEW a PROVE SumFunctionOnSet(a, {}) = 0
  <2>1. PICK total : AddsUp(total, a, {}) /\ SumFunctionOnSet(a, {}) = total[{}]
    BY SumAddsUp, FS_EmptySet
  <2> QED
    BY <2>1 DEF AddsUp
<1>2. ASSUME NEW S, NEW a, IsFiniteSet(S), \A x \in S : a[x] \in Int
      PROVE  /\ SumFunctionOnSet(a, S) \in Int
             /\ \A x \in S : SumFunctionOnSet(a, S) = a[x] + SumFunctionOnSet(a, S \ {x})
  <2>1. PICK total : AddsUp(total, a, S) /\ SumFunctionOnSet(a, S) = total[S]
    BY <1>2, SumAddsUp
  <2>2. \A T \in SUBSET S : /\ total[T] \in Int
                            /\ \A x \in T : total[T] = a[x] + total[T \ {x}]
    BY <1>2, <2>1, AnyOrder
  <2>3. ASSUME NEW x \in S PROVE SumFunctionOnSet(a, S \ {x}) = total[S \ {x}]
    <3>1. PICK R : R = S \ {x}
      OBVIOUS
    <3>2. R \in SUBSET S /\ IsFiniteSet(R) /\ \A y \in R : a[y] \in Int
      BY <1>2, <3>1, FS_Subset
    <3>3. PICK other : AddsUp(other, a, R) /\ SumFunctionOnSet(a, R) = other[R]
      BY <3>2, SumAddsUp
    <3>4. AddsUp(total, a, R)
      BY <2>1, <3>2 DEF AddsUp
    <3>5. \A y \in R : a[y] <= a[y]
      BY <3>2
    <3>6. total[R] <= other[R]
      BY <3>2, <3>3, <3>4, <3>5, SumsCompare
    <3>7. other[R] <= total[R]
      BY <3>2, <3>3, <3>4, <3>5, SumsCompare
    <3>8. total[R] \in Int /\ other[R] \in Int
      <4>1. \A T \in SUBSET R : other[T] \in Int
        BY <3>2, <3>3, AnyOrder
      <4> QED
        BY <2>2, <3>2, <4>1
    <3> QED
      BY <3>1, <3>3, <3>6, <3>7, <3>8
  <2> QED
    BY <2>1, <2>2, <2>3
<1> QED
  BY <1>1, <1>2

\* Sums compare as what they sum does.
LEMMA SumsOrdered ==
  ASSUME NEW S, IsFiniteSet(S), NEW a, NEW b,
         \A x \in S : a[x] \in Int /\ b[x] \in Int /\ a[x] <= b[x]
  PROVE  SumFunctionOnSet(a, S) <= SumFunctionOnSet(b, S)
<1>1. PICK total : AddsUp(total, a, S) /\ SumFunctionOnSet(a, S) = total[S]
  BY SumAddsUp
<1>2. PICK other : AddsUp(other, b, S) /\ SumFunctionOnSet(b, S) = other[S]
  BY SumAddsUp
<1> QED
  BY <1>1, <1>2, SumsCompare

\* Equal summands, equal sums.
LEMMA SumsEqual ==
  ASSUME NEW S, IsFiniteSet(S), NEW a, NEW b, \A x \in S : a[x] \in Int /\ b[x] = a[x]
  PROVE  SumFunctionOnSet(a, S) = SumFunctionOnSet(b, S)
<1>1. SumFunctionOnSet(a, S) <= SumFunctionOnSet(b, S)
  BY SumsOrdered
<1>2. SumFunctionOnSet(b, S) <= SumFunctionOnSet(a, S)
  BY SumsOrdered
<1>3. SumFunctionOnSet(a, S) \in Int /\ SumFunctionOnSet(b, S) \in Int
  BY SumParts
<1> QED
  BY <1>1, <1>2, <1>3

\* Naturals sum up to no less over more of them.
LEMMA SumGrows ==
  ASSUME NEW S, IsFiniteSet(S), NEW a, \A x \in S : a[x] \in Nat, NEW A \in SUBSET S
  PROVE  SumFunctionOnSet(a, A) <= SumFunctionOnSet(a, S)
<1> DEFINE Sum(T) == SumFunctionOnSet(a, T)
           Bad == {T \in SUBSET S : ~(Sum(T \cap A) <= Sum(T))}
<1>1. \A T \in SUBSET S : IsFiniteSet(T) /\ \A x \in T : a[x] \in Int
  BY FS_Subset
<1>2. \A T \in SUBSET S : Sum(T) \in Int /\ \A x \in T : Sum(T) = a[x] + Sum(T \ {x})
  BY <1>1, SumParts
<1>3. Sum({}) = 0
  BY SumParts
<1> HIDE DEF Sum
<1>4. Bad = {}
  <2> SUFFICES ASSUME Bad # {} PROVE FALSE
    OBVIOUS
  <2>1. PICK T \in Bad : \A U \in SUBSET T : U \in Bad => U = T
    <3>1. Bad \in SUBSET SUBSET S
      OBVIOUS
    <3> HIDE DEF Bad
    <3> QED
      BY <3>1, SmallestSet
  <2>2. T # {}
    <3>1. Sum({} \cap A) <= Sum({})
      <4>1. {} \cap A = {}
        OBVIOUS
      <4> QED
        BY <1>3, <4>1
    <3> QED
      BY <2>1, <3>1
  <2>3. PICK x \in T : TRUE
    BY <2>2
  <2>4. PICK R : R = T \ {x}
    OBVIOUS
  <2>5. R \in SUBSET S /\ Sum(R \cap A) <= Sum(R) /\ a[x] \in Nat
    BY <2>1, <2>3, <2>4
  <2>6. Sum(T) = a[x] + Sum(R) /\ Sum(R) \in Int /\ Sum(R \cap A) \in Int
    BY <1>2, <2>1, <2>3, <2>4, <2>5
  <2>7. Sum(T \cap A) = Sum(R \cap A) \/ Sum(T \cap A) = a[x] + Sum(R \cap A)
    <3>1. CASE x \in A
      <4>1. (T \cap A) \ {x} = R \cap A /\ x \in T \cap A /\ T \cap A \in SUBSET S
        BY <2>1, <2>3, <2>4, <3>1
      <4> QED
        BY <1>2, <4>1
    <3>2. CASE x \notin A
      <4>1. T \cap A = R \cap A
        BY <2>4, <3>2
      <4> QED
        BY <4>1
    <3> QED
      BY <3>1, <3>2
  <2>8. Sum(T \cap A) <= Sum(T)
    BY <2>5, <2>6, <2>7
  <2> QED
    BY <2>1, <2>8
<1>5. S \cap A = A
  OBVIOUS
<1>6. S \notin Bad
  BY <1>4
<1>7. Sum(A) <= Sum(S)
  BY <1>5, <1>6
<1> QED
  BY <1>7 DEF Sum

\* Ones sum up to how many there are.
LEMMA SumOfOnes ==
  ASSUME NEW S, IsFiniteSet(S), NEW a, \A x \in S : a[x] = 1
  PROVE  SumFunctionOnSet(a, S) = Cardinality(S)
<1> DEFINE Bad == {T \in SUBSET S : SumFunctionOnSet(a, T) # Cardinality(T)}
<1>1. Bad = {}
  <2> SUFFICES ASSUME Bad # {} PROVE FALSE
    OBVIOUS
  <2>1. PICK T \in Bad : \A U \in SUBSET T : U \in Bad => U = T
    <3>1. Bad \in SUBSET SUBSET S
      OBVIOUS
    <3> HIDE DEF Bad
    <3> QED
      BY <3>1, SmallestSet
  <2>2. T # {}
    BY <2>1, SumParts, FS_EmptySet
  <2>3. PICK x \in T : TRUE
    BY <2>2
  <2>4. PICK R : R = T \ {x}
    OBVIOUS
  <2>5. R \in SUBSET S /\ SumFunctionOnSet(a, R) = Cardinality(R)
    BY <2>1, <2>3, <2>4
  <2>6. IsFiniteSet(T) /\ a[x] = 1 /\ \A y \in T : a[y] \in Int
    BY <2>1, <2>3, FS_Subset
  <2>7. SumFunctionOnSet(a, T) = 1 + Cardinality(R)
    BY <2>3, <2>4, <2>5, <2>6, SumParts
  <2>8. Cardinality(R) = Cardinality(T) - 1 /\ Cardinality(T) \in Nat
    BY <2>3, <2>4, <2>6, FS_RemoveElement, FS_CardinalityType
  <2> QED
    BY <2>1, <2>7, <2>8
<1>2. S \notin Bad
  BY <1>1
<1> QED
  BY <1>2

\* Zeros sum up to zero.
LEMMA SumOfNothing ==
  ASSUME NEW S, IsFiniteSet(S), NEW a, \A x \in S : a[x] = 0
  PROVE  SumFunctionOnSet(a, S) = 0
<1> DEFINE Bad == {T \in SUBSET S : SumFunctionOnSet(a, T) # 0}
<1>1. Bad = {}
  <2> SUFFICES ASSUME Bad # {} PROVE FALSE
    OBVIOUS
  <2>1. PICK T \in Bad : \A U \in SUBSET T : U \in Bad => U = T
    <3>1. Bad \in SUBSET SUBSET S
      OBVIOUS
    <3> HIDE DEF Bad
    <3> QED
      BY <3>1, SmallestSet
  <2>2. T # {}
    BY <2>1, SumParts
  <2>3. PICK x \in T : TRUE
    BY <2>2
  <2>4. PICK R : R = T \ {x}
    OBVIOUS
  <2>5. R \in SUBSET S /\ SumFunctionOnSet(a, R) = 0
    BY <2>1, <2>3, <2>4
  <2>6. IsFiniteSet(T) /\ a[x] = 0 /\ \A y \in T : a[y] \in Int
    BY <2>1, <2>3, FS_Subset
  <2>7. SumFunctionOnSet(a, T) = 0 + 0
    BY <2>3, <2>4, <2>5, <2>6, SumParts
  <2> QED
    BY <2>1, <2>7
<1>2. S \notin Bad
  BY <1>1
<1> QED
  BY <1>2

-------------------------------------------------------------------------------
\* Trades on their way to the statistics.

\* Thread q has yet to count the trade at i in field f.
WaitsAt(q, f, i) ==
  /\ tradeLog[i] \in Range(todo[q])
  /\ f \in left[q] \/ tradeLog[i] # Head(todo[q])

\* The trades that are counted in field f: neither is addOrder building the vector they
\* are in, nor are they to be counted.
CountedIn(f) ==
  {i \in DOMAIN tradeLog : ~BeingBuilt(i) /\ \A q \in Thread : ~WaitsAt(q, f, i)}

\* A trade is in the hands of one thread at most, once.
QueuesInv ==
  /\ \A q \in Thread : todo[q] # <<>> => pc[q] \in {"tallying", "counting"}
  /\ \A q \in Thread : Range(todo[q]) \subseteq Range(tradeLog) \ Range(trades)
  /\ \A p, q \in Thread : p # q => Range(todo[p]) \cap Range(todo[q]) = {}
  /\ \A q \in Thread : \A i, j \in DOMAIN todo[q] : todo[q][i] = todo[q][j] => i = j
  /\ \A q \in Thread : register[q] # <<>> => register[q][1] \in left[q]

\* The log may get longer; what is counted stays the same.
SameCounts ==
  /\ \A i \in DOMAIN tradeLog : i \in DOMAIN tradeLog' /\ tradeLog'[i] = tradeLog[i]
  /\ \A f \in Field : CountedIn(f)' = CountedIn(f)

\* Whoever has trades to count goes on to count them.
LEMMA OutsideKeepsCounting ==
  ASSUME QueuesInv, PlaceInv, NEW q \in Thread, OutsideBook(q),
         NEW p \in Thread, todo[p] # <<>>
  PROVE  pc'[p] \in {"tallying", "counting"}
<1>1. pc[p] \in {"tallying", "counting"}
  BY DEF QueuesInv
<1>2. CASE RunLoad(q) /\ q \in Request
  <2>1. p # q
    BY <1>1, <1>2 DEF RunLoad
  <2>2. p \in Worker => p[1] # q
    BY <1>1, <1>2, ThreadCases DEF RunLoad, PlaceInv, AtPlace
  <2>3. \A n : p \in {q} \X n => p[1] = q
    OBVIOUS
  <2>4. \A num_threads \in 0 .. MaxThreads : {q} \X (0 .. num_threads - 1) \subseteq Worker
    BY <1>2, LoadAssumption DEF Worker
  <2> QED
    BY <1>1, <1>2, <2>1, <2>2, <2>3, <2>4 DEF RunLoad
<1>3. CASE \E from, to : /\ Goto(q, from, to)
                         /\ \/ from \notin {"tallying", "counting"}
                            \/ to = "counting" \/ todo[q] = <<>>
  BY <1>1, <1>3 DEF PlaceInv, Goto
<1>4. CASE pc' = pc
  BY <1>1, <1>4
<1> QED
  BY <1>2, <1>3, <1>4
  DEF OutsideBook, LoadField, StoreField, RefuseOrder, StampOrder, DrawOrderId,
      AnswerOrder, RefuseLoad, AnswerLoad, CancelFound, CancelNotFound, Demo, Read, AnswerReport,
      ConstructOrder, StampConstructed, Tally, NextIndex

\* The steps that have to do with trades or statistics, and the others.
Counts(q) == Match(q) \/ LeaveBook(q) \/ LoadField(q) \/ StoreField(q)

\* The others leave trades, log and statistics alone.
LEMMA OthersDoNotCount ==
  ASSUME QueuesInv, ServerInv, BookInv, FlightInv, NEW q \in Thread, Step(q), ~Counts(q)
  PROVE  /\ UNCHANGED <<trades, tradeLog, statVars>>
         /\ \A p \in Thread : todo[p] # <<>> => pc'[p] \in {"tallying", "counting"}
<1>1. CASE EnterBook(q)
  <2>1. UNCHANGED <<trades, tradeLog, statVars>>
    BY <1>1, EnterBookEffect DEF EnterBook
  <2>2. pc[q] = "ready" /\ pc' = [pc EXCEPT ![q] = "matching"]
    BY <1>1, EnterBookEffect
  <2> QED
    BY <2>1, <2>2 DEF QueuesInv, ServerInv, PlaceInv
<1>2. CASE OutsideBook(q)
  <2>1. UNCHANGED <<trades, tradeLog>>
    BY <1>2, OutsideBookFrame
  <2>2. UNCHANGED statVars
    BY <1>2
    DEF OutsideBook, Counts, RefuseOrder, StampOrder, DrawOrderId,
        AnswerOrder, RefuseLoad, RunLoad, AnswerLoad, CancelFound, CancelNotFound, Demo, Read,
        AnswerReport, ConstructOrder, StampConstructed, Tally, NextIndex
  <2>3. \A p \in Thread : todo[p] # <<>> => pc'[p] \in {"tallying", "counting"}
    BY <1>2, OutsideKeepsCounting DEF ServerInv
  <2> QED
    BY <2>1, <2>2, <2>3
<1> QED
  BY <1>1, <1>2, BookCases DEF Counts

\* After such a step the same trades are counted and the same are waiting.
LEMMA SameQueues ==
  ASSUME QueuesInv, UNCHANGED <<trades, tradeLog, statVars>>,
         \A p \in Thread : todo[p] # <<>> => pc'[p] \in {"tallying", "counting"}
  PROVE  QueuesInv' /\ SameCounts
<1>1. QueuesInv'
  BY DEF QueuesInv, statVars
<1>2. SameCounts
  BY DEF SameCounts, CountedIn, BeingBuilt, WaitsAt, statVars
<1> QED
  BY <1>1, <1>2

\* What a turn of the loop appends to the log and the vector is new.
LEMMA MatchAppends ==
  ASSUME BookInv, BookInv', NEW q \in Thread, Match(q)
  PROVE  \E trade, n :
           /\ n = Len(tradeLog) /\ n \in Nat
           /\ DOMAIN tradeLog = 1 .. n /\ DOMAIN tradeLog' = 1 .. n + 1
           /\ \A i \in 1 .. n : tradeLog'[i] = tradeLog[i] /\ tradeLog[i] # trade
           /\ tradeLog'[n + 1] = trade
           /\ Range(trades') = Range(trades) \cup {trade}
           /\ Len(trades') = Len(trades) + 1 /\ Len(trades) \in Nat
<1>1. PICK trade : trades' = Append(trades, trade) /\ tradeLog' = Append(tradeLog, trade)
  BY MatchEffect
<1>2. trades \in Seq(Trade) /\ tradeLog \in Seq(Trade) /\ tradeLog' \in Seq(Trade)
  <2>1. LogTyped'
    BY LogIsTyped, PTL
  <2> QED
    BY <2>1, BookTypes DEF LogTyped
<1>3. PICK n \in Nat, m \in Nat : n = Len(tradeLog) /\ m = Len(trades)
  BY <1>2, LenProperties
<1>4. \A e, s : s \in Seq(Trade) =>
        /\ DOMAIN Append(s, e) = 1 .. Len(s) + 1 /\ Append(s, e)[Len(s) + 1] = e
        /\ Len(Append(s, e)) = Len(s) + 1
        /\ \A i \in 1 .. Len(s) : Append(s, e)[i] = s[i]
  OBVIOUS
<1>5. /\ DOMAIN tradeLog = 1 .. n /\ DOMAIN tradeLog' = 1 .. n + 1
      /\ tradeLog'[n + 1] = trade /\ \A i \in 1 .. n : tradeLog'[i] = tradeLog[i]
  BY <1>1, <1>2, <1>3, <1>4, LenProperties
<1>6. /\ DOMAIN trades = 1 .. m /\ DOMAIN trades' = 1 .. m + 1 /\ Len(trades') = m + 1
      /\ trades'[m + 1] = trade /\ \A i \in 1 .. m : trades'[i] = trades[i]
  BY <1>1, <1>2, <1>3, <1>4, LenProperties
<1>7. Range(trades') = Range(trades) \cup {trade}
  BY <1>6 DEF Range
<1>8. \A i \in 1 .. n : tradeLog[i] # trade
  <2>1. TradesApart'
    BY BookHasTradesApart, PTL
  <2> QED
    BY <1>5, <2>1 DEF TradesApart
<1> QED
  BY <1>3, <1>5, <1>6, <1>7, <1>8

\* A turn of the loop counts nothing: its trade is in the vector that is built.
LEMMA MatchQueues ==
  ASSUME QueuesInv, BookInv, BookInv', NEW q \in Thread, Match(q)
  PROVE  QueuesInv' /\ SameCounts
<1>1. UNCHANGED <<statVars, pc>>
  BY DEF Match
<1>2. PICK trade, n :
        /\ n \in Nat /\ DOMAIN tradeLog = 1 .. n /\ DOMAIN tradeLog' = 1 .. n + 1
        /\ \A i \in 1 .. n : tradeLog'[i] = tradeLog[i] /\ tradeLog[i] # trade
        /\ tradeLog'[n + 1] = trade
        /\ Range(trades') = Range(trades) \cup {trade}
  BY MatchAppends
<1>3. Range(tradeLog) \subseteq Range(tradeLog') /\ trade \notin Range(tradeLog)
  BY <1>2 DEF Range
<1>4. \A p \in Thread : trade \notin Range(todo[p])
  BY <1>3 DEF QueuesInv
<1>5. QueuesInv'
  BY <1>1, <1>2, <1>3, <1>4 DEF QueuesInv, statVars
<1>6. ASSUME NEW f \in Field PROVE CountedIn(f)' = CountedIn(f)
  <2>1. n + 1 \notin CountedIn(f)'
    BY <1>2 DEF CountedIn, BeingBuilt
  <2>2. ASSUME NEW i \in 1 .. n PROVE i \in CountedIn(f)' <=> i \in CountedIn(f)
    <3>1. i \in DOMAIN tradeLog /\ i \in DOMAIN tradeLog'
      BY <1>2
    <3>2. BeingBuilt(i)' <=> BeingBuilt(i)
      BY <1>2 DEF BeingBuilt
    <3>3. \A p \in Thread : WaitsAt(p, f, i)' <=> WaitsAt(p, f, i)
      BY <1>1, <1>2 DEF WaitsAt, statVars
    <3> QED
      BY <3>1, <3>2, <3>3 DEF CountedIn
  <2>3. CountedIn(f) \subseteq 1 .. n /\ CountedIn(f)' \subseteq 1 .. n + 1
    BY <1>2 DEF CountedIn
  <2>4. \A i \in 1 .. n + 1 : i \in 1 .. n \/ i = n + 1
    BY <1>2
  <2> QED
    BY <2>1, <2>2, <2>3, <2>4
<1>7. SameCounts
  BY <1>2, <1>6 DEF SameCounts
<1> QED
  BY <1>5, <1>7

\* The vector has no trade twice.
LEMMA BuiltOnce ==
  ASSUME BookInv, incoming # NoOrder
  PROVE  \A i, j \in DOMAIN trades : trades[i] = trades[j] => i = j
<1>1. Engine!ReturnsItsTrades /\ TradesApart
  BY BookHasTradesApart DEF BookInv, Engine!AInv
<1>2. /\ DOMAIN trades = 1 .. Len(trades) /\ DOMAIN tradeLog = 1 .. Len(tradeLog)
      /\ Len(trades) \in Nat /\ Len(tradeLog) \in Nat
  BY BookTypes, LenProperties
<1> DEFINE before == Len(tradeLog) - Len(trades)
<1>3. before >= 0 /\ \A i \in DOMAIN trades : trades[i] = tradeLog[before + i]
  BY <1>1 DEF Engine!ReturnsItsTrades
<1>4. \A i \in DOMAIN trades : before + i \in DOMAIN tradeLog
  BY <1>2, <1>3
<1>5. before \in Int /\ DOMAIN trades \subseteq Int
  BY <1>2
<1> HIDE DEF before
<1> QED
  BY <1>1, <1>3, <1>4, <1>5 DEF TradesApart

\* What was being built is now to be counted, by the thread it is returned to.
LEMMA LeaveBookQueues ==
  ASSUME QueuesInv, ServerInv, BookInv, FlightInv, NEW q \in Thread, LeaveBook(q)
  PROVE  QueuesInv' /\ SameCounts
<1> USE DEF ServerInv
<1>1. /\ todo' = [todo EXCEPT ![q] = trades] /\ left' = [left EXCEPT ![q] = Field]
      /\ UNCHANGED <<register, stats, raced>>
  BY DEF LeaveBook
<1>2. /\ incoming # NoOrder /\ trades' = <<>> /\ tradeLog' = tradeLog
      /\ pc[q] = "matching" /\ pc'[q] \in {"tallying", "counting"}
      /\ \A p \in Thread \ {q} : pc'[p] = pc[p]
  BY LeaveBookEffect
<1>3. todo[q] = <<>> /\ register[q] = <<>>
  BY <1>2 DEF QueuesInv, HandInv, Counting
<1>4. /\ todo'[q] = trades /\ \A p \in Thread \ {q} : todo'[p] = todo[p]
      /\ left'[q] = Field /\ \A p \in Thread \ {q} : left'[p] = left[p]
  BY <1>1 DEF HandInv
<1>5. Range(todo[q]) = {} /\ Range(trades') = {}
  BY <1>2, <1>3 DEF Range
<1>6. Range(trades) \subseteq Range(tradeLog)
  BY BuiltFromLog
<1>7. QueuesInv'
  <2>1. \A i, j \in DOMAIN trades : trades[i] = trades[j] => i = j
    BY <1>2, BuiltOnce
  <2>2. \A p \in Thread : Range(todo'[p]) \subseteq Range(tradeLog') \ Range(trades')
    BY <1>2, <1>4, <1>5, <1>6 DEF QueuesInv
  <2>3. \A p, r \in Thread : p # r => Range(todo'[p]) \cap Range(todo'[r]) = {}
    BY <1>4 DEF QueuesInv
  <2>4. \A p \in Thread : \A i, j \in DOMAIN todo'[p] : todo'[p][i] = todo'[p][j] => i = j
    BY <1>4, <2>1 DEF QueuesInv
  <2>5. \A p \in Thread : todo'[p] # <<>> => pc'[p] \in {"tallying", "counting"}
    BY <1>2, <1>4 DEF QueuesInv
  <2>6. \A p \in Thread : register'[p] # <<>> => register'[p][1] \in left'[p]
    BY <1>1, <1>3, <1>4 DEF QueuesInv
  <2> QED
    BY <2>2, <2>3, <2>4, <2>5, <2>6 DEF QueuesInv
<1>8. ASSUME NEW f \in Field, NEW i \in DOMAIN tradeLog
      PROVE  i \in CountedIn(f)' <=> i \in CountedIn(f)
  <2>1. ~BeingBuilt(i)' /\ ~WaitsAt(q, f, i)
    BY <1>5 DEF BeingBuilt, WaitsAt
  <2>2. WaitsAt(q, f, i)' <=> BeingBuilt(i)
    BY <1>2, <1>4 DEF WaitsAt, BeingBuilt
  <2>3. \A p \in Thread \ {q} : WaitsAt(p, f, i)' <=> WaitsAt(p, f, i)
    BY <1>2, <1>4 DEF WaitsAt
  <2> QED
    BY <1>2, <2>1, <2>2, <2>3 DEF CountedIn
<1>9. SameCounts
  BY <1>2, <1>8 DEF SameCounts, CountedIn
<1> QED
  BY <1>7, <1>9

\* Loading a field counts nothing.
LEMMA LoadFieldQueues ==
  ASSUME QueuesInv, ServerInv, NEW q \in Thread, LoadField(q)
  PROVE  QueuesInv' /\ SameCounts
<1>1. /\ UNCHANGED <<trades, tradeLog, todo, left, pc>>
      /\ \E f \in left[q] : register' = [register EXCEPT ![q] = <<f, stats[f]>>]
  BY DEF LoadField, bookVars
<1>2. \A p \in Thread : register'[p] # <<>> => register'[p][1] \in left[p]
  BY <1>1 DEF QueuesInv, ServerInv, HandInv
<1>3. QueuesInv'
  BY <1>1, <1>2 DEF QueuesInv
<1>4. SameCounts
  BY <1>1 DEF SameCounts, CountedIn, BeingBuilt, WaitsAt
<1> QED
  BY <1>3, <1>4

\* Head and tail of a queue that has nothing twice.
LEMMA HeadTaken ==
  ASSUME NEW S, NEW s \in Seq(S), s # <<>>, \A i, j \in DOMAIN s : s[i] = s[j] => i = j
  PROVE  /\ Head(s) \in Range(s) /\ Head(s) \in S
         /\ Range(Tail(s)) = Range(s) \ {Head(s)}
         /\ \A i, j \in DOMAIN Tail(s) : Tail(s)[i] = Tail(s)[j] => i = j
<1>1. PICK n \in Nat : n = Len(s) /\ DOMAIN s = 1 .. n /\ n # 0
  BY LenProperties, EmptySeq
<1>2. /\ Head(s) = s[1] /\ Tail(s) \in Seq(S) /\ Len(Tail(s)) = n - 1
      /\ \A i \in 1 .. n - 1 : Tail(s)[i] = s[i + 1]
  BY <1>1, HeadTailProperties
<1>3. DOMAIN Tail(s) = 1 .. n - 1
  BY <1>1, <1>2, LenProperties
<1>4. s[1] \in S
  BY <1>1, ElementOfSeq
<1>5. \A i \in 2 .. n : s[i] # s[1] /\ s[i] = Tail(s)[i - 1] /\ i - 1 \in 1 .. n - 1
  BY <1>1, <1>2
<1>6. \A i \in 1 .. n - 1 : i + 1 \in 2 .. n /\ i + 1 \in 1 .. n
  BY <1>1
<1>7. \A i \in 1 .. n : i = 1 \/ i \in 2 .. n
  BY <1>1
<1>8. Range(Tail(s)) = Range(s) \ {s[1]}
  <2>1. ASSUME NEW i \in 1 .. n - 1 PROVE Tail(s)[i] \in Range(s) \ {s[1]}
    <3>1. i + 1 \in 2 .. n /\ i + 1 \in DOMAIN s /\ Tail(s)[i] = s[i + 1]
      BY <1>1, <1>2, <1>6
    <3> QED
      BY <1>5, <3>1 DEF Range
  <2>2. ASSUME NEW i \in 1 .. n, s[i] # s[1] PROVE s[i] \in Range(Tail(s))
    <3>1. i \in 2 .. n
      BY <1>7, <2>2
    <3> QED
      BY <1>3, <1>5, <3>1 DEF Range
  <2>3. ASSUME NEW x \in Range(Tail(s)) PROVE x \in Range(s) \ {s[1]}
    <3>1. PICK i \in 1 .. n - 1 : x = Tail(s)[i]
      BY <1>3 DEF Range
    <3> QED
      BY <2>1, <3>1
  <2>4. ASSUME NEW x \in Range(s) \ {s[1]} PROVE x \in Range(Tail(s))
    <3>1. PICK i \in 1 .. n : x = s[i]
      BY <1>1 DEF Range
    <3> QED
      BY <2>2, <3>1
  <2> QED
    BY <2>3, <2>4
<1>9. s[1] \in Range(s)
  BY <1>1 DEF Range
<1>10. \A i, j \in 1 .. n - 1 : Tail(s)[i] = Tail(s)[j] => i = j
  <2>1. \A i, j \in 1 .. n - 1 : s[i + 1] = s[j + 1] => i + 1 = j + 1
    BY <1>1, <1>6
  <2> QED
    BY <1>1, <1>2, <2>1
<1> QED
  BY <1>2, <1>3, <1>4, <1>8, <1>9, <1>10

\* The trade that thread q is at.
AtHand(q, i) ==
  /\ i \in DOMAIN tradeLog /\ tradeLog[i] = Head(todo[q]) /\ Head(todo[q]) \in Trade

\* A store counts a trade in its field that was not counted in it before.
CountsOne(q, f, i) ==
  /\ AtHand(q, i) /\ tradeLog' = tradeLog
  /\ i \notin CountedIn(f) /\ CountedIn(f)' = CountedIn(f) \cup {i}
  /\ \A g \in Field \ {f} : CountedIn(g)' = CountedIn(g)

\* Storing a field counts one trade, in that field alone.
LEMMA StoreFieldQueues ==
  ASSUME QueuesInv, ServerInv, BookInv, NEW q \in Thread, StoreField(q)
  PROVE  /\ register[q] # <<>> /\ register[q][1] \in Field /\ register[q][2] \in Int
         /\ QueuesInv'
         /\ \E f, i : f = register[q][1] /\ CountsOne(q, f, i)
<1> USE DEF ServerInv, HandInv
<1>0. PICK f, t : f = register[q][1] /\ t = Head(todo[q])
  OBVIOUS
<1>1. /\ register[q] # <<>> /\ Counting(q) /\ f \in Field /\ f \in left[q]
      /\ register[q][2] \in Int
      /\ todo[q] \in Seq(Trade) /\ todo[q] # <<>> /\ left[q] \subseteq Field
  BY <1>0 DEF StoreField, Counting, QueuesInv
<1>2. \A i, j \in DOMAIN todo[q] : todo[q][i] = todo[q][j] => i = j
  BY DEF QueuesInv
<1>3. /\ t \in Range(todo[q]) /\ t \in Trade
      /\ Range(Tail(todo[q])) = Range(todo[q]) \ {t}
      /\ \A i, j \in DOMAIN Tail(todo[q]) : Tail(todo[q])[i] = Tail(todo[q])[j] => i = j
  BY <1>0, <1>1, <1>2, HeadTaken
<1>4. /\ UNCHANGED <<trades, tradeLog, pc>>
      /\ register' = [register EXCEPT ![q] = <<>>]
      /\ \/ /\ left[q] = {f} /\ left' = [left EXCEPT ![q] = Field]
            /\ todo' = [todo EXCEPT ![q] = Tail(@)]
         \/ /\ left[q] # {f} /\ left' = [left EXCEPT ![q] = @ \ {f}]
            /\ todo' = todo
  BY <1>0 DEF StoreField, bookVars
<1>5. \A p \in Thread \ {q} : /\ todo'[p] = todo[p] /\ left'[p] = left[p]
                              /\ register'[p] = register[p]
  BY <1>4
<1>6. register'[q] = <<>>
  BY <1>4
<1>7. \/ left[q] = {f} /\ left'[q] = Field /\ todo'[q] = Tail(todo[q])
      \/ left[q] # {f} /\ left'[q] = left[q] \ {f} /\ todo'[q] = todo[q]
  BY <1>4
<1> HIDE DEF ServerInv, HandInv
<1>8. Range(todo'[q]) \subseteq Range(todo[q])
  BY <1>3, <1>7
<1>9. QueuesInv'
  <2>1. \A p \in Thread : todo'[p] # <<>> => pc'[p] \in {"tallying", "counting"}
    BY <1>1, <1>4, <1>5 DEF QueuesInv
  <2>2. \A p \in Thread : Range(todo'[p]) \subseteq Range(tradeLog') \ Range(trades')
    BY <1>4, <1>5, <1>8 DEF QueuesInv
  <2>3. \A p, r \in Thread : p # r => Range(todo'[p]) \cap Range(todo'[r]) = {}
    <3>1. \A p, r \in Thread : p # r => Range(todo[p]) \cap Range(todo[r]) = {}
      BY DEF QueuesInv
    <3>2. \A p \in Thread : Range(todo'[p]) \subseteq Range(todo[p])
      BY <1>5, <1>8
    <3> QED
      BY <3>1, <3>2
  <2>4. \A p \in Thread : \A i, j \in DOMAIN todo'[p] : todo'[p][i] = todo'[p][j] => i = j
    <3>1. \A i, j \in DOMAIN todo'[q] : todo'[q][i] = todo'[q][j] => i = j
      BY <1>2, <1>3, <1>7
    <3> QED
      BY <1>5, <3>1 DEF QueuesInv
  <2>5. \A p \in Thread : register'[p] # <<>> => register'[p][1] \in left'[p]
    BY <1>5, <1>6 DEF QueuesInv
  <2> QED
    BY <2>1, <2>2, <2>3, <2>4, <2>5 DEF QueuesInv
<1>10. PICK i \in DOMAIN tradeLog : tradeLog[i] = t
  <2>1. t \in Range(tradeLog)
    BY <1>3 DEF QueuesInv
  <2> QED
    BY <2>1 DEF Range
<1>11. \A j \in DOMAIN tradeLog : j # i => tradeLog[j] # t
  BY <1>10, BookHasTradesApart DEF TradesApart
<1>12. ~BeingBuilt(i) /\ \A p \in Thread \ {q} : tradeLog[i] \notin Range(todo[p])
  BY <1>3, <1>10 DEF QueuesInv, BeingBuilt
<1>13. \A j, g : /\ BeingBuilt(j)' = BeingBuilt(j)
                 /\ \A p \in Thread \ {q} : WaitsAt(p, g, j)' = WaitsAt(p, g, j)
  BY <1>4, <1>5 DEF BeingBuilt, WaitsAt
<1>14. ASSUME NEW g \in Field, NEW j \in DOMAIN tradeLog
       PROVE  WaitsAt(q, g, j)' <=> WaitsAt(q, g, j) /\ ~(g = f /\ tradeLog[j] = t)
  BY <1>0, <1>1, <1>3, <1>4, <1>7 DEF WaitsAt
<1>15. WaitsAt(q, f, i)
  BY <1>1, <1>3, <1>10 DEF WaitsAt
<1>16. CountedIn(f)' = CountedIn(f) \cup {i} /\ i \notin CountedIn(f)
  <2>1. i \in CountedIn(f)'
    BY <1>1, <1>4, <1>10, <1>12, <1>13, <1>14 DEF CountedIn, WaitsAt
  <2>2. \A j \in DOMAIN tradeLog : j # i => (j \in CountedIn(f)' <=> j \in CountedIn(f))
    BY <1>1, <1>4, <1>11, <1>13, <1>14 DEF CountedIn
  <2> QED
    BY <1>4, <1>15, <2>1, <2>2 DEF CountedIn
<1>17. ASSUME NEW g \in Field \ {f} PROVE CountedIn(g)' = CountedIn(g)
  <2>1. \A j \in DOMAIN tradeLog : j \in CountedIn(g)' <=> j \in CountedIn(g)
    BY <1>4, <1>13, <1>14 DEF CountedIn
  <2> QED
    BY <1>4, <2>1 DEF CountedIn
<1>18. CountsOne(q, f, i)
  BY <1>0, <1>3, <1>4, <1>10, <1>16, <1>17 DEF CountsOne, AtHand
<1> QED
  BY <1>0, <1>1, <1>9, <1>18

\* QueuesInv is inductive, on top of the invariants of the server and the book.
LEMMA NextQueues ==
  QueuesInv /\ ServerInv /\ FlightInv /\ BookInv /\ BookInv' /\ [Next]_vars => QueuesInv'
<1> SUFFICES ASSUME QueuesInv, ServerInv, FlightInv, BookInv, BookInv', [Next]_vars
             PROVE  QueuesInv'
  OBVIOUS
<1>1. CASE UNCHANGED vars
  BY <1>1, SameQueues DEF vars, bookVars, QueuesInv
<1>2. ASSUME NEW q \in Thread, Step(q) PROVE QueuesInv'
  <2>1. CASE Counts(q)
    BY <2>1, MatchQueues, LeaveBookQueues, LoadFieldQueues, StoreFieldQueues DEF Counts
  <2>2. CASE ~Counts(q)
    BY <1>2, <2>2, OthersDoNotCount, SameQueues
  <2> QED
    BY <2>1, <2>2
<1> QED
  BY <1>1, <1>2 DEF Next, Quiet

\* At first there is nothing to count.
LEMMA InitQueues == Init => QueuesInv
BY DEF Init, Book!Init, QueuesInv, Range

\* No trade is to be counted by two threads, or twice by one, and what is to
\* be counted has been executed.
THEOREM QueuesInvariance == Spec => []QueuesInv
BY InitQueues, NextQueues, ServerInvariance, FlightInvariance, BookInvariance, PTL DEF Spec

-------------------------------------------------------------------------------
\* What the fields of the statistics are worth.

Summed == {"total_trades", "total_volume", "total_value"}

\* What a trade adds to a field.
Amount(f, trade) ==
  CASE f = "total_trades" -> 1
    [] f = "total_volume" -> trade.quantity
    [] OTHER              -> trade.price * trade.quantity

Amounts(f) == [i \in DOMAIN tradeLog |-> Amount(f, tradeLog[i])]

\* The sum of what is counted, and the prices that have been seen.
Total(f)  == SumFunctionOnSet(Amounts(f), CountedIn(f))
Prices(f) == {tradeLog[i].price : i \in CountedIn(f)} \cup {Blank(f)}

\* A value of a field that no trade but those counted has gone into.
Justified(f, v) ==
  IF f \in Summed THEN v >= -(IntMax + 1) /\ v <= Total(f) ELSE v \in Prices(f)

\* The value of a field that all trades counted have gone into.
ExactNow(f) ==
  /\ f \in Summed    => stats[f] = Counted(f, Total(f))
  /\ f = "min_price" => \A v \in Prices(f) : stats[f] <= v
  /\ f = "max_price" => \A v \in Prices(f) : stats[f] >= v

\* The statistics, and what threads have loaded of them, hold nothing that was
\* not counted; they hold all of it in fields that no two threads had loaded
\* at once.
ValuesInv ==
  /\ \A f \in Field : Justified(f, stats[f])
  /\ \A q \in Thread : register[q] # <<>> => Justified(register[q][1], register[q][2])
  /\ \A f \in Field \ raced : ExactNow(f)
  /\ \A q \in Thread : register[q] # <<>> /\ register[q][1] \notin raced =>
       register[q][2] = stats[register[q][1]]
  /\ \A p, q \in Thread :
       p # q /\ register[p] # <<>> /\ register[q] # <<>> /\ register[p][1] = register[q][1] =>
         register[p][1] \in raced

\* A field is a sum or an extremum.
LEMMA FieldCases == \A f \in Field : f \in Summed \/ f = "min_price" \/ f = "max_price"
BY FieldAssumption DEF Summed

\* The log is finite, and so is what is counted of it.
LEMMA CountedFinite ==
  ASSUME LogTyped
  PROVE  /\ IsFiniteSet(DOMAIN tradeLog) /\ DOMAIN tradeLog = 1 .. Len(tradeLog)
         /\ Len(tradeLog) \in Nat
         /\ \A i \in DOMAIN tradeLog : tradeLog[i] \in Trade
         /\ \A f : CountedIn(f) \subseteq DOMAIN tradeLog /\ IsFiniteSet(CountedIn(f))
<1>1. /\ DOMAIN tradeLog = 1 .. Len(tradeLog) /\ Len(tradeLog) \in Nat
      /\ \A i \in DOMAIN tradeLog : tradeLog[i] \in Trade
  BY LenProperties, ElementOfSeq DEF LogTyped
<1>2. IsFiniteSet(DOMAIN tradeLog)
  BY <1>1, FS_Interval
<1>3. \A f : CountedIn(f) \subseteq DOMAIN tradeLog
  BY DEF CountedIn
<1> QED
  BY <1>1, <1>2, <1>3, FS_Subset

\* Amounts and their sums are naturals.
LEMMA AmountTypes ==
  ASSUME LogTyped, NEW f
  PROVE  /\ \A trade \in Trade : /\ trade.price \in Nat /\ trade.quantity \in Nat
                                 /\ Amount(f, trade) \in Nat
         /\ \A i \in DOMAIN tradeLog :
              Amounts(f)[i] \in Nat /\ Amounts(f)[i] = Amount(f, tradeLog[i])
         /\ Total(f) \in Nat
<1>1. ASSUME NEW trade \in Trade
      PROVE  /\ trade.price \in Nat /\ trade.quantity \in Nat
             /\ Amount(f, trade) \in Nat
  <2>1. trade.price \in Nat /\ trade.quantity \in Nat
    BY DEF Trade
  <2>2. trade.price * trade.quantity \in Nat
    BY <2>1
  <2> QED
    BY <2>1, <2>2 DEF Amount
<1>2. \A i \in DOMAIN tradeLog : Amounts(f)[i] \in Nat /\ Amounts(f)[i] = Amount(f, tradeLog[i])
  BY <1>1, CountedFinite DEF Amounts
<1>3. PICK S, a : S = CountedIn(f) /\ a = Amounts(f)
  OBVIOUS
<1>4. IsFiniteSet(S) /\ \A i \in S : a[i] \in Nat
  BY <1>2, <1>3, CountedFinite
<1>5. SumFunctionOnSet(a, S) \in Int
  BY <1>4, SumParts
<1>6. SumFunctionOnSet(a, {}) <= SumFunctionOnSet(a, S) /\ SumFunctionOnSet(a, {}) = 0
  BY <1>4, SumGrows, SumParts
<1>7. Total(f) \in Nat
  BY <1>3, <1>5, <1>6 DEF Total
<1> QED
  BY <1>1, <1>2, <1>7

\* What is counted worth the same, while the log only gets longer.
LEMMA SameTotals ==
  ASSUME LogTyped, LogTyped', NEW f \in Field, CountedIn(f)' = CountedIn(f),
         \A i \in DOMAIN tradeLog : i \in DOMAIN tradeLog' /\ tradeLog'[i] = tradeLog[i]
  PROVE  Total(f)' = Total(f) /\ Prices(f)' = Prices(f)
<1>1. PICK S, a, b : S = CountedIn(f) /\ a = Amounts(f) /\ b = Amounts(f)'
  OBVIOUS
<1>2. IsFiniteSet(S) /\ S \subseteq DOMAIN tradeLog
  BY <1>1, CountedFinite
<1>3. \A i \in S : a[i] \in Int /\ b[i] = a[i]
  BY <1>1, <1>2, AmountTypes DEF Amounts
<1>4. SumFunctionOnSet(a, S) = SumFunctionOnSet(b, S)
  BY <1>2, <1>3, SumsEqual
<1>5. Total(f)' = SumFunctionOnSet(b, S) /\ Total(f) = SumFunctionOnSet(a, S)
  BY <1>1 DEF Total
<1>6. Prices(f)' = Prices(f)
  BY <1>1, <1>2 DEF Prices, Blank
<1> QED
  BY <1>4, <1>5, <1>6

\* One trade more is counted.
LEMMA OneMore ==
  ASSUME LogTyped, NEW q, NEW f \in Field, NEW i, CountsOne(q, f, i)
  PROVE  /\ i \in DOMAIN tradeLog /\ tradeLog[i] = Head(todo[q]) /\ Head(todo[q]) \in Trade
         /\ Total(f)' = Total(f) + Amount(f, Head(todo[q]))
         /\ Prices(f)' = Prices(f) \cup {Head(todo[q]).price}
         /\ \A g \in Field \ {f} : Total(g)' = Total(g) /\ Prices(g)' = Prices(g)
<1>1. /\ i \in DOMAIN tradeLog /\ tradeLog[i] = Head(todo[q]) /\ Head(todo[q]) \in Trade
      /\ tradeLog' = tradeLog
      /\ i \notin CountedIn(f) /\ CountedIn(f)' = CountedIn(f) \cup {i}
      /\ \A g \in Field \ {f} : CountedIn(g)' = CountedIn(g)
  BY DEF CountsOne, AtHand
<1>2. \A g : Amounts(g)' = Amounts(g)
  BY <1>1 DEF Amounts
<1>3. PICK S, T, a : S = CountedIn(f) /\ T = S \cup {i} /\ a = Amounts(f)
  OBVIOUS
<1>4. IsFiniteSet(T) /\ \A j \in T : a[j] \in Int
  <2>1. T \subseteq DOMAIN tradeLog
    BY <1>1, <1>3, CountedFinite
  <2> QED
    BY <1>3, <2>1, CountedFinite, FS_Subset, AmountTypes
<1>5. SumFunctionOnSet(a, T) = a[i] + SumFunctionOnSet(a, T \ {i}) /\ T \ {i} = S
  BY <1>1, <1>3, <1>4, SumParts
<1>6. Total(f)' = SumFunctionOnSet(a, T) /\ Total(f) = SumFunctionOnSet(a, S)
  BY <1>1, <1>2, <1>3 DEF Total
<1>7. a[i] = Amount(f, Head(todo[q])) /\ a[i] \in Nat /\ Total(f) \in Nat
  BY <1>1, <1>3, AmountTypes
<1>8. Total(f)' = Total(f) + Amount(f, Head(todo[q]))
  <2>1. PICK x, y : x = SumFunctionOnSet(a, S) /\ y = a[i]
    OBVIOUS
  <2>2. x \in Int /\ y \in Int
    BY <1>6, <1>7, <2>1
  <2>3. Total(f)' = y + x /\ Total(f) = x /\ Amount(f, Head(todo[q])) = y
    BY <1>5, <1>6, <1>7, <2>1
  <2> QED
    BY <2>2, <2>3
<1>10. Prices(f)' = Prices(f) \cup {Head(todo[q]).price}
  BY <1>1 DEF Prices, Blank
<1>9. \A g \in Field \ {f} : Total(g)' = Total(g) /\ Prices(g)' = Prices(g)
  BY <1>1, <1>2 DEF Total, Prices, Blank
<1> QED
  BY <1>1, <1>8, <1>9, <1>10

\* A remainder of a sum in which a remainder stands for a summand.
LEMMA ModSum ==
  ASSUME NEW n \in Nat \ {0}, NEW a \in Nat, NEW b \in Nat
  PROVE  ((a % n) + b) % n = (a + b) % n
<1>1. PICK x \in Nat, r \in 0 .. n - 1 : a = n * x + r /\ r = a % n
  BY Quotient, ModRange
<1>2. PICK c \in Nat, d \in Nat : c = r + b /\ d = a + b
  BY <1>1
<1>3. PICK y \in Nat, s \in 0 .. n - 1 : c = n * y + s /\ s = c % n
  BY Quotient, ModRange
<1>4. PICK z \in Nat, t \in 0 .. n - 1 : d = n * z + t /\ t = d % n
  BY Quotient, ModRange
<1>5. PICK k \in Int : k = z - y - x
  OBVIOUS
<1>6. s - t = n * k
  BY <1>1, <1>2, <1>3, <1>4, <1>5
<1>7. CASE k >= 1
  <2>1. n * k >= n
    BY <1>7
  <2> QED
    BY <1>3, <1>4, <1>6, <2>1
<1>8. CASE k <= -1
  <2>1. n * k <= -n
    BY <1>8
  <2> QED
    BY <1>3, <1>4, <1>6, <2>1
<1>9. CASE k = 0
  <2>1. s = t
    BY <1>3, <1>4, <1>6, <1>9
  <2>2. c = (a % n) + b
    BY <1>1, <1>2
  <2> QED
    BY <1>2, <1>3, <1>4, <2>1, <2>2
<1> QED
  BY <1>7, <1>8, <1>9

\* What the width of a field makes of a value that is not below it: never more;
\* and it may be cut to the width on the way.
LEMMA WrappedRange ==
  ASSUME NEW n \in Int, n >= -(IntMax + 1)
  PROVE  Wrapped(n) >= -(IntMax + 1) /\ Wrapped(n) <= n /\ Wrapped(n) \in Int
<1>1. PICK w \in Nat \ {0}, a \in Nat : w = 2 * (IntMax + 1) /\ a = n + IntMax + 1
  BY LoadAssumption
<1>2. a % w \in Nat /\ a % w <= a
  BY <1>1, ModRange
<1>3. Wrapped(n) = (a % w) - (IntMax + 1)
  BY <1>1 DEF Wrapped
<1>4. PICK r \in Nat : r = a % w
  BY <1>2
<1> QED
  BY <1>1, <1>2, <1>3, <1>4, LoadAssumption

\* A count that wraps at every addition is the wrapped exact count.
LEMMA WrappedSum ==
  ASSUME NEW n \in Nat, NEW b \in Nat
  PROVE  Wrapped(Wrapped(n) + b) = Wrapped(n + b)
<1>1. PICK w, h \in Nat : w \in Nat \ {0} /\ w = 2 * (IntMax + 1) /\ h = IntMax + 1
  BY LoadAssumption
<1>2. PICK a \in Nat : a = n + h
  BY <1>1
<1>3. PICK r \in Nat : r = a % w
  <2>1. a % w \in 0 .. w - 1
    BY <1>1, ModRange
  <2> QED
    BY <2>1
<1>4. Wrapped(n) = r - h /\ IntMax \in Nat
  <2>1. n + IntMax + 1 = a /\ IntMax \in Nat
    BY <1>1, <1>2, LoadAssumption
  <2>2. Wrapped(n) = (a % w) - (IntMax + 1)
    BY <1>1, <2>1 DEF Wrapped
  <2> QED
    BY <1>1, <1>3, <2>1, <2>2
<1>5. Wrapped(n) + b + IntMax + 1 = r + b /\ n + b + IntMax + 1 = a + b
  BY <1>1, <1>2, <1>4
<1>6. (r + b) % w = (a + b) % w
  BY <1>1, <1>2, <1>3, ModSum
<1> QED
  BY <1>1, <1>5, <1>6 DEF Wrapped

\* A step after which as much is counted and as much loaded.
LEMMA SameValues ==
  ASSUME ValuesInv, LogTyped, LogTyped', SameCounts, HandInv,
         UNCHANGED <<stats, register, raced>>
  PROVE  ValuesInv'
<1>1. \A f \in Field : Total(f)' = Total(f) /\ Prices(f)' = Prices(f)
  BY SameTotals DEF SameCounts
<1>2. \A f \in Field : \A v : Justified(f, v)' <=> Justified(f, v)
  BY <1>1 DEF Justified
<1>3. \A f \in Field : ExactNow(f)' <=> ExactNow(f)
  BY <1>1 DEF ExactNow, Counted, Wrapped
<1>4. \A q \in Thread : register[q] # <<>> => register[q][1] \in Field
  BY DEF HandInv, Counting
<1> QED
  BY <1>2, <1>3, <1>4 DEF ValuesInv

\* What is loaded is what the field has; whoever has it loaded, too, is noted.
LEMMA LoadFieldValues ==
  ASSUME ValuesInv, QueuesInv, ServerInv, LogTyped, NEW q \in Thread, LoadField(q)
  PROVE  ValuesInv'
<1>1. PICK f \in left[q] :
        /\ register' = [register EXCEPT ![q] = <<f, stats[f]>>]
        /\ raced' = IF \E p \in Thread \ {q} : register[p] # <<>> /\ register[p][1] = f
                      THEN raced \cup {f} ELSE raced
  BY DEF LoadField
<1>2. /\ UNCHANGED <<stats, tradeLog>> /\ SameCounts /\ f \in Field
      /\ DOMAIN register = Thread /\ raced \subseteq raced'
  BY <1>1, LoadFieldQueues DEF LoadField, bookVars, ServerInv, HandInv
<1>3. /\ register'[q] = <<f, stats[f]>> /\ register'[q][1] = f /\ register'[q][2] = stats[f]
      /\ \A p \in Thread \ {q} : register'[p] = register[p]
  BY <1>1, <1>2
<1>4. \A p \in Thread : register[p] # <<>> => register[p][1] \in Field
  BY DEF ServerInv, HandInv, Counting
<1>5. \A g \in Field : Total(g)' = Total(g) /\ Prices(g)' = Prices(g)
  BY <1>2, SameTotals DEF SameCounts, LogTyped
<1>6. \A g \in Field : \A v : Justified(g, v)' <=> Justified(g, v)
  BY <1>5 DEF Justified
<1>7. \A g \in Field : ExactNow(g)' <=> ExactNow(g)
  BY <1>2, <1>5 DEF ExactNow, Counted, Wrapped
<1>8. ASSUME NEW p \in Thread, register'[p] # <<>>
      PROVE  Justified(register[p][1], register[p][2])'
  <2>1. PICK g, v : g = register'[p][1] /\ v = register'[p][2]
    OBVIOUS
  <2>2. g \in Field /\ Justified(g, v)
    BY <1>2, <1>3, <1>4, <1>8, <2>1 DEF ValuesInv
  <2>3. Justified(g, v)'
    BY <1>6, <2>2
  <2> QED
    BY <2>1, <2>3 DEF Justified
<1>9. \A p \in Thread \ {q} : register[p] # <<>> /\ register[p][1] = f => f \in raced'
  BY <1>1
<1>10. \A p, r \in Thread :
         p # r /\ register'[p] # <<>> /\ register'[r] # <<>> /\ register'[p][1] = register'[r][1] =>
           register'[p][1] \in raced'
  BY <1>2, <1>3, <1>9 DEF ValuesInv
<1>11. \A p \in Thread : register'[p] # <<>> /\ register'[p][1] \notin raced' =>
         register'[p][2] = stats'[register'[p][1]]
  BY <1>2, <1>3 DEF ValuesInv
<1>12. ASSUME NEW g \in Field PROVE Justified(g, stats[g])'
  <2>1. PICK v : v = stats[g]
    OBVIOUS
  <2>2. Justified(g, v)'
    BY <1>6, <2>1 DEF ValuesInv
  <2> QED
    BY <1>2, <2>1, <2>2 DEF Justified
<1>13. \A g \in Field \ raced' : ExactNow(g)'
  BY <1>2, <1>7 DEF ValuesInv
<1> QED
  BY <1>8, <1>10, <1>11, <1>12, <1>13 DEF ValuesInv

\* One update of one field.
LEMMA UpdateJustified ==
  ASSUME LogTyped, NEW f \in Field, NEW old \in Int, Justified(f, old),
         NEW trade \in Trade, NEW total, NEW prices,
         total = Total(f) + Amount(f, trade), prices = Prices(f) \cup {trade.price},
         NEW value, value = Updated(f, old, trade)
  PROVE  IF f \in Summed THEN value >= -(IntMax + 1) /\ value <= total ELSE value \in prices
<1>1. /\ trade.price \in Nat /\ trade.quantity \in Nat /\ Amount(f, trade) \in Nat
      /\ Total(f) \in Nat
  BY AmountTypes
<1>2. CASE f \in {"total_trades", "total_volume"}
  <2>1. PICK a \in Nat : a = Amount(f, trade)
    BY <1>1
  <2>2. value = Wrapped(old + a)
    BY <1>2, <2>1 DEF Updated, Amount
  <2>3. /\ old >= -(IntMax + 1) /\ old <= Total(f) /\ f \in Summed
    BY <1>2 DEF Justified, Summed
  <2>4. old + a \in Int /\ old + a >= -(IntMax + 1) /\ old + a <= total
    BY <1>1, <2>1, <2>3, LoadAssumption
  <2>5. value >= -(IntMax + 1) /\ value <= old + a /\ value \in Int
    BY <2>2, <2>4, WrappedRange
  <2>6. total \in Int
    BY <1>1
  <2> QED
    BY <2>3, <2>4, <2>5, <2>6
<1>3. CASE f = "total_value"
  <2>1. PICK a \in Nat : a = Amount(f, trade)
    BY <1>1
  <2>2. value = old + a
    BY <1>3, <2>1 DEF Updated, Amount
  <2>3. /\ old >= -(IntMax + 1) /\ old <= Total(f) /\ f \in Summed
    BY <1>3 DEF Justified, Summed
  <2> QED
    BY <1>1, <2>1, <2>2, <2>3, LoadAssumption
<1>4. CASE f = "min_price" \/ f = "max_price"
  <2>1. value \in {old, trade.price} /\ f \notin Summed
    BY <1>4 DEF Updated, Summed
  <2>2. old \in Prices(f)
    BY <2>1 DEF Justified
  <2> QED
    BY <2>1, <2>2
<1> QED
  BY <1>2, <1>3, <1>4, FieldCases DEF Summed

\* An update of an exact value with one trade more is exact.
LEMMA UpdateExact ==
  ASSUME LogTyped, NEW f \in Field, stats[f] \in Int, ExactNow(f),
         NEW trade \in Trade, NEW total, NEW prices,
         total = Total(f) + Amount(f, trade), prices = Prices(f) \cup {trade.price},
         NEW value, value = Updated(f, stats[f], trade)
  PROVE  /\ f \in Summed    => value = Counted(f, total)
         /\ f = "min_price" => \A v \in prices : value <= v
         /\ f = "max_price" => \A v \in prices : value >= v
<1>1. /\ trade.price \in Nat /\ trade.quantity \in Nat /\ Amount(f, trade) \in Nat
      /\ Total(f) \in Nat
  BY AmountTypes
<1>2. CASE f \in {"total_trades", "total_volume"}
  <2>1. PICK a \in Nat, n \in Nat : a = Amount(f, trade) /\ n = Total(f)
    BY <1>1
  <2>2. value = Wrapped(stats[f] + a)
    BY <1>2, <2>1 DEF Updated, Amount
  <2>3. stats[f] = Wrapped(n)
    BY <1>2, <2>1 DEF ExactNow, Counted, Summed
  <2>4. value = Wrapped(n + a)
    BY <2>1, <2>2, <2>3, WrappedSum
  <2> QED
    BY <1>2, <2>1, <2>4 DEF Counted, Summed
<1>3. CASE f = "total_value"
  <2>1. value = stats[f] + Amount(f, trade)
    BY <1>3 DEF Updated, Amount
  <2>2. stats[f] = Total(f)
    BY <1>3 DEF ExactNow, Counted, Summed
  <2> QED
    BY <1>3, <2>1, <2>2 DEF Counted, Summed
<1>4. \A v \in Prices(f) : v \in Nat
  <2>1. Blank(f) \in Nat
    BY BoundsAssumption DEF Blank
  <2>2. \A i \in CountedIn(f) : tradeLog[i].price \in Nat
    BY CountedFinite, AmountTypes
  <2> QED
    BY <2>1, <2>2 DEF Prices
<1>5. CASE f = "min_price"
  <2>1. \A v \in Prices(f) : stats[f] <= v
    BY <1>5 DEF ExactNow, Summed
  <2>2. value = IF trade.price < stats[f] THEN trade.price ELSE stats[f]
    BY <1>5 DEF Updated
  <2>3. \A v \in prices : value <= v
    BY <1>1, <1>4, <2>1, <2>2
  <2> QED
    BY <1>5, <2>3 DEF Summed
<1>6. CASE f = "max_price"
  <2>1. \A v \in Prices(f) : stats[f] >= v
    BY <1>6 DEF ExactNow, Summed
  <2>2. value = IF trade.price > stats[f] THEN trade.price ELSE stats[f]
    BY <1>6 DEF Updated
  <2>3. \A v \in prices : value >= v
    BY <1>1, <1>4, <2>1, <2>2
  <2> QED
    BY <1>6, <2>3 DEF Summed
<1> QED
  BY <1>2, <1>3, <1>5, <1>6, FieldCases DEF Summed

\* The store of a value that may be stale: justified in any case, exact if no
\* other thread had the field loaded.
LEMMA StoreFieldValues ==
  ASSUME ValuesInv, QueuesInv, ServerInv, BookInv, LogTyped, NEW q \in Thread, StoreField(q)
  PROVE  ValuesInv'
<1>1. PICK f, i : f = register[q][1] /\ CountsOne(q, f, i)
  BY StoreFieldQueues
<1>2. PICK old, trade : old = register[q][2] /\ trade = Head(todo[q])
  OBVIOUS
<1>3. register[q] # <<>> /\ f \in Field /\ old \in Int
  BY <1>1, <1>2, StoreFieldQueues
<1>4. PICK value : value = Updated(f, old, trade)
  OBVIOUS
<1>5. /\ stats' = IF value = old THEN stats ELSE [stats EXCEPT ![f] = value]
      /\ register' = [register EXCEPT ![q] = <<>>] /\ UNCHANGED raced
  BY <1>1, <1>2, <1>4 DEF StoreField
<1>6. stats \in [Field -> Int] /\ DOMAIN register = Thread
  BY DEF ServerInv, HandInv
<1>7. /\ trade \in Trade
      /\ Total(f)' = Total(f) + Amount(f, trade) /\ Prices(f)' = Prices(f) \cup {trade.price}
      /\ \A g \in Field \ {f} : Total(g)' = Total(g) /\ Prices(g)' = Prices(g)
  BY <1>1, <1>2, <1>3, OneMore
<1>8. /\ register'[q] = <<>>
      /\ \A p \in Thread \ {q} : register'[p] = register[p]
      /\ \A g \in Field \ {f} : stats'[g] = stats[g]
      /\ stats'[f] = value \/ (value = old /\ stats'[f] = stats[f])
  BY <1>3, <1>5, <1>6
<1>9. PICK total, prices : total = Total(f)' /\ prices = Prices(f)'
  OBVIOUS
<1>10. ASSUME NEW g \in Field, NEW v \in Int, Justified(g, v) PROVE Justified(g, v)'
  <2>1. CASE g # f
    BY <1>7, <1>10, <2>1 DEF Justified
  <2>2. CASE g = f /\ f \notin Summed
    BY <1>7, <1>10, <2>2 DEF Justified
  <2>3. CASE g = f /\ f \in Summed
    <3>1. Total(f) \in Nat /\ Amount(f, trade) \in Nat
      BY <1>7, AmountTypes
    <3>2. v >= -(IntMax + 1) /\ v <= Total(f)
      BY <1>10, <2>3 DEF Justified
    <3> QED
      BY <1>7, <2>3, <3>1, <3>2 DEF Justified
  <2> QED
    BY <2>1, <2>2, <2>3
<1>11. ASSUME NEW p \in Thread, register'[p] # <<>>
       PROVE  /\ p # q /\ register'[p] = register[p] /\ register[p] # <<>>
              /\ register[p][1] \in Field /\ register[p][2] \in Int
  BY <1>8, <1>11 DEF ServerInv, HandInv, Counting
<1>12. ASSUME NEW p \in Thread, register'[p] # <<>>
       PROVE  Justified(register[p][1], register[p][2])'
  <2>1. PICK g, v : g = register[p][1] /\ v = register[p][2]
    OBVIOUS
  <2>2. g \in Field /\ v \in Int /\ Justified(g, v)
    BY <1>11, <1>12, <2>1 DEF ValuesInv
  <2>3. Justified(g, v)'
    BY <1>10, <2>2
  <2> QED
    BY <1>11, <1>12, <2>1, <2>3 DEF Justified
<1>13. Justified(f, old)
  BY <1>1, <1>2, <1>3 DEF ValuesInv
<1>14. IF f \in Summed THEN value >= -(IntMax + 1) /\ value <= total ELSE value \in prices
  BY <1>3, <1>4, <1>7, <1>9, <1>13, UpdateJustified
<1>15. ASSUME NEW g \in Field PROVE Justified(g, stats[g])'
  <2>1. PICK v : v = stats[g]
    OBVIOUS
  <2>2. Justified(g, v)'
    BY <1>6, <1>10, <2>1 DEF ValuesInv
  <2>3. CASE stats'[g] = stats[g]
    BY <2>1, <2>2, <2>3 DEF Justified
  <2>4. CASE stats'[g] # stats[g]
    <3>1. g = f /\ stats'[g] = value
      BY <1>8, <2>4
    <3> QED
      BY <1>9, <1>14, <3>1 DEF Justified
  <2> QED
    BY <2>3, <2>4
<1>16. f \notin raced => /\ old = stats[f] /\ stats'[f] = value
                        /\ \A p \in Thread \ {q} : register[p] # <<>> => register[p][1] # f
  BY <1>1, <1>2, <1>3, <1>8 DEF ValuesInv
<1>17. ASSUME NEW g \in Field \ raced' PROVE ExactNow(g)'
  <2>1. ExactNow(g)
    BY <1>5 DEF ValuesInv
  <2>2. CASE g # f
    BY <1>7, <1>8, <2>1, <2>2 DEF ExactNow, Counted, Wrapped
  <2>3. CASE g = f
    <3>1. old = stats[f] /\ stats'[f] = value /\ stats[f] \in Int
      BY <1>3, <1>5, <1>16, <2>3
    <3>2. value = Updated(f, stats[f], trade)
      BY <1>4, <3>1
    <3>3. CASE f \in Summed
      <4>1. value = Counted(f, total)
        BY <1>3, <1>7, <1>9, <2>1, <2>3, <3>1, <3>2, <3>3, UpdateExact
      <4>2. Counted(f, total) = Counted(f, Total(f))'
        BY <1>9 DEF Counted, Wrapped
      <4> QED
        BY <2>3, <3>1, <3>3, <4>1, <4>2 DEF ExactNow, Summed
    <3>4. CASE f = "min_price"
      <4>1. \A v \in prices : value <= v
        BY <1>3, <1>7, <1>9, <2>1, <2>3, <3>1, <3>2, <3>4, UpdateExact
      <4> QED
        BY <1>9, <2>3, <3>1, <3>4, <4>1 DEF ExactNow, Summed
    <3>5. CASE f = "max_price"
      <4>1. \A v \in prices : value >= v
        BY <1>3, <1>7, <1>9, <2>1, <2>3, <3>1, <3>2, <3>5, UpdateExact
      <4> QED
        BY <1>9, <2>3, <3>1, <3>5, <4>1 DEF ExactNow, Summed
    <3> QED
      BY <1>3, <3>3, <3>4, <3>5, FieldCases
  <2> QED
    BY <2>2, <2>3
<1>18. \A p \in Thread : register'[p] # <<>> /\ register'[p][1] \notin raced' =>
         register'[p][2] = stats'[register'[p][1]]
  BY <1>5, <1>8, <1>11, <1>16 DEF ValuesInv
<1>19. \A p, r \in Thread :
         p # r /\ register'[p] # <<>> /\ register'[r] # <<>> /\ register'[p][1] = register'[r][1] =>
           register'[p][1] \in raced'
  BY <1>5, <1>11 DEF ValuesInv
<1> QED
  BY <1>12, <1>15, <1>17, <1>18, <1>19 DEF ValuesInv

\* ValuesInv is inductive, on top of the invariants above and of the server's.
LEMMA NextValues ==
  ValuesInv /\ QueuesInv /\ ServerInv /\ FlightInv /\ BookInv /\ BookInv' /\ [Next]_vars =>
    ValuesInv'
<1> SUFFICES ASSUME ValuesInv, QueuesInv, ServerInv, FlightInv, BookInv, BookInv', [Next]_vars
             PROVE  ValuesInv'
  OBVIOUS
<1>1. LogTyped /\ LogTyped' /\ HandInv
  BY LogIsTyped, PTL DEF ServerInv
<1>2. CASE UNCHANGED vars
  BY <1>1, <1>2, SameQueues, SameValues DEF vars, bookVars, statVars, QueuesInv
<1>3. ASSUME NEW q \in Thread, Step(q) PROVE ValuesInv'
  <2>1. CASE Match(q)
    BY <1>1, <2>1, MatchQueues, SameValues DEF Match, statVars
  <2>2. CASE LeaveBook(q)
    BY <1>1, <2>2, LeaveBookQueues, SameValues DEF LeaveBook
  <2>3. CASE LoadField(q)
    BY <1>1, <2>3, LoadFieldValues
  <2>4. CASE StoreField(q)
    BY <1>1, <2>4, StoreFieldValues
  <2>5. CASE ~Counts(q)
    BY <1>1, <1>3, <2>5, OthersDoNotCount, SameQueues, SameValues DEF statVars
  <2> QED
    BY <2>1, <2>2, <2>3, <2>4, <2>5 DEF Counts
<1> QED
  BY <1>2, <1>3 DEF Next, Quiet

\* The blank statistics are exact for an empty log.
LEMMA InitValues == Init => ValuesInv
<1> SUFFICES ASSUME Init PROVE ValuesInv
  OBVIOUS
<1>1. /\ tradeLog = <<>> /\ stats = [f \in Field |-> Blank(f)] /\ raced = {}
      /\ \A q \in Thread : register[q] = <<>>
  BY DEF Init, Book!Init
<1>2. \A f \in Field : CountedIn(f) = {}
  BY <1>1 DEF CountedIn
<1>3. \A f \in Field : Total(f) = 0 /\ Prices(f) = {Blank(f)}
  BY <1>2, SumParts DEF Total, Prices
<1>4. \A f \in Summed : Blank(f) = 0
  BY DEF Summed, Blank
<1>5. Wrapped(0) = 0
  <2>1. PICK h \in Nat, w \in Nat \ {0} : h = IntMax + 1 /\ w = 2 * (IntMax + 1) /\ h \in 0 .. w - 1
    BY LoadAssumption
  <2>2. h % w = h
    BY <2>1, ModSmall
  <2>3. 0 + IntMax + 1 = h
    BY <2>1, LoadAssumption
  <2> QED
    BY <2>1, <2>2, <2>3 DEF Wrapped
<1>6. \A f \in Field : Justified(f, Blank(f))
  BY <1>3, <1>4, LoadAssumption DEF Justified
<1>7. \A f \in Field : Blank(f) \in Nat
  BY BoundsAssumption DEF Blank
<1>8. ASSUME NEW f \in Field PROVE ExactNow(f)
  <2>1. stats[f] = Blank(f) /\ Blank(f) \in Nat /\ Prices(f) = {Blank(f)} /\ Total(f) = 0
    BY <1>1, <1>3, <1>7
  <2>2. CASE f \in Summed
    <3>1. Counted(f, 0) = 0
      BY <1>5 DEF Counted
    <3>2. f # "min_price" /\ f # "max_price"
      BY <2>2 DEF Summed
    <3>3. stats[f] = Counted(f, Total(f))
      BY <1>4, <2>1, <2>2, <3>1
    <3> QED
      BY <3>2, <3>3 DEF ExactNow
  <2>3. CASE f = "min_price"
    BY <2>1, <2>3 DEF ExactNow, Summed
  <2>4. CASE f = "max_price"
    BY <2>1, <2>4 DEF ExactNow, Summed
  <2> QED
    BY <2>2, <2>3, <2>4, FieldCases
<1> QED
  BY <1>1, <1>6, <1>8 DEF ValuesInv

\* What the statistics hold, at every step: nothing but what was counted, and all
\* of it where no two threads had the field loaded at once.
THEOREM ValuesInvariance == Spec => []ValuesInv
BY InitValues, NextValues, QueuesInvariance, ServerInvariance, FlightInvariance, BookInvariance, PTL
DEF Spec

-------------------------------------------------------------------------------
\* What the statistics would be had nobody interfered.

\* Min and Max, which CHOOSE, have something to choose.
LEMMA LeastMember ==
  ASSUME NEW T, T \subseteq Nat, T # {}
  PROVE  Min(T) \in T /\ \A n \in T : Min(T) <= n
<1>1. \E m \in T : \A n \in T : m <= n
  BY LeastOfNats
<1> QED
  BY <1>1 DEF Min

LEMMA LargestMember ==
  ASSUME NEW T, T \subseteq Nat, T # {}, NEW b \in Nat, \A n \in T : n <= b
  PROVE  Max(T) \in T /\ \A n \in T : Max(T) >= n
<1> DEFINE Above == {k \in Nat : \A n \in T : n <= k}
<1>1. Above \subseteq Nat /\ Above # {}
  OBVIOUS
<1> HIDE DEF Above
<1>2. PICK m \in Above : \A k \in Above : m <= k
  BY <1>1, LeastOfNats
<1>3. m \in Nat /\ \A n \in T : n <= m
  BY <1>2 DEF Above
<1>4. m \in T
  <2> SUFFICES ASSUME m \notin T PROVE FALSE
    OBVIOUS
  <2>1. \A n \in T : n \in Nat /\ n <= m /\ n # m
    BY <1>3
  <2>2. m - 1 \in Nat /\ \A n \in T : n <= m - 1
    <3>1. PICK n \in T : TRUE
      OBVIOUS
    <3>2. m # 0
      BY <1>3, <2>1, <3>1
    <3> QED
      BY <1>3, <2>1, <3>2
  <2>3. m - 1 \in Above
    BY <2>2 DEF Above
  <2> QED
    BY <1>2, <1>3, <2>3
<1>5. \E k \in T : \A n \in T : k >= n
  BY <1>3, <1>4
<1> QED
  BY <1>5 DEF Max

AllPrices(f) == {tradeLog[i].price : i \in DOMAIN tradeLog} \cup {Blank(f)}

\* All prices of the log have a bound: what they add up to.
LEMMA PricesBounded ==
  ASSUME LogTyped, NEW f
  PROVE  AllPrices(f) \subseteq Nat /\ \E b \in Nat : \A v \in AllPrices(f) : v <= b
<1>1. PICK S, a : S = DOMAIN tradeLog /\ a = [i \in DOMAIN tradeLog |-> tradeLog[i].price]
  OBVIOUS
<1>2. IsFiniteSet(S) /\ \A i \in S : a[i] \in Nat /\ a[i] = tradeLog[i].price
  BY <1>1, CountedFinite, AmountTypes
<1>3. PICK n, b : n = SumFunctionOnSet(a, S) /\ b = n + Blank(f)
  OBVIOUS
<1>4. n \in Int /\ Blank(f) \in Nat
  BY <1>2, <1>3, SumParts, BoundsAssumption DEF Blank
<1>5. n >= 0
  <2>1. SumFunctionOnSet(a, {}) <= SumFunctionOnSet(a, S) /\ SumFunctionOnSet(a, {}) = 0
    BY <1>2, SumGrows, SumParts
  <2> QED
    BY <1>3, <1>4, <2>1
<1>6. ASSUME NEW i \in S PROVE a[i] <= n
  <2>1. PICK one : one = {i}
    OBVIOUS
  <2>2. PICK m : m = SumFunctionOnSet(a, one)
    OBVIOUS
  <2>3. m <= n
    BY <1>2, <1>3, <2>1, <2>2, SumGrows
  <2>4. IsFiniteSet(one) /\ i \in one /\ \A x \in one : a[x] \in Int
    <3>1. one \in SUBSET S /\ i \in one /\ \A x \in one : a[x] \in Int
      BY <1>2, <2>1
    <3> QED
      BY <1>2, <3>1, FS_Subset
  <2>5. m = a[i] + SumFunctionOnSet(a, one \ {i})
    BY <2>2, <2>4, SumParts
  <2>6. one \ {i} = {}
    BY <2>1
  <2>7. SumFunctionOnSet(a, one \ {i}) = 0
    BY <2>6, SumParts
  <2>8. m = a[i] + 0
    BY <2>5, <2>7
  <2> QED
    BY <1>2, <1>4, <2>3, <2>8
<1>7. b \in Nat /\ \A v \in AllPrices(f) : v \in Nat /\ v <= b
  BY <1>1, <1>2, <1>3, <1>4, <1>5, <1>6 DEF AllPrices
<1> QED
  BY <1>7

\* The exact values: sums over the whole log, the smallest and the largest price.
LEMMA ExactValues ==
  ASSUME LogTyped, NEW f \in Field
  PROVE  /\ f \in Summed => Exact(f) = SumFunctionOnSet(Amounts(f), DOMAIN tradeLog)
         /\ f = "min_price" => /\ Exact(f) \in AllPrices(f)
                               /\ \A v \in AllPrices(f) : Exact(f) <= v
         /\ f = "max_price" => /\ Exact(f) \in AllPrices(f)
                               /\ \A v \in AllPrices(f) : Exact(f) >= v
<1>1. CASE f = "total_trades"
  <2>1. PICK S, a : S = DOMAIN tradeLog /\ a = Amounts(f)
    OBVIOUS
  <2>2. IsFiniteSet(S) /\ Cardinality(S) = Len(tradeLog)
    <3>1. PICK n \in Nat : n = Len(tradeLog)
      BY CountedFinite
    <3>2. S = 1 .. n /\ 1 \in Int /\ n \in Int
      BY <2>1, <3>1, CountedFinite
    <3>3. IsFiniteSet(1 .. n) /\ Cardinality(1 .. n) = n
      <4>1. IsFiniteSet(1 .. n) /\ Cardinality(1 .. n) = IF 1 > n THEN 0 ELSE n - 1 + 1
        BY <3>2, FS_Interval
      <4>2. (IF 1 > n THEN 0 ELSE n - 1 + 1) = n
        BY <3>1
      <4> QED
        BY <4>1, <4>2
    <3>4. IsFiniteSet(S)
      BY <3>2, <3>3
    <3>5. Cardinality(S) = Cardinality(1 .. n)
      BY <3>2
    <3> QED
      BY <3>1, <3>3, <3>4, <3>5
  <2>3. \A i \in S : a[i] = 1
    BY <1>1, <2>1 DEF Amounts, Amount
  <2>4. SumFunctionOnSet(a, S) = Len(tradeLog)
    BY <2>2, <2>3, SumOfOnes
  <2>5. Exact(f) = Len(tradeLog)
    BY <1>1 DEF Exact
  <2> QED
    BY <1>1, <2>1, <2>4, <2>5
<1>2. CASE f = "total_volume"
  <2>1. Amounts(f) = [i \in DOMAIN tradeLog |-> tradeLog[i].quantity]
    BY <1>2 DEF Amounts, Amount
  <2>2. Exact(f) = SumFunction([i \in DOMAIN tradeLog |-> tradeLog[i].quantity])
    BY <1>2 DEF Exact
  <2>3. DOMAIN Amounts(f) = DOMAIN tradeLog
    BY DEF Amounts
  <2> QED
    BY <1>2, <2>1, <2>2, <2>3 DEF SumFunction
<1>3. CASE f = "total_value"
  <2>1. Amounts(f) = [i \in DOMAIN tradeLog |-> tradeLog[i].price * tradeLog[i].quantity]
    BY <1>3 DEF Amounts, Amount
  <2>2. Exact(f) = SumFunction([i \in DOMAIN tradeLog |-> tradeLog[i].price * tradeLog[i].quantity])
    BY <1>3 DEF Exact
  <2>3. DOMAIN Amounts(f) = DOMAIN tradeLog
    BY DEF Amounts
  <2> QED
    BY <1>3, <2>1, <2>2, <2>3 DEF SumFunction
<1>4. PICK T : T = AllPrices(f)
  OBVIOUS
<1>5. /\ T \subseteq Nat /\ T # {} /\ \E b \in Nat : \A v \in T : v <= b
  BY <1>4, PricesBounded DEF AllPrices
<1>6. CASE f = "min_price"
  <2>1. Exact(f) = Min(T)
    BY <1>4, <1>6 DEF Exact, AllPrices
  <2> QED
    BY <1>4, <1>5, <1>6, <2>1, LeastMember DEF Summed
<1>7. CASE f = "max_price"
  <2>1. Exact(f) = Max(T)
    BY <1>4, <1>7 DEF Exact, AllPrices
  <2>2. Max(T) \in T /\ \A n \in T : Max(T) >= n
    BY <1>5, LargestMember
  <2> QED
    BY <1>4, <1>7, <2>1, <2>2 DEF Summed
<1> QED
  BY <1>1, <1>2, <1>3, <1>6, <1>7, FieldCases DEF Summed

\* What is justified by what is counted is not above what there is.
LEMMA NeverOverstate ==
  ValuesInv /\ LogTyped /\ HandInv => StatsNeverOverstate
<1> SUFFICES ASSUME ValuesInv, LogTyped, HandInv, NEW f \in Field
             PROVE  IF f = "min_price" THEN stats[f] >= Exact(f) ELSE stats[f] <= Exact(f)
  BY DEF StatsNeverOverstate
<1>1. Justified(f, stats[f]) /\ stats[f] \in Int
  BY DEF ValuesInv, HandInv
<1>2. CASE f \in Summed
  <2>1. PICK S, A, a : S = DOMAIN tradeLog /\ A = CountedIn(f) /\ a = Amounts(f)
    OBVIOUS
  <2>2. IsFiniteSet(S) /\ (\A i \in S : a[i] \in Nat) /\ A \in SUBSET S
    BY <2>1, CountedFinite, AmountTypes
  <2>3. SumFunctionOnSet(a, A) <= SumFunctionOnSet(a, S)
    BY <2>2, SumGrows
  <2>4. stats[f] <= Total(f) /\ Total(f) \in Nat
    BY <1>1, <1>2, AmountTypes DEF Justified
  <2>5. Total(f) = SumFunctionOnSet(a, A) /\ Exact(f) = SumFunctionOnSet(a, S)
    BY <1>2, <2>1, ExactValues DEF Total
  <2>6. SumFunctionOnSet(a, S) \in Int
    BY <2>2, SumParts
  <2>7. f # "min_price"
    BY <1>2 DEF Summed
  <2> QED
    BY <1>1, <2>3, <2>4, <2>5, <2>6, <2>7
<1>3. CASE f \notin Summed
  <2>1. stats[f] \in Prices(f) /\ Prices(f) \subseteq AllPrices(f)
    BY <1>1, <1>3, CountedFinite DEF Justified, Prices, AllPrices
  <2> QED
    BY <1>3, <2>1, ExactValues, FieldCases
<1> QED
  BY <1>2, <1>3

\* Updates that get lost make the statistics too small, never too large, in
\* any number of requests.
THEOREM StatisticsNeverOverstate == Spec => []StatsNeverOverstate
BY NeverOverstate, ValuesInvariance, ServerInvariance, BookInvariance, LogIsTyped, PTL DEF ServerInv

\* Once all is counted, what has been counted is the log.
LEMMA ExactIfUnraced ==
  ValuesInv /\ LogTyped /\ HandInv => ExactUnlessRaced
<1> SUFFICES ASSUME ValuesInv, LogTyped, HandInv,
                    trades = <<>>, \A q \in Thread : todo[q] = <<>>, NEW f \in Field \ raced
             PROVE  stats[f] = Counted(f, Exact(f))
  BY DEF ExactUnlessRaced
<1>1. CountedIn(f) = DOMAIN tradeLog
  BY DEF CountedIn, BeingBuilt, WaitsAt, Range
<1>2. Justified(f, stats[f]) /\ ExactNow(f)
  BY DEF ValuesInv
<1>3. CASE f \in Summed
  <2>1. Total(f) = Exact(f)
    BY <1>1, <1>3, ExactValues DEF Total
  <2> QED
    BY <1>2, <1>3, <2>1 DEF ExactNow
<1>4. CASE f \notin Summed
  <2>1. Prices(f) = AllPrices(f)
    BY <1>1 DEF Prices, AllPrices
  <2>2. stats[f] \in AllPrices(f)
    BY <1>2, <1>4, <2>1 DEF Justified
  <2>3. AllPrices(f) \subseteq Nat
    BY PricesBounded
  <2>4. Counted(f, Exact(f)) = Exact(f)
    BY <1>4 DEF Counted, Summed
  <2>5. CASE f = "min_price"
    <3>1. /\ Exact(f) \in AllPrices(f) /\ Exact(f) <= stats[f]
      BY <2>2, <2>5, ExactValues
    <3>2. stats[f] <= Exact(f)
      BY <1>2, <2>1, <2>5, <3>1 DEF ExactNow
    <3> QED
      BY <2>2, <2>3, <2>4, <3>1, <3>2
  <2>6. CASE f = "max_price"
    <3>1. /\ Exact(f) \in AllPrices(f) /\ Exact(f) >= stats[f]
      BY <2>2, <2>6, ExactValues
    <3>2. stats[f] >= Exact(f)
      BY <1>2, <2>1, <2>6, <3>1 DEF ExactNow
    <3> QED
      BY <2>2, <2>3, <2>4, <3>1, <3>2
  <2> QED
    BY <1>4, <2>5, <2>6, FieldCases
<1> QED
  BY <1>3, <1>4

\* A field goes wrong only if two threads had it loaded at once, however many
\* trades there are: what int makes of an exact count is all the code can have.
THEOREM StatisticsExactUnlessRaced == Spec => []ExactUnlessRaced
BY ExactIfUnraced, ValuesInvariance, ServerInvariance, BookInvariance, LogIsTyped, PTL DEF ServerInv

-------------------------------------------------------------------------------
\* Who made which trades.

Made      == [q \in Thread |-> Len(executed[q])]
ByLoad    == [r \in Request |-> load[r].total_trades]
Reporting == Request \cup {w \in Worker : pc[w] = "tallying"}
MadeSum   == SumFunctionOnSet(Made, Reporting)
LoadSum   == SumFunctionOnSet(ByLoad, Request)

\* TradesAccountedFor in these terms.
AccountsAddUp == Len(tradeLog) = Len(trades) + MadeSum + LoadSum

\* They say the same.
LEMMA AccountsMeaning == AccountsAddUp => TradesAccountedFor
<1>1. DOMAIN ByLoad = Request
  BY DEF ByLoad
<1> QED
  BY <1>1
  DEF TradesAccountedFor, AccountsAddUp, MadeSum, LoadSum, Made, ByLoad, Reporting, SumFunction

\* A thread has no trades before addOrder returns them, a load test none before
\* it starts.
MadeInv ==
  /\ \A q \in Thread : pc[q] \notin {"tallying", "counting", "answered"} => executed[q] = <<>>
  /\ \A r \in Request : pc[r] = "begin" => load[r].total_trades = 0
  /\ AccountsAddUp

\* The sums are over finite sets, of naturals.
LEMMA MadeTypes ==
  ASSUME PlaceInv, HandInv
  PROVE  /\ \A q \in Thread : Made[q] \in Nat /\ Made[q] = Len(executed[q])
         /\ \A r \in Request : ByLoad[r] \in Nat /\ ByLoad[r] = load[r].total_trades
         /\ Reporting \subseteq Thread /\ IsFiniteSet(Thread) /\ IsFiniteSet(Reporting)
         /\ IsFiniteSet(Request)
         /\ MadeSum \in Int /\ LoadSum \in Int
<1>1. \A q \in Thread : Made[q] \in Nat /\ Made[q] = Len(executed[q])
  BY LenProperties DEF HandInv, Made
<1>2. \A r \in Request : ByLoad[r] \in Nat /\ ByLoad[r] = load[r].total_trades
  BY DEF PlaceInv, Load, ByLoad
<1>3. IsFiniteSet(Request)
  BY ThreadAssumption
<1>4. IsFiniteSet(Thread)
  <2>1. IsFiniteSet(0 .. MaxThreads - 1)
    BY LoadAssumption, FS_Interval
  <2>2. IsFiniteSet(Worker)
    BY <1>3, <2>1, FS_Product DEF Worker
  <2> QED
    BY <1>3, <2>2, FS_Union DEF Thread
<1>5. Reporting \subseteq Thread
  BY DEF Reporting, Thread
<1>6. IsFiniteSet(Reporting)
  BY <1>4, <1>5, FS_Subset
<1>7. MadeSum \in Int
  <2>1. \A q \in Reporting : Made[q] \in Int
    BY <1>1, <1>5
  <2> QED
    BY <1>6, <2>1, SumParts DEF MadeSum
<1>8. LoadSum \in Int
  <2>1. \A r \in Request : ByLoad[r] \in Int
    BY <1>2
  <2> QED
    BY <1>3, <2>1, SumParts DEF LoadSum
<1> QED
  BY <1>1, <1>2, <1>3, <1>4, <1>5, <1>6, <1>7, <1>8

\* Sums that do not change with a step.
LEMMA SameMadeSum ==
  ASSUME PlaceInv, HandInv, PlaceInv', HandInv', Reporting' = Reporting,
         \A q \in Reporting : executed'[q] = executed[q]
  PROVE  MadeSum' = MadeSum
<1>1. PICK S, a, b : S = Reporting /\ a = Made /\ b = Made'
  OBVIOUS
<1>2. IsFiniteSet(S) /\ S \subseteq Thread
  BY <1>1, MadeTypes
<1>3. \A q \in S : a[q] \in Int /\ b[q] = a[q]
  BY <1>1, <1>2, MadeTypes DEF Made
<1>4. SumFunctionOnSet(a, S) = SumFunctionOnSet(b, S)
  BY <1>2, <1>3, SumsEqual
<1> QED
  BY <1>1, <1>4 DEF MadeSum

LEMMA SameLoadSum ==
  ASSUME \A r \in Request : load'[r].total_trades = load[r].total_trades
  PROVE  LoadSum' = LoadSum
BY DEF LoadSum, ByLoad

\* The steps that neither make trades nor hand them on.
HandsOver(q) ==
  \/ Match(q) \/ LeaveBook(q)
  \/ q \in Request /\ RunLoad(q)
  \/ q \in Worker /\ (Tally(q) \/ NextIndex(q))

\* They go from a place without trades to another, or answer.
LEMMA OthersHandOverNothing ==
  ASSUME ServerInv, BookInv, FlightInv, NEW q \in Thread, Step(q), ~HandsOver(q)
  PROVE  /\ UNCHANGED <<trades, tradeLog, executed, load>>
         /\ \/ pc' = pc
            \/ \E from, to : /\ Goto(q, from, to)
                             /\ from # "tallying" /\ to # "tallying" /\ to # "begin"
                             /\ \/ to = "answered"
                                \/ from \notin {"tallying", "counting", "answered"}
<1>1. CASE EnterBook(q)
  <2>1. UNCHANGED <<trades, tradeLog, executed, load>>
    BY <1>1, EnterBookEffect DEF EnterBook, postVars, loadVars
  <2>2. Goto(q, "ready", "matching")
    BY <1>1 DEF EnterBook
  <2> QED
    BY <2>1, <2>2
<1>2. CASE OutsideBook(q)
  <2>1. UNCHANGED <<trades, tradeLog>>
    BY <1>2, OutsideBookFrame
  <2>2. UNCHANGED <<executed, load>>
    BY <1>2
    DEF OutsideBook, HandsOver, LoadField, StoreField, RefuseOrder, StampOrder, DrawOrderId,
        AnswerOrder, RefuseLoad, RunLoad, AnswerLoad, CancelFound, CancelNotFound, Demo, Read,
        AnswerReport, ConstructOrder, StampConstructed, Tally, NextIndex, postVars, loadVars
  <2>3. \/ pc' = pc
        \/ Goto(q, "begin", "answered") \/ Goto(q, "begin", "stamped")
        \/ Goto(q, "stamped", "ready") \/ Goto(q, "counting", "answered")
        \/ Goto(q, "loading", "answered") \/ Goto(q, "loop", "drawn") \/ Goto(q, "drawn", "ready")
    BY <1>2
    DEF OutsideBook, HandsOver, LoadField, StoreField, RefuseOrder, StampOrder, DrawOrderId,
        AnswerOrder, RefuseLoad, AnswerLoad, CancelFound, CancelNotFound, Demo, Read,
        AnswerReport, ConstructOrder, StampConstructed
  <2> QED
    BY <2>1, <2>2, <2>3
<1> QED
  BY <1>1, <1>2, BookCases DEF HandsOver

\* A step of no consequence to the accounts.
LEMMA SameMade ==
  ASSUME MadeInv, ServerInv, ServerInv', UNCHANGED <<trades, tradeLog>>,
         Reporting' = Reporting, \A q \in Reporting : executed'[q] = executed[q],
         \A r \in Request : load'[r].total_trades = load[r].total_trades,
         \A q \in Thread :
           pc'[q] \notin {"tallying", "counting", "answered"} => executed'[q] = <<>>,
         \A r \in Request : pc'[r] = "begin" => pc[r] = "begin"
  PROVE  MadeInv'
<1>1. MadeSum' = MadeSum /\ LoadSum' = LoadSum
  BY SameMadeSum, SameLoadSum DEF ServerInv
<1> QED
  BY <1>1 DEF MadeInv, AccountsAddUp

\* A trade of the loop is in the vector that is built.
LEMMA MatchMade ==
  ASSUME MadeInv, ServerInv, ServerInv', BookInv, BookInv', NEW q \in Thread, Match(q)
  PROVE  MadeInv'
<1>1. UNCHANGED <<executed, load, pc>>
  BY DEF Match, postVars, loadVars
<1>2. /\ Len(tradeLog') = Len(tradeLog) + 1 /\ Len(tradeLog) \in Nat
      /\ Len(trades') = Len(trades) + 1 /\ Len(trades) \in Nat
  <2>1. LogTyped'
    BY LogIsTyped, PTL
  <2>2. Len(tradeLog') \in Nat /\ DOMAIN tradeLog' = 1 .. Len(tradeLog')
    BY <2>1, LenProperties DEF LogTyped
  <2>3. PICK n, m : /\ n = Len(tradeLog) /\ n \in Nat /\ m = Len(tradeLog')
                    /\ DOMAIN tradeLog' = 1 .. n + 1
    BY MatchAppends
  <2>4. 1 .. m = 1 .. n + 1 /\ m \in Nat
    BY <2>2, <2>3
  <2>5. m = n + 1
    <3>1. n + 1 \in 1 .. m /\ (m # 0 => m \in 1 .. n + 1)
      BY <2>3, <2>4
    <3> QED
      BY <2>3, <2>4, <3>1
  <2> QED
    BY <2>3, <2>5, MatchAppends
<1>3. Reporting' = Reporting
  BY <1>1 DEF Reporting
<1>4. MadeSum' = MadeSum /\ LoadSum' = LoadSum /\ MadeSum \in Int /\ LoadSum \in Int
  BY <1>1, <1>3, SameMadeSum, SameLoadSum, MadeTypes DEF ServerInv
<1>5. AccountsAddUp'
  BY <1>2, <1>4 DEF MadeInv, AccountsAddUp
<1> QED
  BY <1>1, <1>5 DEF MadeInv

\* addOrder hands its vector to its caller.
LEMMA LeaveBookMade ==
  ASSUME MadeInv, ServerInv, ServerInv', BookInv, FlightInv, NEW q \in Thread, LeaveBook(q)
  PROVE  MadeInv'
<1> USE DEF ServerInv
<1>1. /\ trades' = <<>> /\ tradeLog' = tradeLog /\ UNCHANGED <<load, kind>>
      /\ pc[q] = "matching" /\ pc'[q] \in {"tallying", "counting"}
      /\ \A p \in Thread \ {q} : pc'[p] = pc[p]
  BY LeaveBookEffect DEF LeaveBook, loadVars
<1>2. executed'[q] = trades /\ \A p \in Thread \ {q} : executed'[p] = executed[p]
  BY DEF LeaveBook, HandInv
<1>3. executed[q] = <<>>
  BY <1>1 DEF MadeInv
<1>4. q \in Worker <=> pc'[q] = "tallying"
  BY <1>1, ThreadCases DEF LeaveBook, Goto, PlaceInv
<1>5. Reporting' = Reporting \cup {q}
  BY <1>1, <1>4, ThreadCases DEF Reporting, Thread
<1>6. PICK S, T, a, b : S = Reporting /\ T = Reporting' /\ a = Made /\ b = Made'
  OBVIOUS
<1>7. /\ IsFiniteSet(S) /\ IsFiniteSet(T) /\ S \subseteq Thread /\ T \subseteq Thread
      /\ T = S \cup {q} /\ \A p \in Thread : a[p] \in Int /\ b[p] \in Int
  <2>1. IsFiniteSet(S) /\ S \subseteq Thread /\ \A p \in Thread : a[p] \in Int
    BY <1>6, MadeTypes
  <2>2. T = S \cup {q} /\ T \subseteq Thread
    BY <1>5, <1>6, <2>1
  <2>3. IsFiniteSet(T)
    BY <2>1, <2>2, FS_AddElement
  <2>4. \A p \in Thread : b[p] = Len(executed'[p]) /\ Len(executed'[p]) \in Nat
    BY <1>6, LenProperties DEF HandInv, Made
  <2> QED
    BY <2>1, <2>2, <2>3, <2>4
<1>8. PICK R, n, m : R = S \ {q} /\ n = SumFunctionOnSet(a, R) /\ m = SumFunctionOnSet(b, R)
  OBVIOUS
<1>9. n = m
  <2>1. IsFiniteSet(R)
    BY <1>7, <1>8, FS_Subset
  <2>2. \A p \in R : a[p] \in Int /\ b[p] = a[p]
    BY <1>2, <1>6, <1>7, <1>8 DEF Made
  <2> QED
    BY <1>8, <2>1, <2>2, SumsEqual
<1>10. MadeSum = n /\ n \in Int
  <2>1. CASE q \in S
    <3>1. a[q] = 0
      BY <1>3, <1>6, EmptySeq DEF Made
    <3>2. SumFunctionOnSet(a, S) = a[q] + SumFunctionOnSet(a, S \ {q})
      BY <1>7, <2>1, SumParts
    <3>3. n \in Int
      <4>1. IsFiniteSet(R) /\ \A p \in R : a[p] \in Int
        BY <1>7, <1>8, FS_Subset
      <4> QED
        BY <1>8, <4>1, SumParts
    <3> QED
      BY <1>6, <1>8, <3>1, <3>2, <3>3 DEF MadeSum
  <2>2. CASE q \notin S
    <3>1. R = S
      BY <1>8, <2>2
    <3>2. MadeSum = n
      BY <1>6, <1>8, <3>1 DEF MadeSum
    <3> QED
      BY <3>2, MadeTypes
  <2> QED
    BY <2>1, <2>2
<1>11. MadeSum' = Len(trades) + n /\ Len(trades) \in Nat
  <2>1. b[q] = Len(trades)
    BY <1>2, <1>6 DEF Made
  <2>2. T \ {q} = R /\ q \in T
    BY <1>7, <1>8
  <2>3. SumFunctionOnSet(b, T) = b[q] + SumFunctionOnSet(b, T \ {q})
    BY <1>7, <2>2, SumParts
  <2>4. Len(trades) \in Nat
    BY BookTypes, LenProperties
  <2> QED
    BY <1>6, <1>8, <1>9, <2>1, <2>2, <2>3, <2>4 DEF MadeSum
<1>12. LoadSum' = LoadSum /\ LoadSum \in Int /\ Len(trades') = 0
  BY <1>1, SameLoadSum, MadeTypes, EmptySeq
<1>13. AccountsAddUp'
  BY <1>1, <1>10, <1>11, <1>12 DEF MadeInv, AccountsAddUp
<1>14. \A p \in Thread : pc'[p] \notin {"tallying", "counting", "answered"} => executed'[p] = <<>>
  BY <1>1, <1>2 DEF MadeInv
<1>15. \A r \in Request : pc'[r] = "begin" => load'[r].total_trades = 0
  BY <1>1, ThreadCases DEF MadeInv
<1> QED
  BY <1>13, <1>14, <1>15 DEF MadeInv

\* A worker adds its trades to those of its load test.
LEMMA TallyMade ==
  ASSUME MadeInv, ServerInv, ServerInv', BookInv, NEW w \in Worker, Tally(w),
         UNCHANGED <<trades, tradeLog>>
  PROVE  MadeInv'
<1> USE DEF ServerInv
<1>1. /\ pc[w] = "tallying" /\ pc'[w] = "counting" /\ UNCHANGED executed
      /\ \A p \in Thread \ {w} : pc'[p] = pc[p]
  BY ThreadCases DEF Tally, Goto, PlaceInv, postVars
<1>2. PICK r : r = w[1]
  OBVIOUS
<1>3. /\ r \in Request /\ w \in Thread /\ w \notin Request
      /\ load'[r].total_trades = load[r].total_trades + Len(executed[w])
      /\ \A s \in Request \ {r} : load'[s] = load[s]
  BY <1>2, ThreadCases, TallyLoad DEF HandInv, LoadOf
<1>4. Reporting' = Reporting \ {w} /\ w \in Reporting
  BY <1>1, <1>3, ThreadCases DEF Reporting
<1>5. PICK S, a, n : S = Reporting /\ a = Made /\ n = Len(executed[w])
  OBVIOUS
<1>6. /\ IsFiniteSet(S) /\ (\A p \in S : a[p] \in Int) /\ a[w] = n /\ n \in Nat /\ a = Made'
  BY <1>1, <1>3, <1>5, MadeTypes DEF Made
<1>7. MadeSum = n + MadeSum' /\ MadeSum' \in Int
  <2>1. SumFunctionOnSet(a, S) = a[w] + SumFunctionOnSet(a, S \ {w})
    BY <1>4, <1>5, <1>6, SumParts
  <2>2. SumFunctionOnSet(a, S \ {w}) \in Int
    <3>1. PICK R : R = S \ {w}
      OBVIOUS
    <3>2. IsFiniteSet(R) /\ \A p \in R : a[p] \in Int
      BY <1>6, <3>1, FS_Subset
    <3> QED
      BY <3>1, <3>2, SumParts
  <2> QED
    BY <1>4, <1>5, <1>6, <2>1, <2>2 DEF MadeSum
<1>8. PICK c, d : c = ByLoad /\ d = ByLoad'
  OBVIOUS
<1>9. /\ IsFiniteSet(Request) /\ \A s \in Request : c[s] \in Int /\ d[s] \in Int
      /\ d[r] = c[r] + n /\ \A s \in Request \ {r} : d[s] = c[s]
  <2>1. IsFiniteSet(Request) /\ \A s \in Request : c[s] \in Nat
    BY <1>8, MadeTypes
  <2>2. d[r] = c[r] + n /\ \A s \in Request \ {r} : d[s] = c[s]
    BY <1>3, <1>5, <1>8 DEF ByLoad
  <2>3. \A s \in Request : d[s] \in Int
    BY <1>3, <1>6, <2>1, <2>2
  <2> QED
    BY <2>1, <2>2, <2>3
<1>10. LoadSum' = n + LoadSum /\ LoadSum \in Int
  <2>1. PICK R : R = Request \ {r}
    OBVIOUS
  <2>2. IsFiniteSet(R) /\ \A s \in R : c[s] \in Int /\ d[s] = c[s]
    BY <1>9, <2>1, FS_Subset
  <2>3. PICK x : x = SumFunctionOnSet(c, R)
    OBVIOUS
  <2>4. x = SumFunctionOnSet(d, R) /\ x \in Int
    BY <2>2, <2>3, SumsEqual, SumParts
  <2>5. SumFunctionOnSet(c, Request) = c[r] + x
    BY <1>3, <1>9, <2>1, <2>3, SumParts
  <2>6. SumFunctionOnSet(d, Request) = d[r] + x
    BY <1>3, <1>9, <2>1, <2>4, SumParts
  <2>7. LoadSum = c[r] + x /\ LoadSum' = c[r] + n + x
    BY <1>8, <1>9, <2>5, <2>6 DEF LoadSum
  <2> QED
    BY <1>3, <1>6, <1>9, <2>4, <2>7
<1>11. Len(trades) \in Nat
  BY BookTypes, LenProperties
<1>12. AccountsAddUp'
  BY <1>6, <1>7, <1>10, <1>11 DEF MadeInv, AccountsAddUp
<1>13. \A p \in Thread : pc'[p] \notin {"tallying", "counting", "answered"} => executed'[p] = <<>>
  BY <1>1 DEF MadeInv
<1>14. \A s \in Request : pc'[s] = "begin" => load'[s].total_trades = 0
  <2>1. pc[r] # "begin"
    BY <1>1, <1>2, <1>3 DEF PlaceInv, AtPlace
  <2> QED
    BY <1>1, <1>3, <2>1, ThreadCases DEF MadeInv
<1> QED
  BY <1>12, <1>13, <1>14 DEF MadeInv

\* The trades of a worker's last order have been counted.
LEMMA NextIndexMade ==
  ASSUME MadeInv, ServerInv, ServerInv', NEW w \in Worker, NextIndex(w),
         UNCHANGED <<trades, tradeLog>>
  PROVE  MadeInv'
<1> USE DEF ServerInv
<1>1. /\ pc[w] = "counting" /\ pc'[w] = "loop" /\ executed'[w] = <<>> /\ UNCHANGED load
      /\ \A p \in Thread \ {w} : pc'[p] = pc[p] /\ executed'[p] = executed[p]
  BY ThreadCases DEF NextIndex, Goto, PlaceInv, HandInv
<1>2. Reporting' = Reporting /\ w \notin Reporting /\ Reporting \subseteq Thread
  BY <1>1, ThreadCases DEF Reporting, Thread
<1>3. \A q \in Reporting : executed'[q] = executed[q]
  BY <1>1, <1>2
<1>4. \A p \in Thread : pc'[p] \notin {"tallying", "counting", "answered"} => executed'[p] = <<>>
  BY <1>1 DEF MadeInv
<1>5. \A r \in Request : pc'[r] = "begin" => pc[r] = "begin"
  BY <1>1, ThreadCases
<1> QED
  BY <1>1, <1>2, <1>3, <1>4, <1>5, SameMade

\* The workers a load test starts have not made trades.
LEMMA RunLoadMade ==
  ASSUME MadeInv, ServerInv, ServerInv', NEW r \in Request, RunLoad(r),
         UNCHANGED <<trades, tradeLog>>
  PROVE  MadeInv'
<1> USE DEF ServerInv
<1>1. PICK num_orders \in 1 .. MaxOrders, num_threads \in 0 .. MaxThreads :
        /\ load' = [load EXCEPT ![r] = NewLoad(num_orders, num_threads)]
        /\ pc' = [q \in Thread |-> CASE q = r -> "loading"
                                     [] q \in {r} \X (0 .. num_threads - 1) -> "loop"
                                     [] OTHER -> pc[q]]
  BY DEF RunLoad
<1>2. pc[r] = "begin" /\ UNCHANGED executed
  BY DEF RunLoad, postVars
<1>3. \A s \in Request : load'[s].total_trades = load[s].total_trades
  <2>1. load'[r].total_trades = 0 /\ \A s \in Request \ {r} : load'[s] = load[s]
    BY <1>1 DEF NewLoad, PlaceInv
  <2> QED
    BY <1>2, <2>1 DEF MadeInv
<1>4. \A w \in Worker : w[1] = r => pc[w] = "begin"
  BY <1>2, ThreadCases DEF PlaceInv, AtPlace
<1>5. ASSUME NEW q \in Thread
      PROVE  \/ pc'[q] = pc[q]
             \/ pc[q] = "begin" /\ pc'[q] \in {"loading", "loop"}
  <2>1. CASE q = r
    BY <1>1, <1>2, <2>1
  <2>2. CASE q # r /\ q \in {r} \X (0 .. num_threads - 1)
    <3>1. q[1] = r /\ q \in Worker
      BY <2>2, <1>1, LoadAssumption DEF Worker
    <3>2. pc'[q] = "loop"
      BY <1>1, <2>2
    <3> QED
      BY <1>4, <3>1, <3>2
  <2>3. CASE q # r /\ q \notin {r} \X (0 .. num_threads - 1)
    BY <1>1, <2>3
  <2> QED
    BY <2>1, <2>2, <2>3
<1>6. Reporting' = Reporting
  BY <1>5, ThreadCases DEF Reporting
<1>7. \A p \in Thread : pc'[p] \notin {"tallying", "counting", "answered"} => executed'[p] = <<>>
  BY <1>2, <1>5 DEF MadeInv
<1>8. \A s \in Request : pc'[s] = "begin" => pc[s] = "begin"
  BY <1>5, ThreadCases
<1> QED
  BY <1>2, <1>3, <1>6, <1>7, <1>8, SameMade

\* So the accounts still add up.
LEMMA OthersMade ==
  ASSUME MadeInv, ServerInv, ServerInv', BookInv, FlightInv,
         NEW q \in Thread, Step(q), ~HandsOver(q)
  PROVE  MadeInv'
<1>1. UNCHANGED <<trades, tradeLog, executed, load>>
  BY OthersHandOverNothing
<1>2. ASSUME NEW p \in Thread
      PROVE  /\ pc'[p] = "tallying" <=> pc[p] = "tallying"
             /\ pc'[p] = "begin" => pc[p] = "begin"
             /\ pc'[p] \notin {"tallying", "counting", "answered"} =>
                  pc[p] \notin {"tallying", "counting", "answered"}
  <2>1. CASE pc' = pc
    BY <2>1
  <2>2. ASSUME NEW from, NEW to, Goto(q, from, to),
               from # "tallying", to # "tallying", to # "begin",
               to = "answered" \/ from \notin {"tallying", "counting", "answered"}
        PROVE  /\ pc'[p] = "tallying" <=> pc[p] = "tallying"
               /\ pc'[p] = "begin" => pc[p] = "begin"
               /\ pc'[p] \notin {"tallying", "counting", "answered"} =>
                    pc[p] \notin {"tallying", "counting", "answered"}
    BY <2>2 DEF Goto, ServerInv, PlaceInv
  <2> QED
    BY <2>1, <2>2, OthersHandOverNothing
<1>3. Reporting' = Reporting
  BY <1>2, ThreadCases DEF Reporting
<1>4. \A p \in Thread : pc'[p] \notin {"tallying", "counting", "answered"} => executed'[p] = <<>>
  BY <1>1, <1>2 DEF MadeInv
<1>5. \A r \in Request : pc'[r] = "begin" => pc[r] = "begin"
  BY <1>2, ThreadCases
<1> QED
  BY <1>1, <1>3, <1>4, <1>5, SameMade

\* MadeInv is inductive, on top of the invariants of the server and the book.
LEMMA NextMade ==
  MadeInv /\ ServerInv /\ ServerInv' /\ FlightInv /\ BookInv /\ BookInv' /\ [Next]_vars => MadeInv'
<1> SUFFICES ASSUME MadeInv, ServerInv, ServerInv', FlightInv, BookInv, BookInv', [Next]_vars
             PROVE  MadeInv'
  OBVIOUS
<1>1. CASE UNCHANGED vars
  <2>1. UNCHANGED <<trades, tradeLog, executed, load, pc>>
    BY <1>1 DEF vars, bookVars, postVars, loadVars
  <2> QED
    BY <2>1, SameMade DEF MadeInv, Reporting
<1>2. ASSUME NEW q \in Thread, Step(q) PROVE MadeInv'
  <2>1. CASE Match(q)
    BY <2>1, MatchMade
  <2>2. CASE LeaveBook(q)
    BY <2>2, LeaveBookMade
  <2>3. CASE q \in Request /\ RunLoad(q)
    <3>1. UNCHANGED <<trades, tradeLog>>
      BY <2>3, OutsideBookFrame DEF OutsideBook
    <3> QED
      BY <2>3, <3>1, RunLoadMade
  <2>4. CASE q \in Worker /\ (Tally(q) \/ NextIndex(q))
    <3>1. UNCHANGED <<trades, tradeLog>>
      BY <2>4, OutsideBookFrame DEF OutsideBook
    <3> QED
      BY <2>4, <3>1, TallyMade, NextIndexMade
  <2>5. CASE ~HandsOver(q)
    BY <1>2, <2>5, OthersMade
  <2> QED
    BY <2>1, <2>2, <2>3, <2>4, <2>5 DEF HandsOver
<1> QED
  BY <1>1, <1>2 DEF Next, Quiet

\* No trades, nothing handed over.
LEMMA InitMade == Init => MadeInv
<1> SUFFICES ASSUME Init PROVE MadeInv
  OBVIOUS
<1>1. /\ trades = <<>> /\ tradeLog = <<>>
      /\ \A q \in Thread : executed[q] = <<>> /\ pc[q] = "begin"
      /\ \A r \in Request : load[r].total_trades = 0
  BY DEF Init, Book!Init, NewLoad
<1>2. ServerInv
  BY InitServerInv
<1>3. PICK S, a, b : S = Reporting /\ a = Made /\ b = ByLoad
  OBVIOUS
<1>4. /\ IsFiniteSet(S) /\ (\A q \in S : a[q] = 0)
      /\ IsFiniteSet(Request) /\ (\A r \in Request : b[r] = 0)
  BY <1>1, <1>2, <1>3, MadeTypes, EmptySeq DEF ServerInv
<1>5. MadeSum = 0 /\ LoadSum = 0
  BY <1>3, <1>4, SumOfNothing DEF MadeSum, LoadSum
<1>6. Len(trades) = 0 /\ Len(tradeLog) = 0
  BY <1>1, EmptySeq
<1> QED
  BY <1>1, <1>5, <1>6 DEF MadeInv, AccountsAddUp

\* What is in the log has been handed over once, or is about to be.
THEOREM MadeInvariance == Spec => []MadeInv
BY InitMade, NextMade, ServerInvariance, FlightInvariance, BookInvariance, PTL DEF Spec

\* Every trade of the log is counted by one of those that report how many they
\* made, a POST or a load test, however many workers that has.
THEOREM EachTradeAccountedFor == Spec => []TradesAccountedFor
<1>1. MadeInv => TradesAccountedFor
  BY AccountsMeaning DEF MadeInv
<1> QED
  BY <1>1, MadeInvariance, PTL

================================================================================
