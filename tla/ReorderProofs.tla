---------------------------- MODULE ReorderProofs ----------------------------
(***************************************************************************)
(* Proofs about Reorder, for every history of usage and every report, for  *)
(* every override, reorder point and wait, and for every bound.            *)
(*                                                                         *)
(* The parts: rounding up; sums over sets of months; the k-th smallest of  *)
(* a set of numbers, and medians; the months that count; the invariant and *)
(* what it gives the plan; and the velocity.                               *)
(*                                                                         *)
(* A sum over a set of months is a recursive function over its subsets.    *)
(* What it is follows by induction over them, in the form that a set of    *)
(* counterexamples has no minimal member; so does that a k-th smallest     *)
(* value exists.                                                           *)
(***************************************************************************)
EXTENDS Reorder, FiniteSetTheorems, TLAPS

-----------------------------------------------------------------------------
(* Rounding *)

LEMMA DivMod ==
    ASSUME NEW n \in Int, NEW d \in Nat \ {0}
    PROVE  /\ n \div d \in Int /\ n % d \in Int
           /\ 0 <= n % d /\ n % d < d
           /\ n = d * (n \div d) + (n % d)
OBVIOUS

\* A product with a positive factor has the sign of the other factor.
LEMMA Factor ==
    ASSUME NEW d \in Nat \ {0}, NEW c \in Int
    PROVE  /\ d * c > 0 => c > 0
           /\ d * c >= 0 => c >= 0
           /\ d * c > -d => c >= 0
OBVIOUS

LEMMA Ceiling ==
    ASSUME NEW n \in Int, NEW d \in Nat \ {0}
    PROVE  /\ CeilDiv(n, d) \in Int
           /\ d * CeilDiv(n, d) >= n /\ d * CeilDiv(n, d) < n + d
           /\ n % d = 0 => d * CeilDiv(n, d) = n
<1>1. /\ CeilDiv(n, d) \in Int
      /\ d * CeilDiv(n, d) >= n /\ d * CeilDiv(n, d) < n + d
  BY DivMod DEF CeilDiv
<1>2. ASSUME n % d = 0
      PROVE  d * CeilDiv(n, d) = n
  <2>1. n \div d \in Int /\ n = d * (n \div d)
    BY <1>2, DivMod
  <2>2. PICK q \in Int, c \in Int : q = n \div d /\ c = CeilDiv(n, d)
    BY <1>1, <2>1
  <2>3. d * (c - q) >= 0 /\ d * (c - q) < d
    BY <1>1, <2>1, <2>2
  <2>4. c - q < 1 /\ c - q >= 0
    BY <2>3
  <2>5. c = q
    BY <2>2, <2>4
  <2>6. QED
    BY <2>1, <2>2, <2>5
<1>3. QED
  BY <1>1, <1>2

\* What rounding up promises: enough, and no more than a unit beyond; and if the
\* velocity is just above what comes out even, a unit more than that.
LEMMA CeilLessBounds ==
    ASSUME NEW v \in Twice, NEW halves \in Int
    PROVE  /\ CeilLess(v, halves) \in Int
           /\ 2 * v.den * CeilLess(v, halves) >= 2 * v.num - halves * v.den
           /\ 2 * v.den * CeilLess(v, halves) <= 2 * v.num - halves * v.den + 2 * v.den
<1>1. v.num \in Nat /\ v.den \in Nat \ {0} /\ v.up \in BOOLEAN
  BY DEF Twice
<1>2. PICK n \in Int, d \in Nat \ {0} : n = 2 * v.num - halves * v.den /\ d = 2 * v.den
  BY <1>1
<1>3. CeilLess(v, halves) = CeilDiv(n, d) + (IF v.up /\ n % d = 0 THEN 1 ELSE 0)
  BY <1>2 DEF CeilLess
<1>4. PICK c \in Int : /\ c = CeilDiv(n, d) /\ d * c >= n /\ d * c < n + d
                       /\ n % d = 0 => d * c = n
  BY Ceiling
<1>5. CASE v.up /\ n % d = 0
  <2>1. CeilLess(v, halves) = c + 1 /\ d * c = n
    BY <1>3, <1>4, <1>5
  <2>2. d * (c + 1) = n + d
    BY <2>1
  <2>3. QED
    BY <1>2, <2>1, <2>2
<1>6. CASE ~(v.up /\ n % d = 0)
  <2>1. CeilLess(v, halves) = c
    BY <1>3, <1>4, <1>6
  <2>2. QED
    BY <1>2, <1>4, <2>1
<1>7. QED
  BY <1>5, <1>6

\* What is a unit or more below the rounded amount leaves something to round up.
LEMMA CeilLessPositive ==
    ASSUME NEW v \in Twice, NEW halves \in Int, halves <= 2 * (CeilLess(v, 0) - 1)
    PROVE  CeilLess(v, halves) > 0
<1>1. v.num \in Nat /\ v.den \in Nat \ {0} /\ v.up \in BOOLEAN
  BY DEF Twice
<1>2. PICK num \in Nat, den \in Nat \ {0} : num = v.num /\ den = v.den
  BY <1>1
<1>3. PICK d \in Nat \ {0}, all \in Int, n \in Int :
         d = 2 * den /\ all = 2 * num - 0 * den /\ n = 2 * num - halves * den
  BY <1>2
<1>4. /\ CeilLess(v, 0) = CeilDiv(all, d) + (IF v.up /\ all % d = 0 THEN 1 ELSE 0)
      /\ CeilLess(v, halves) = CeilDiv(n, d) + (IF v.up /\ n % d = 0 THEN 1 ELSE 0)
  BY <1>2, <1>3 DEF CeilLess
<1>5. PICK q \in Int : /\ q = CeilDiv(all, d) /\ d * q >= all /\ d * q < all + d
                       /\ all % d = 0 => d * q = all
  BY Ceiling
<1>6. PICK c \in Int : /\ c = CeilDiv(n, d) /\ d * c >= n /\ d * c < n + d
                       /\ n % d = 0 => d * c = n
  BY Ceiling
<1>7. all = 2 * num /\ n = all - halves * den
  BY <1>3
<1>8. CASE v.up /\ all % d = 0
  <2>1. halves <= 2 * q /\ d * q = all
    BY <1>4, <1>5, <1>8
  <2>2. halves * den <= (2 * q) * den
    BY <2>1
  <2>3. (2 * q) * den = all
    BY <1>3, <2>1
  <2>4. n >= 0
    BY <1>7, <2>2, <2>3
  <2>5. CASE n = 0
    <3>1. n % d = 0 /\ c >= 0
      BY <1>6, <2>5, DivMod, Factor
    <3>2. QED
      BY <1>4, <1>6, <1>8, <3>1
  <2>6. CASE n > 0
    <3>1. c > 0
      BY <1>6, <2>6, Factor
    <3>2. QED
      BY <1>4, <1>6, <3>1
  <2>7. QED
    BY <2>4, <2>5, <2>6
<1>9. CASE ~(v.up /\ all % d = 0)
  <2>1. halves <= 2 * (q - 1)
    BY <1>4, <1>5, <1>9
  <2>2. halves * den <= (2 * (q - 1)) * den
    BY <2>1
  <2>3. (2 * (q - 1)) * den = d * q - d
    BY <1>3
  <2>4. n > 0
    BY <1>5, <1>7, <2>2, <2>3
  <2>5. c > 0
    BY <1>6, <2>4, Factor
  <2>6. QED
    BY <1>4, <1>6, <2>5
<1>10. QED
  BY <1>8, <1>9

\* A reorder point is never negative, and none comes of no velocity.
LEMMA CeilLessOfAll ==
    ASSUME NEW v \in Twice
    PROVE  /\ CeilLess(v, 0) \in Nat
           /\ v.num = 0 /\ ~v.up => CeilLess(v, 0) = 0
<1>1. v.num \in Nat /\ v.den \in Nat \ {0} /\ v.up \in BOOLEAN
  BY DEF Twice
<1>2. PICK num \in Int, d \in Nat \ {0} : num = 2 * v.num - 0 * v.den /\ d = 2 * v.den
  BY <1>1
<1>3. CeilLess(v, 0) = CeilDiv(num, d) + (IF v.up /\ num % d = 0 THEN 1 ELSE 0)
  BY <1>2 DEF CeilLess
<1>4. PICK c \in Int : /\ c = CeilDiv(num, d) /\ d * c >= num /\ d * c < num + d
  BY Ceiling
<1>5. c >= 0
  BY <1>1, <1>2, <1>4, Factor
<1>6. ASSUME v.num = 0, ~v.up
      PROVE  CeilLess(v, 0) = 0
  <2>1. num = 0 /\ CeilLess(v, 0) = c
    BY <1>1, <1>2, <1>3, <1>4, <1>6
  <2>2. d * c < d
    BY <1>4, <2>1
  <2>3. c < 1
    BY <2>2
  <2>4. QED
    BY <1>5, <2>1, <2>3
<1>7. QED
  BY <1>3, <1>4, <1>5, <1>6
-----------------------------------------------------------------------------
(* Sums *)

\* Among sets of subsets of a finite set there is a minimal one.
LEMMA Minimal ==
    ASSUME NEW S, IsFiniteSet(S), NEW Ts, Ts \subseteq SUBSET S, Ts # {}
    PROVE  \E T \in Ts : \A U \in Ts : U \subseteq T => U = T
<1>1. Ts \subseteq FiniteSubsetsOf(S)
  BY FS_Subset DEF FiniteSubsetsOf
<1>2. PICK T \in Ts : \A U \in Ts : ~ (<<U, T>> \in StrictSubsetOrdering(S))
  BY <1>1, FS_StrictSubsetOrderingWellFounded, WFMin, Zenon
<1>3. QED
  BY <1>1, <1>2 DEF StrictSubsetOrdering

\* The element a sum takes next, and what makes a function the sums of f over the
\* subsets of S.
Some(T) == CHOOSE x \in T : TRUE
IsSum(f, S, sum) ==
    sum = [T \in SUBSET S |-> IF T = {} THEN 0 ELSE f[Some(T)] + sum[T \ {Some(T)}]]

LEMMA SomeIn ==
    ASSUME NEW T, T # {}
    PROVE  Some(T) \in T
BY DEF Some

LEMMA SumStep ==
    ASSUME NEW f, NEW S, NEW sum, IsSum(f, S, sum), NEW T \in SUBSET S
    PROVE  /\ T = {} => sum[T] = 0
           /\ T # {} => sum[T] = f[Some(T)] + sum[T \ {Some(T)}]
BY DEF IsSum

\* Two functions of sums agree where both are defined.
LEMMA SumUnique ==
    ASSUME NEW f, NEW S, IsFiniteSet(S),
           NEW A \in SUBSET S, NEW a, IsSum(f, A, a),
           NEW B \in SUBSET S, NEW b, IsSum(f, B, b),
           NEW T, T \subseteq A, T \subseteq B
    PROVE  a[T] = b[T]
<1> DEFINE Bad == {U \in SUBSET S : U \subseteq A /\ U \subseteq B /\ a[U] # b[U]}
<1> SUFFICES ASSUME Bad # {} PROVE FALSE
  OBVIOUS
<1>0. Bad \subseteq SUBSET S
  OBVIOUS
<1>1. PICK U \in Bad : \A V \in Bad : V \subseteq U => V = U
  <2> HIDE DEF Bad
  <2>1. QED
    BY <1>0, Minimal
<1>2. CASE U = {}
  <2>1. U \in SUBSET A /\ U \in SUBSET B /\ a[U] # b[U]
    BY <1>1
  <2>2. a[U] = 0
    BY <1>2, <2>1, SumStep
  <2>3. b[U] = 0
    BY <1>2, <2>1, SumStep
  <2>4. QED
    BY <2>1, <2>2, <2>3
<1>3. CASE U # {}
  <2>1. Some(U) \in U
    BY <1>3, SomeIn
  <2>2. U \ {Some(U)} \notin Bad
    BY <1>1, <2>1
  <2>3. a[U \ {Some(U)}] = b[U \ {Some(U)}]
    BY <1>1, <2>2
  <2>4. a[U] = f[Some(U)] + a[U \ {Some(U)}] /\ b[U] = f[Some(U)] + b[U \ {Some(U)}]
    BY <1>1, <1>3, SumStep
  <2>5. QED
    BY <1>1, <2>3, <2>4
<1>4. QED
  BY <1>2, <1>3

\* There is such a function.
LEMMA SumExists ==
    ASSUME NEW f, NEW S, IsFiniteSet(S)
    PROVE  \E sum : IsSum(f, S, sum)
<1> DEFINE Bad == {T \in SUBSET S : ~ \E sum : IsSum(f, T, sum)}
<1> SUFFICES ASSUME Bad # {} PROVE FALSE
  OBVIOUS
<1>0. Bad \subseteq SUBSET S
  OBVIOUS
<1>1. PICK T \in Bad : \A U \in Bad : U \subseteq T => U = T
  <2> HIDE DEF Bad
  <2>1. QED
    BY <1>0, Minimal
<1> DEFINE the(U) == CHOOSE sum : IsSum(f, U, sum)
           less == [U \in SUBSET T |-> the(U)[U]]
           sum == [U \in SUBSET T |-> IF U = {} THEN 0
                                      ELSE f[Some(U)] + less[U \ {Some(U)}]]
<1>2. ASSUME NEW U \in SUBSET T, U # T
      PROVE  IsSum(f, U, the(U))
  <2>1. U \notin Bad
    BY <1>1, <1>2
  <2>2. \E g : IsSum(f, U, g)
    BY <1>1, <2>1
  <2>3. QED
    BY <2>2
<1>3. ASSUME NEW U \in SUBSET T, U # T
      PROVE  sum[U] = less[U]
  <2>1. IsSum(f, U, the(U))
    BY <1>2, <1>3
  <2>2. CASE U = {}
    BY <2>1, <2>2, SumStep
  <2>3. CASE U # {}
    <3> DEFINE V == U \ {Some(U)}
    <3>1. V \subseteq U /\ V \in SUBSET T /\ V # T
      BY <1>3, <2>3, SomeIn
    <3>2. IsSum(f, V, the(V))
      BY <1>2, <3>1
    <3>3. U \in SUBSET S /\ V \in SUBSET S
      BY <1>1, <3>1
    <3> HIDE DEF V, the
    <3>4. the(U)[V] = the(V)[V]
      BY <2>1, <3>1, <3>2, <3>3, SumUnique
    <3>5. the(U)[U] = f[Some(U)] + the(U)[V]
      BY <2>1, <2>3, SumStep DEF V
    <3>6. sum[U] = f[Some(U)] + less[V]
      BY <2>3 DEF V
    <3>7. QED
      BY <3>1, <3>4, <3>5, <3>6
  <2>4. QED
    BY <2>2, <2>3
<1>4. ASSUME NEW U \in SUBSET T, U # {}
      PROVE  less[U \ {Some(U)}] = sum[U \ {Some(U)}]
  <2>1. U \ {Some(U)} \in SUBSET T /\ U \ {Some(U)} # T
    BY <1>4, SomeIn
  <2>2. QED
    BY <1>3, <2>1
<1> HIDE DEF less
<1>5. sum = [U \in SUBSET T |-> IF U = {} THEN 0 ELSE f[Some(U)] + sum[U \ {Some(U)}]]
  BY <1>4
<1>6. IsSum(f, T, sum)
  BY <1>5 DEF IsSum
<1>7. QED
  BY <1>1, <1>6

\* SumFunctionOnSet is the last of the sums over the subsets.
Sums(f, S, sum) ==
    /\ sum[{}] = 0
    /\ \A T \in SUBSET S :
          T # {} => Some(T) \in T /\ sum[T] = f[Some(T)] + sum[T \ {Some(T)}]

LEMMA SumSums ==
    ASSUME NEW f, NEW S, NEW sum, IsSum(f, S, sum)
    PROVE  Sums(f, S, sum)
<1>1. {} \in SUBSET S
  OBVIOUS
<1>2. sum[{}] = 0
  BY <1>1, SumStep
<1>3. ASSUME NEW T \in SUBSET S, T # {}
      PROVE  Some(T) \in T /\ sum[T] = f[Some(T)] + sum[T \ {Some(T)}]
  BY <1>3, SumStep, SomeIn
<1>4. QED
  BY <1>2, <1>3 DEF Sums

LEMMA SumIs ==
    ASSUME NEW f, NEW S, IsFiniteSet(S)
    PROVE  \E sum : SumFunctionOnSet(f, S) = sum[S] /\ Sums(f, S, sum)
<1> DEFINE the == CHOOSE sum : sum = [T \in SUBSET S |->
                      IF T = {} THEN 0
                      ELSE f[CHOOSE x \in T : TRUE] + sum[T \ {CHOOSE x \in T : TRUE}]]
<1>1. SumFunctionOnSet(f, S) = the[S]
  BY DEF SumFunctionOnSet, FoldFunctionOnSet, MapThenFoldSet
<1>2. \E sum : sum = [T \in SUBSET S |->
                      IF T = {} THEN 0
                      ELSE f[CHOOSE x \in T : TRUE] + sum[T \ {CHOOSE x \in T : TRUE}]]
  <2>1. \E sum : IsSum(f, S, sum)
    BY SumExists
  <2>2. QED
    BY <2>1, Zenon DEF IsSum, Some
<1>3. the = [T \in SUBSET S |->
                      IF T = {} THEN 0
                      ELSE f[CHOOSE x \in T : TRUE] + the[T \ {CHOOSE x \in T : TRUE}]]
  BY <1>2, Zenon
<1>4. IsSum(f, S, the)
  BY <1>3, Zenon DEF IsSum, Some
<1> HIDE DEF the
<1>5. Sums(f, S, the)
  BY <1>4, SumSums
<1>6. QED
  BY <1>1, <1>5

\* A sum of natural numbers is one.
LEMMA SumNat ==
    ASSUME NEW f, NEW S, IsFiniteSet(S), \A x \in S : f[x] \in Nat
    PROVE  SumFunctionOnSet(f, S) \in Nat
<1>1. PICK sum : SumFunctionOnSet(f, S) = sum[S] /\ Sums(f, S, sum)
  BY SumIs, Zenon
<1>s1. /\ sum[{}] = 0
      /\ \A T \in SUBSET S :
            T # {} => Some(T) \in T /\ sum[T] = f[Some(T)] + sum[T \ {Some(T)}]
  BY <1>1 DEF Sums
<1> DEFINE Bad == {T \in SUBSET S : ~(sum[T] \in Nat)}
<1>2. Bad = {}
  <2> SUFFICES ASSUME Bad # {} PROVE FALSE
    OBVIOUS
  <2>0. Bad \subseteq SUBSET S
    OBVIOUS
  <2>1. PICK T \in Bad : \A U \in Bad : U \subseteq T => U = T
    <3> HIDE DEF Bad
    <3>1. QED
      BY <2>0, Minimal
  <2>s. T \in SUBSET S
    BY <2>1
  <2>2. T # {}
    <3>1. ASSUME T = {}
          PROVE  sum[T] = 0
      BY <1>s1, <2>s, <3>1
    <3>2. QED
      BY <2>1, <3>1
  <2>3. PICK x \in T, U \in SUBSET S : x = Some(T) /\ U = T \ {x}
    BY <1>s1, <2>s, <2>2
  <2>4. U \notin Bad /\ IsFiniteSet(T) /\ IsFiniteSet(U)
    BY <2>1, <2>3, FS_Subset
  <2>5. sum[T] = f[x] + sum[U]
    BY <1>s1, <2>s, <2>2, <2>3
  <2>6. QED
    BY <2>1, <2>3, <2>4, <2>5
<1>3. QED
  BY <1>1, <1>2

\* Where no summand is less, the sum is not.
LEMMA SumMonotone ==
    ASSUME NEW f, NEW g, NEW S, IsFiniteSet(S),
           \A x \in S : f[x] \in Nat /\ g[x] \in Nat /\ f[x] <= g[x]
    PROVE  SumFunctionOnSet(f, S) <= SumFunctionOnSet(g, S)
<1>0. PICK a : SumFunctionOnSet(f, S) = a[S] /\ Sums(f, S, a)
  BY SumIs, Zenon
<1>s0. /\ a[{}] = 0
      /\ \A T \in SUBSET S :
            T # {} => Some(T) \in T /\ a[T] = f[Some(T)] + a[T \ {Some(T)}]
  BY <1>0 DEF Sums
<1>1. PICK b : SumFunctionOnSet(g, S) = b[S] /\ Sums(g, S, b)
  BY SumIs, Zenon
<1>s1. /\ b[{}] = 0
      /\ \A T \in SUBSET S :
            T # {} => Some(T) \in T /\ b[T] = g[Some(T)] + b[T \ {Some(T)}]
  BY <1>1 DEF Sums
<1> DEFINE Bad == {T \in SUBSET S : ~(a[T] \in Nat /\ b[T] \in Nat /\ a[T] <= b[T])}
<1>2. Bad = {}
  <2> SUFFICES ASSUME Bad # {} PROVE FALSE
    OBVIOUS
  <2>0. Bad \subseteq SUBSET S
    OBVIOUS
  <2>1. PICK T \in Bad : \A U \in Bad : U \subseteq T => U = T
    <3> HIDE DEF Bad
    <3>1. QED
      BY <2>0, Minimal
  <2>s. T \in SUBSET S
    BY <2>1
  <2>2. T # {}
    <3>1. T = {} => a[T] = 0
      BY <1>s0, <2>s
    <3>2. T = {} => b[T] = 0
      BY <1>s1, <2>s
    <3>3. QED
      BY <1>s0, <1>s1, <2>1, <3>1, <3>2
  <2>3. PICK x \in T, U \in SUBSET S : x = Some(T) /\ U = T \ {x}
    BY <1>s1, <2>s, <2>2
  <2>4. U \notin Bad /\ IsFiniteSet(T) /\ IsFiniteSet(U)
    BY <2>1, <2>3, FS_Subset
  <2>5. a[T] = f[x] + a[U]
    BY <1>s0, <2>s, <2>2, <2>3
  <2>6. b[T] = g[x] + b[U]
    BY <1>s1, <2>s, <2>2, <2>3
  <2>7. a[U] \in Nat /\ b[U] \in Nat /\ a[U] <= b[U]
    BY <2>3, <2>4
  <2>8. f[x] \in Nat /\ g[x] \in Nat /\ f[x] <= g[x]
    BY <2>1, <2>3
  <2>9. QED
    BY <2>1, <2>5, <2>6, <2>7, <2>8
<1>3. QED
  BY <1>0, <1>1, <1>2

\* A sum is at most as many times the bound of its summands.
LEMMA SumBounded ==
    ASSUME NEW f, NEW S, IsFiniteSet(S), NEW bound \in Nat,
           \A x \in S : f[x] \in Nat /\ f[x] <= bound
    PROVE  SumFunctionOnSet(f, S) <= bound * Cardinality(S)
<1>1. PICK sum : SumFunctionOnSet(f, S) = sum[S] /\ Sums(f, S, sum)
  BY SumIs, Zenon
<1>s1. /\ sum[{}] = 0
      /\ \A T \in SUBSET S :
            T # {} => Some(T) \in T /\ sum[T] = f[Some(T)] + sum[T \ {Some(T)}]
  BY <1>1 DEF Sums
<1> DEFINE Bad == {T \in SUBSET S : ~(sum[T] \in Nat /\ sum[T] <= bound * Cardinality(T))}
<1>2. Bad = {}
  <2> SUFFICES ASSUME Bad # {} PROVE FALSE
    OBVIOUS
  <2>0. Bad \subseteq SUBSET S
    OBVIOUS
  <2>1. PICK T \in Bad : \A U \in Bad : U \subseteq T => U = T
    <3> HIDE DEF Bad
    <3>1. QED
      BY <2>0, Minimal
  <2>s. T \in SUBSET S
    BY <2>1
  <2>2. T # {}
    <3>1. ASSUME T = {}
          PROVE  sum[T] = 0 /\ Cardinality(T) = 0
      BY <1>s1, <2>s, <3>1, FS_EmptySet
    <3>2. QED
      BY <2>1, <3>1
  <2>3. PICK x \in T, U \in SUBSET S : x = Some(T) /\ U = T \ {x}
    BY <1>s1, <2>s, <2>2
  <2>4. U \notin Bad /\ IsFiniteSet(T) /\ IsFiniteSet(U)
    BY <2>1, <2>3, FS_Subset
  <2>5. sum[T] = f[x] + sum[U]
    BY <1>s1, <2>s, <2>2, <2>3
  <2>6. PICK n \in Nat : n = Cardinality(U) /\ Cardinality(T) = n + 1
    BY <2>3, <2>4, FS_RemoveElement, FS_CardinalityType
  <2>7. sum[U] \in Nat /\ sum[U] <= bound * n /\ f[x] \in Nat /\ f[x] <= bound
    BY <2>1, <2>3, <2>4, <2>6
  <2>8. bound * (n + 1) = bound * n + bound
    OBVIOUS
  <2>9. sum[T] \in Nat /\ sum[T] <= bound * (n + 1)
    BY <2>5, <2>7, <2>8
  <2>10. QED
    BY <2>1, <2>6, <2>9
<1>3. QED
  BY <1>1, <1>2

\* One summand that is not zero makes a sum that is not.
LEMMA SumPositive ==
    ASSUME NEW f, NEW S, IsFiniteSet(S), \A x \in S : f[x] \in Nat,
           NEW y \in S, f[y] > 0
    PROVE  SumFunctionOnSet(f, S) > 0
<1>1. PICK sum : SumFunctionOnSet(f, S) = sum[S] /\ Sums(f, S, sum)
  BY SumIs, Zenon
<1>s1. /\ sum[{}] = 0
      /\ \A T \in SUBSET S :
            T # {} => Some(T) \in T /\ sum[T] = f[Some(T)] + sum[T \ {Some(T)}]
  BY <1>1 DEF Sums
<1> DEFINE Bad == {T \in SUBSET S : ~(sum[T] \in Nat /\ (y \in T => sum[T] > 0))}
<1>2. Bad = {}
  <2> SUFFICES ASSUME Bad # {} PROVE FALSE
    OBVIOUS
  <2>0. Bad \subseteq SUBSET S
    OBVIOUS
  <2>1. PICK T \in Bad : \A U \in Bad : U \subseteq T => U = T
    <3> HIDE DEF Bad
    <3>1. QED
      BY <2>0, Minimal
  <2>s. T \in SUBSET S
    BY <2>1
  <2>2. T # {}
    <3>1. T = {} => sum[T] = 0
      BY <1>s1, <2>s
    <3>2. QED
      BY <2>1, <3>1
  <2>3. PICK x \in T, U \in SUBSET S : x = Some(T) /\ U = T \ {x}
    BY <1>s1, <2>s, <2>2
  <2>4. U \notin Bad /\ IsFiniteSet(T) /\ IsFiniteSet(U)
    BY <2>1, <2>3, FS_Subset
  <2>5. sum[T] = f[x] + sum[U]
    BY <1>s1, <2>s, <2>2, <2>3
  <2>6. sum[U] \in Nat /\ f[x] \in Nat /\ (y \in U => sum[U] > 0)
    BY <2>1, <2>3, <2>4
  <2>7. y \in T => y = x \/ y \in U
    BY <2>3
  <2>8. QED
    BY <2>1, <2>5, <2>6, <2>7
<1>3. QED
  BY <1>1, <1>2
-----------------------------------------------------------------------------
(* Medians *)

LEMMA Maximum ==
    ASSUME NEW f, NEW ms, IsFiniteSet(ms), ms # {}, \A m \in ms : f[m] \in Nat
    PROVE  \E top \in ms : \A m \in ms : f[m] <= f[top]
<1> DEFINE Above(u) == {m \in ms : f[m] > f[u]}
           Ts == {Above(u) : u \in ms}
<1>1. PICK T \in Ts : \A U \in Ts : U \subseteq T => U = T
  <2>1. Ts \subseteq SUBSET ms /\ Ts # {}
    OBVIOUS
  <2> HIDE DEF Ts
  <2>2. QED
    BY <2>1, Minimal
<1>2. PICK u \in ms : T = Above(u)
  BY <1>1
<1>3. ASSUME NEW v \in ms, f[v] > f[u]
      PROVE  FALSE
  <2>1. v \in T /\ v \notin Above(v)
    BY <1>2, <1>3
  <2>2. Above(v) \subseteq T
    BY <1>2, <1>3
  <2>3. Above(v) = T
    BY <1>1, <2>2
  <2>4. QED
    BY <2>1, <2>3
<1>4. QED
  BY <1>3

\* The k-th smallest value that f has among ms.
KthOf(f, ms, k) == CHOOSE u \in {f[m] : m \in ms} :
    /\ Cardinality({m \in ms : f[m] <= u}) >= k
    /\ Cardinality({m \in ms : f[m] < u}) < k

LEMMA KthExists ==
    ASSUME NEW f, NEW ms, IsFiniteSet(ms), \A m \in ms : f[m] \in Nat,
           NEW k \in 1..Cardinality(ms)
    PROVE  /\ \E m \in ms : KthOf(f, ms, k) = f[m]
           /\ Cardinality({m \in ms : f[m] <= KthOf(f, ms, k)}) >= k
           /\ Cardinality({m \in ms : f[m] < KthOf(f, ms, k)}) < k
<1> DEFINE UpTo(u) == {m \in ms : f[m] <= f[u]}
           Below(u) == {m \in ms : f[m] < f[u]}
           Us == {u \in ms : Cardinality(UpTo(u)) >= k}
           Ts == {UpTo(u) : u \in Us}
<1>0. Cardinality(ms) \in Nat /\ k \in Nat /\ k >= 1 /\ k <= Cardinality(ms) /\ ms # {}
  BY FS_CardinalityType, FS_EmptySet
<1>1. PICK T \in Ts : \A U \in Ts : U \subseteq T => U = T
  <2>1. PICK top \in ms : \A m \in ms : f[m] <= f[top]
    BY <1>0, Maximum
  <2>2. UpTo(top) = ms
    BY <2>1
  <2>3. Ts \subseteq SUBSET ms /\ Ts # {}
    BY <1>0, <2>2
  <2> HIDE DEF Ts
  <2>4. QED
    BY <2>3, Minimal
<1>2. PICK u \in Us : T = UpTo(u)
  BY <1>1
<1>3. Cardinality(Below(u)) < k
  <2>0. Below(u) \in SUBSET ms
    OBVIOUS
  <2>1. IsFiniteSet(Below(u)) /\ Cardinality(Below(u)) \in Nat
    BY <2>0, FS_Subset, FS_CardinalityType
  <2>2. ASSUME Cardinality(Below(u)) >= k
        PROVE  FALSE
    <3>1. Below(u) # {}
      BY <1>0, <2>2, FS_EmptySet
    <3>2. \A m \in Below(u) : f[m] \in Nat
      OBVIOUS
    <3>3. PICK v \in Below(u) : \A m \in Below(u) : f[m] <= f[v]
      <4> HIDE DEF Below
      <4>1. QED
        BY <2>1, <3>1, <3>2, Maximum
    <3>4. UpTo(v) = Below(u)
      BY <3>3
    <3>5. v \in Us
      BY <2>2, <3>4
    <3>6. UpTo(v) \subseteq T /\ u \in T /\ u \notin UpTo(v)
      BY <1>2, <3>4
    <3>7. QED
      BY <1>1, <3>5, <3>6
  <2>3. QED
    BY <1>0, <2>1, <2>2
<1>4. \E w \in {f[m] : m \in ms} :
         /\ Cardinality({m \in ms : f[m] <= w}) >= k
         /\ Cardinality({m \in ms : f[m] < w}) < k
  BY <1>2, <1>3
<1>5. /\ KthOf(f, ms, k) \in {f[m] : m \in ms}
      /\ Cardinality({m \in ms : f[m] <= KthOf(f, ms, k)}) >= k
      /\ Cardinality({m \in ms : f[m] < KthOf(f, ms, k)}) < k
  BY <1>4, Zenon DEF KthOf
<1>6. QED
  BY <1>5

\* Where no value is less, the k-th smallest is not.
LEMMA KthMonotone ==
    ASSUME NEW f, NEW g, NEW ms, IsFiniteSet(ms),
           \A m \in ms : f[m] \in Nat /\ g[m] \in Nat /\ f[m] <= g[m],
           NEW k \in 1..Cardinality(ms)
    PROVE  KthOf(f, ms, k) <= KthOf(g, ms, k)
<1>0. (\A m \in ms : f[m] \in Nat) /\ (\A m \in ms : g[m] \in Nat)
  OBVIOUS
<1>1. PICK u \in Nat : u = KthOf(f, ms, k)
  BY <1>0, KthExists
<1>1b. Cardinality({m \in ms : f[m] < u}) < k
  BY <1>0, <1>1, KthExists
<1>2. PICK v \in Nat : v = KthOf(g, ms, k)
  BY <1>0, KthExists
<1>2b. Cardinality({m \in ms : g[m] <= v}) >= k
  BY <1>0, <1>2, KthExists
<1>3. ASSUME v < u
      PROVE  FALSE
  <2> DEFINE A == {m \in ms : g[m] <= v}
             B == {m \in ms : f[m] < u}
  <2>1. A \in SUBSET B /\ B \in SUBSET ms
    BY <1>3
  <2>2. IsFiniteSet(B)
    BY <2>1, FS_Subset
  <2>3. IsFiniteSet(A) /\ Cardinality(A) <= Cardinality(B)
    BY <2>1, <2>2, FS_Subset
  <2>4. Cardinality(A) \in Nat /\ Cardinality(B) \in Nat
    BY <2>2, <2>3, FS_CardinalityType
  <2>5. k \in Int /\ Cardinality(A) >= k /\ Cardinality(B) < k
    BY <1>1b, <1>2b
  <2> HIDE DEF A, B
  <2>6. QED
    BY <2>3, <2>4, <2>5
<1>4. QED
  BY <1>1, <1>2, <1>3

\* Twice a median is the sum of two of the values.
TwiceMedianOf(f, ms) ==
    KthOf(f, ms, (Cardinality(ms) + 1) \div 2) + KthOf(f, ms, Cardinality(ms) \div 2 + 1)

LEMMA MiddleRanks ==
    ASSUME NEW n \in Nat, n > 0
    PROVE  (n + 1) \div 2 \in 1..n /\ n \div 2 + 1 \in 1..n
OBVIOUS

LEMMA MedianIs ==
    ASSUME NEW f, NEW ms, IsFiniteSet(ms), ms # {}, \A m \in ms : f[m] \in Nat
    PROVE  \E a \in ms, b \in ms : TwiceMedianOf(f, ms) = f[a] + f[b]
<1>1. Cardinality(ms) \in Nat /\ Cardinality(ms) > 0
  BY FS_CardinalityType, FS_EmptySet
<1>2. PICK i \in 1..Cardinality(ms), j \in 1..Cardinality(ms) :
         i = (Cardinality(ms) + 1) \div 2 /\ j = Cardinality(ms) \div 2 + 1
  BY <1>1, MiddleRanks
<1>3. PICK a \in ms : KthOf(f, ms, i) = f[a]
  BY KthExists
<1>4. PICK b \in ms : KthOf(f, ms, j) = f[b]
  BY KthExists
<1>5. QED
  BY <1>2, <1>3, <1>4 DEF TwiceMedianOf

LEMMA MedianMonotone ==
    ASSUME NEW f, NEW g, NEW ms, IsFiniteSet(ms), ms # {},
           \A m \in ms : f[m] \in Nat /\ g[m] \in Nat /\ f[m] <= g[m]
    PROVE  TwiceMedianOf(f, ms) <= TwiceMedianOf(g, ms)
<1>1. Cardinality(ms) \in Nat /\ Cardinality(ms) > 0
  BY FS_CardinalityType, FS_EmptySet
<1>2. PICK i \in 1..Cardinality(ms), j \in 1..Cardinality(ms) :
         i = (Cardinality(ms) + 1) \div 2 /\ j = Cardinality(ms) \div 2 + 1
  BY <1>1, MiddleRanks
<1>3. PICK a \in Nat, b \in Nat : a = KthOf(f, ms, i) /\ b = KthOf(f, ms, j)
  BY KthExists
<1>4. PICK c \in Nat, d \in Nat : c = KthOf(g, ms, i) /\ d = KthOf(g, ms, j)
  BY KthExists
<1>5. a <= c /\ b <= d
  BY <1>3, <1>4, KthMonotone
<1>6. QED
  BY <1>2, <1>3, <1>4, <1>5 DEF TwiceMedianOf
-----------------------------------------------------------------------------
(* The months that count *)

LEMMA TwiceMedianIs ==
    ASSUME NEW ms
    PROVE  TwiceMedian(ms) = TwiceMedianOf(usage, ms)
BY Zenon DEF TwiceMedian, TwiceMedianOf, Ranked, KthOf

LEMMA MonthsFinite ==
    ASSUME TypeOK
    PROVE  /\ IsFiniteSet(Points) /\ IsFiniteSet(ActivePoints)
           /\ ActivePoints \subseteq Points
           /\ \A m \in Points : /\ m \in DOMAIN usage /\ usage[m] \in Nat
                                /\ Ago(m) \in 0..36
<1>1. Points \subseteq (now - 36)..now
  BY DEF TypeOK, Points, Ago
<1>2. IsFiniteSet((now - 36)..now)
  <2>1. now - 36 \in Int /\ now \in Int
    BY DEF TypeOK
  <2>2. QED
    BY <2>1, FS_Interval
<1>3. IsFiniteSet(Points)
  BY <1>1, <1>2, FS_Subset
<1>4. ActivePoints \in SUBSET Points
  BY DEF ActivePoints
<1>5. IsFiniteSet(ActivePoints)
  BY <1>3, <1>4, FS_Subset
<1>6. \A m \in Points : m \in DOMAIN usage /\ usage[m] \in Nat /\ Ago(m) \in 0..36
  BY DEF TypeOK, Points, Ago
<1>7. QED
  BY <1>3, <1>4, <1>5, <1>6

\* The used months among them, and twice their median.
LEMMA MedianOfUsed ==
    ASSUME TypeOK, Used(ActivePoints) # {}
    PROVE  \E a \in Used(ActivePoints), b \in Used(ActivePoints) :
              TwiceMedian(Used(ActivePoints)) = usage[a] + usage[b]
<1>1. Used(ActivePoints) \in SUBSET ActivePoints
  BY DEF Used
<1>2. IsFiniteSet(Used(ActivePoints)) /\ \A m \in Used(ActivePoints) : usage[m] \in Nat
  BY <1>1, MonthsFinite, FS_Subset
<1>3. TwiceMedian(Used(ActivePoints)) = TwiceMedianOf(usage, Used(ActivePoints))
  BY TwiceMedianIs
<1>4. \E a \in Used(ActivePoints), b \in Used(ActivePoints) :
         TwiceMedianOf(usage, Used(ActivePoints)) = usage[a] + usage[b]
  BY <1>2, MedianIs
<1>5. QED
  BY <1>3, <1>4

\* What a month contributes is twice its usage at most, thrice the median at most
\* once three months were used, and something if it was used.
LEMMA CappedIs ==
    ASSUME TypeOK, NEW m \in ActivePoints
    PROVE  /\ Capped(m) \in Nat /\ Capped(m) <= 2 * usage[m]
           /\ usage[m] > 0 => Capped(m) > 0
           /\ Cardinality(Used(ActivePoints)) >= 3 =>
                 Capped(m) <= 3 * TwiceMedian(Used(ActivePoints))
<1>1. usage[m] \in Nat
  BY MonthsFinite
<1>2. CASE Cardinality(Used(ActivePoints)) >= 3
  <2>1. Used(ActivePoints) # {}
    BY <1>2, FS_EmptySet
  <2>2. PICK a \in Used(ActivePoints), b \in Used(ActivePoints) :
           TwiceMedian(Used(ActivePoints)) = usage[a] + usage[b]
    BY <2>1, MedianOfUsed
  <2>3. usage[a] \in Nat /\ usage[a] > 0 /\ usage[b] \in Nat /\ usage[b] > 0
    BY MonthsFinite DEF Used
  <2>4. PICK t \in Nat : t = TwiceMedian(Used(ActivePoints)) /\ t > 0
    BY <2>2, <2>3
  <2>5. Capped(m) = IF 2 * usage[m] > 3 * t THEN 3 * t ELSE 2 * usage[m]
    BY <1>2, <2>4 DEF Capped, Spike
  <2>6. QED
    BY <1>1, <2>4, <2>5
<1>3. CASE ~(Cardinality(Used(ActivePoints)) >= 3)
  <2>1. Capped(m) = 2 * usage[m]
    BY <1>3 DEF Capped, Spike
  <2>2. QED
    BY <1>1, <1>3, <2>1
<1>4. QED
  BY <1>2, <1>3

Ages == {"recent", "middle", "old"}

LEMMA BucketIs ==
    ASSUME TypeOK, NEW b \in Ages
    PROVE  /\ IsFiniteSet(Bucket(b)) /\ Bucket(b) \subseteq ActivePoints
           /\ \A m \in Bucket(b) : Contribution[m] = Capped(m) /\ Contribution[m] \in Nat
           /\ SumFunctionOnSet(Contribution, Bucket(b)) \in Nat
           /\ InUse(b) \in Nat /\ Count(b) \in Nat \ {0} /\ Share(b) \in Nat
           /\ b \in Filled <=> InUse(b) > 0
           /\ b \in Filled => Count(b) = Cardinality(Bucket(b))
<1>1. Bucket(b) \in SUBSET ActivePoints
  BY DEF Bucket
<1>2. IsFiniteSet(Bucket(b))
  BY <1>1, MonthsFinite, FS_Subset
<1>3. \A m \in Bucket(b) : Contribution[m] = Capped(m) /\ Contribution[m] \in Nat
  BY <1>1, CappedIs DEF Contribution
<1>4. PICK sum \in Nat : sum = SumFunctionOnSet(Contribution, Bucket(b))
  BY <1>2, <1>3, SumNat
<1>5. InUse(b) \in Nat /\ (b \in Filled <=> InUse(b) > 0)
  BY DEF InUse, Weight, Ages
<1>6. Count(b) \in Nat \ {0} /\ (b \in Filled => Count(b) = Cardinality(Bucket(b)))
  <2>1. Cardinality(Bucket(b)) \in Nat
    BY <1>2, FS_CardinalityType
  <2>2. b \in Filled => Cardinality(Bucket(b)) # 0
    BY <1>2, FS_EmptySet DEF Filled
  <2>3. QED
    BY <2>1, <2>2 DEF Count
<1>7. Share(b) \in Nat
  BY <1>4, <1>5 DEF Share
<1>8. QED
  BY <1>1, <1>2, <1>3, <1>4, <1>5, <1>6, <1>7

\* The numbers a weighted velocity is made of.
Numerator ==
    Share("recent") * (Count("middle") * Count("old"))
  + Share("middle") * (Count("recent") * Count("old"))
  + Share("old") * (Count("recent") * Count("middle"))
Denominator ==
    (InUse("recent") + InUse("middle") + InUse("old"))
        * (Count("recent") * Count("middle") * Count("old"))

LEMMA Products ==
    ASSUME NEW a \in Int, NEW b \in Int, a <= b, NEW c \in Nat
    PROVE  a * c <= b * c
OBVIOUS

LEMMA PositiveProduct ==
    ASSUME NEW a \in Nat \ {0}, NEW b \in Nat \ {0}
    PROVE  a * b \in Nat \ {0}
OBVIOUS

LEMMA WeightedIs ==
    ASSUME TypeOK, Filled # {}
    PROVE  /\ Numerator \in Nat /\ Denominator \in Nat \ {0}
           /\ \A v \in Weighted : /\ v.num = Numerator /\ v.den = Denominator
                                  /\ v \in Twice
                                  /\ v.up => v.num > 0
<1>1. "recent" \in Ages /\ "middle" \in Ages /\ "old" \in Ages
  BY DEF Ages
<1>2. PICK cr \in Nat \ {0}, cm \in Nat \ {0}, co \in Nat \ {0} :
         cr = Count("recent") /\ cm = Count("middle") /\ co = Count("old")
  BY <1>1, BucketIs
<1>3. PICK sr \in Nat, sm \in Nat, so \in Nat :
         sr = Share("recent") /\ sm = Share("middle") /\ so = Share("old")
  BY <1>1, BucketIs
<1>4. PICK ir \in Nat, im \in Nat, io \in Nat :
         ir = InUse("recent") /\ im = InUse("middle") /\ io = InUse("old")
  BY <1>1, BucketIs
<1>5. Numerator \in Nat
  BY <1>2, <1>3 DEF Numerator
<1>6. ir + im + io \in Nat \ {0}
  <2>1. PICK b \in Ages : b \in Filled
    BY DEF Filled, Ages
  <2>2. InUse(b) > 0
    BY <2>1, BucketIs
  <2>3. QED
    BY <1>4, <2>2 DEF Ages
<1>7. Denominator \in Nat \ {0}
  <2>1. cr * cm * co \in Nat \ {0}
    BY PositiveProduct
  <2>2. (ir + im + io) * (cr * cm * co) \in Nat \ {0}
    BY <1>6, <2>1, PositiveProduct
  <2>3. QED
    BY <1>2, <1>4, <2>2 DEF Denominator
<1>8. Weighted =
         {[num |-> Numerator, den |-> Denominator, up |-> up] :
             up \in {FALSE} \cup (IF /\ Filled # {"recent"} /\ Numerator > 0
                                     /\ (2 * Numerator) % Denominator = 0
                                  THEN {TRUE} ELSE {})}
  BY Zenon DEF Weighted, Numerator, Denominator
<1>9. ASSUME NEW v \in Weighted
      PROVE  /\ v.num = Numerator /\ v.den = Denominator
             /\ v \in Twice /\ (v.up => v.num > 0)
  <2> HIDE DEF Numerator, Denominator
  <2>1. PICK up \in {FALSE} \cup (IF /\ Filled # {"recent"} /\ Numerator > 0
                                     /\ (2 * Numerator) % Denominator = 0
                                  THEN {TRUE} ELSE {}) :
           v = [num |-> Numerator, den |-> Denominator, up |-> up]
    BY <1>8
  <2>2. up \in BOOLEAN /\ (up => Numerator > 0)
    BY <2>1
  <2>3. QED
    BY <1>5, <1>7, <2>1, <2>2 DEF Twice
<1>10. QED
  BY <1>5, <1>7, <1>9

LEMMA VelocitiesAre ==
    ASSUME TypeOK, NEW v \in Velocities
    PROVE  /\ v \in Twice /\ (v.up => v.num > 0)
           /\ override > 0 => v = Exactly(2 * override)
<1>1. CASE override > 0
  <2>1. v = Exactly(2 * override) /\ 2 * override \in Nat
    BY <1>1 DEF Velocities, TypeOK
  <2>2. PICK n \in Nat : n = 2 * override
    BY <2>1
  <2>3. v = [num |-> n, den |-> 1, up |-> FALSE]
    BY <2>1, <2>2 DEF Exactly
  <2>4. v \in Twice
    BY <2>3 DEF Twice
  <2>5. ~v.up
    BY <2>3
  <2>6. QED
    BY <2>1, <2>4, <2>5
<1>2. CASE ~(override > 0) /\ Filled = {}
  <2>1. Weighted = {Exactly(0)}
    BY <1>2 DEF Weighted
  <2>2. v = [num |-> 0, den |-> 1, up |-> FALSE]
    BY <1>2, <2>1 DEF Velocities, Exactly
  <2>3. QED
    BY <1>2, <2>2 DEF Twice
<1>3. CASE ~(override > 0) /\ Filled # {}
  BY <1>3, WeightedIs DEF Velocities
<1>4. QED
  BY <1>1, <1>2, <1>3
-----------------------------------------------------------------------------
(* The invariant *)

LEMMA SuggestedIs ==
    ASSUME TypeOK
    PROVE  /\ ToCover \in Twice
           /\ Suggested \in Nat
           /\ Suggested > 0 => Suggested = CeilLess(ToCover, stock + Incoming)
<1>1. \A n \in Nat : Exactly(n) \in Twice
  BY DEF Exactly, Twice
<1>2. ToCover \in Twice
  <2>1. target \in Nat /\ 2 * override \in Nat /\ rop \in Nat /\ velocity \in Twice
    BY DEF TypeOK
  <2>2. PlanVelocity \in Twice
    BY <1>1, <2>1 DEF PlanVelocity
  <2>3. QED
    BY <1>1, <2>1, <2>2 DEF ToCover
<1>3. stock + Incoming \in Int
  BY DEF TypeOK, Incoming
<1>4. CeilLess(ToCover, stock + Incoming) \in Int
  BY <1>2, <1>3, CeilLessBounds
<1>5. QED
  BY <1>2, <1>4 DEF Suggested, Missing, AtLeast0

\* What a plan reads.
planned == <<usage, override, target, rop, velocity, shelf, stock, onOrder, overdue>>

LEMMA SameSuggestion ==
    ASSUME UNCHANGED planned
    PROVE  Suggested' = Suggested /\ (BooksTell' <=> BooksTell)
<1>1. ToCover' = ToCover
  BY DEF planned, ToCover, Manual, PlanVelocity
<1>2. BelowROP' = BelowROP /\ Incoming' = Incoming /\ stock' = stock
  BY DEF planned, BelowROP, Incoming
<1>3. Missing(ToCover, stock, Incoming)' = Missing(ToCover, stock, Incoming)
  BY <1>1, <1>2 DEF Missing
<1>4. QED
  BY <1>2, <1>3 DEF planned, Suggested, BooksTell

\* After a change no page holds.
LEMMA Forgotten ==
    ASSUME TypeOK, Forget
    PROVE  /\ page' \in [Handlers -> [suggested : Nat, told : BOOLEAN]]
           /\ PagesTell'
<1>1. ASSUME NEW h \in Handlers
      PROVE  /\ page'[h] \in [suggested : Nat, told : BOOLEAN]
             /\ ~page'[h].told
  <2>1. page[h] \in [suggested : Nat, told : BOOLEAN]
    BY DEF TypeOK
  <2>2. page'[h] = [page[h] EXCEPT !.told = FALSE]
    BY DEF Forget
  <2>3. QED
    BY <2>1, <2>2
<1>2. QED
  BY <1>1 DEF Forget, PagesTell

LEMMA InitIInv ==
    ASSUME Init
    PROVE  IInv
<1> USE ReorderAssumption
<1>1. DOMAIN usage \subseteq Nat /\ usage \in [DOMAIN usage -> Nat] /\ target \in Nat
  BY DEF Init
<1>2. velocity \in Twice
  BY DEF Init, Exactly, Twice
<1>3. shelf \in 0..MaxShelf /\ stock \in 0..MaxShelf
  BY DEF Init
<1>4. page \in [Handlers -> [suggested : Nat, told : BOOLEAN]]
  BY DEF Init, NoPage
<1>n. now \in Nat \ {0} /\ override \in Nat /\ rop \in Nat
  BY DEF Init
<1>o. onOrder \in 0..MaxOrder /\ overdue \in 0..MaxOrder
  BY DEF Init
<1>b. byHand \in BOOLEAN
  BY DEF Init
<1>5. TypeOK
  BY <1>n, <1>o, <1>b, <1>1, <1>2, <1>3, <1>4, Zenon DEF TypeOK
<1>6. ROPTells
  BY DEF Init, ROPTells
<1>7. PagesTell
  BY DEF Init, NoPage, PagesTell
<1>8. QED
  BY <1>5, <1>6, <1>7 DEF IInv

LEMMA RecalcTells ==
    ASSUME TypeOK, RecalcROP
    PROVE  rop' \in Nat /\ velocity' \in Twice /\ ROPTells'
<1>1. PICK v \in Velocities : Recalculated(v)
  BY DEF RecalcROP
<1>2. v \in Twice /\ (v.up => v.num > 0) /\ (override > 0 => v = Exactly(2 * override))
  BY <1>1, VelocitiesAre
<1>3. CeilLess(v, 0) \in Nat /\ (v.num = 0 /\ ~v.up => CeilLess(v, 0) = 0)
  BY <1>2, CeilLessOfAll
<1>4. rop' = CeilLess(v, 0)
  BY <1>1 DEF Recalculated
<1>5. velocity' = IF rop' # rop \/ v.num > 0 THEN v ELSE velocity
  BY <1>1 DEF Recalculated
<1>6. v.num \in Nat
  BY <1>2 DEF Twice
<1>7. rop' > 0 => v.num > 0
  BY <1>2, <1>3, <1>4, <1>6
<1>8. rop' > 0 => velocity' = v
  BY <1>5, <1>7
<1>9. override' = override
  BY DEF RecalcROP
<1>10. ROPTells'
  BY <1>2, <1>4, <1>7, <1>8, <1>9 DEF ROPTells
<1>11. QED
  BY <1>2, <1>3, <1>4, <1>5, <1>10 DEF TypeOK

LEMMA ReplaceUsage ==
    ASSUME TypeOK, NEW m \in Nat, ReplaceMovements(m)
    PROVE  DOMAIN usage' \subseteq Nat /\ usage' \in [DOMAIN usage' -> Nat]
<1>1. DOMAIN usage \subseteq Nat /\ \A x \in DOMAIN usage : usage[x] \in Nat
  BY DEF TypeOK
<1>2. ASSUME NEW u \in Nat,
             usage' = [x \in (DOMAIN usage) \cup {m} |-> IF x = m THEN u ELSE usage[x]]
      PROVE  DOMAIN usage' \subseteq Nat /\ usage' \in [DOMAIN usage' -> Nat]
  BY <1>1, <1>2
<1>3. CASE usage' = [x \in (DOMAIN usage) \ {m} |-> usage[x]]
  BY <1>1, <1>3
<1>4. QED
  BY <1>2, <1>3, ReorderAssumption DEF ReorderAssumption, ReplaceMovements

LEMMA SameROP ==
    ASSUME ROPTells, UNCHANGED <<override, rop, velocity, byHand>>
    PROVE  ROPTells'
BY DEF ROPTells

LEMMA PlanTells ==
    ASSUME IInv, NEW h \in Handlers, Plan(h)
    PROVE  IInv'
<1>1. TypeOK /\ PagesTell /\ Suggested \in Nat
  BY SuggestedIs DEF IInv
<1>2. page' = [page EXCEPT ![h] = [suggested |-> Suggested, told |-> BooksTell]]
  BY DEF Plan
<1>3. Suggested' = Suggested /\ (BooksTell' <=> BooksTell)
  BY SameSuggestion DEF Plan, planned
<1>4. BooksTell \in BOOLEAN
  BY DEF BooksTell
<1>5. ASSUME NEW k \in Handlers
      PROVE  /\ page'[k] \in [suggested : Nat, told : BOOLEAN]
             /\ page'[k].told => page'[k].suggested = Suggested /\ BooksTell
  <2>1. CASE k = h
    <3>1. PICK n \in Nat, t \in BOOLEAN : n = Suggested /\ t = BooksTell
      BY <1>1, <1>4
    <3>2. page'[k] = [suggested |-> n, told |-> t]
      BY <1>1, <1>2, <2>1, <3>1 DEF TypeOK
    <3>3. QED
      BY <3>1, <3>2
  <2>2. CASE k # h
    <3>1. page'[k] = page[k]
      BY <1>1, <1>2, <2>2 DEF TypeOK
    <3>2. QED
      BY <1>1, <3>1 DEF TypeOK, PagesTell
  <2>3. QED
    BY <2>1, <2>2
<1>6. PagesTell'
  BY <1>3, <1>5 DEF PagesTell
<1>7. page' \in [Handlers -> [suggested : Nat, told : BOOLEAN]]
  BY <1>1, <1>2, <1>5 DEF TypeOK
<1>8. TypeOK'
  BY <1>1, <1>7 DEF TypeOK, Plan
<1>9. ROPTells'
  BY SameROP DEF IInv, Plan
<1>10. QED
  BY <1>6, <1>8, <1>9 DEF IInv

LEMMA OrderTells ==
    ASSUME IInv, NEW h \in Handlers, MarkOrdered(h)
    PROVE  IInv'
<1>1. TypeOK
  BY DEF IInv
<1>2. ASSUME NEW k \in Handlers
      PROVE  /\ page'[k] \in [suggested : Nat, told : BOOLEAN]
             /\ ~page'[k].told
  <2>1. page[k] \in [suggested : Nat, told : BOOLEAN]
    BY <1>1 DEF TypeOK
  <2>2. page'[k] = IF k = h THEN NoPage ELSE [page[k] EXCEPT !.told = FALSE]
    BY DEF MarkOrdered
  <2>3. CASE k = h
    BY <2>2, <2>3 DEF NoPage
  <2>4. CASE k # h
    BY <2>1, <2>2, <2>4
  <2>5. QED
    BY <2>3, <2>4
<1>3. page' \in [Handlers -> [suggested : Nat, told : BOOLEAN]] /\ PagesTell'
  BY <1>2 DEF MarkOrdered, PagesTell
<1>4. onOrder' \in 0..MaxOrder
  <2>1. page[h].suggested \in Nat /\ onOrder \in Nat
    BY <1>1 DEF TypeOK
  <2>2. onOrder' = onOrder + page[h].suggested /\ onOrder' <= MaxOrder
    BY DEF MarkOrdered
  <2>3. QED
    BY <2>1, <2>2
<1>5. TypeOK'
  BY <1>1, <1>3, <1>4 DEF TypeOK, MarkOrdered
<1>6. ROPTells'
  BY SameROP DEF IInv, MarkOrdered
<1>7. QED
  BY <1>3, <1>5, <1>6 DEF IInv

LEMMA NextIInv ==
    ASSUME IInv, [Next]_vars
    PROVE  IInv'
<1> USE ReorderAssumption
<1>0. TypeOK /\ ROPTells /\ PagesTell
  BY DEF IInv
<1>1. CASE RecalcROP
  <2>1. page' \in [Handlers -> [suggested : Nat, told : BOOLEAN]] /\ PagesTell'
    BY <1>0, <1>1, Forgotten DEF RecalcROP
  <2>2. rop' \in Nat /\ velocity' \in Twice /\ ROPTells'
    BY <1>0, <1>1, RecalcTells
  <2>3. TypeOK'
    BY <1>0, <1>1, <2>1, <2>2 DEF RecalcROP, TypeOK
  <2>4. QED
    BY <2>1, <2>2, <2>3 DEF IInv
<1>2. CASE ImportStock
  <2>1. page' \in [Handlers -> [suggested : Nat, told : BOOLEAN]] /\ PagesTell'
    BY <1>0, <1>2, Forgotten DEF ImportStock
  <2>2. ROPTells'
    BY <1>0, <1>2, SameROP DEF ImportStock
  <2>3. TypeOK'
    BY <1>0, <1>2, <2>1 DEF ImportStock, TypeOK
  <2>4. QED
    BY <2>1, <2>2, <2>3 DEF IInv
<1>3. CASE Consume
  <2>1. page' \in [Handlers -> [suggested : Nat, told : BOOLEAN]] /\ PagesTell'
    BY <1>0, <1>3, Forgotten DEF Consume
  <2>2. ROPTells'
    BY <1>0, <1>3, SameROP DEF Consume
  <2>3. TypeOK'
    BY <1>0, <1>3, <2>1 DEF Consume, TypeOK
  <2>4. QED
    BY <2>1, <2>2, <2>3 DEF IInv
<1>4. CASE MarkDelivered
  <2>1. page' \in [Handlers -> [suggested : Nat, told : BOOLEAN]] /\ PagesTell'
    BY <1>0, <1>4, Forgotten DEF MarkDelivered
  <2>2. ROPTells'
    BY <1>0, <1>4, SameROP DEF MarkDelivered
  <2>3. TypeOK'
    BY <1>0, <1>4, <2>1 DEF MarkDelivered, TypeOK
  <2>4. QED
    BY <2>1, <2>2, <2>3 DEF IInv
<1>5. CASE Expire
  <2>1. page' \in [Handlers -> [suggested : Nat, told : BOOLEAN]] /\ PagesTell'
    BY <1>0, <1>5, Forgotten DEF Expire
  <2>2. ROPTells'
    BY <1>0, <1>5, SameROP DEF Expire
  <2>3. TypeOK'
    BY <1>0, <1>5, <2>1 DEF Expire, TypeOK
  <2>4. QED
    BY <2>1, <2>2, <2>3 DEF IInv
<1>6. ASSUME NEW m \in Months, ReplaceMovements(m)
      PROVE  IInv'
  <2>0. DOMAIN usage' \subseteq Nat /\ usage' \in [DOMAIN usage' -> Nat]
    BY <1>0, <1>6, ReplaceUsage
  <2>1. page' \in [Handlers -> [suggested : Nat, told : BOOLEAN]] /\ PagesTell'
    BY <1>0, <1>6, Forgotten DEF ReplaceMovements
  <2>2. ROPTells'
    BY <1>0, <1>6, SameROP DEF ReplaceMovements
  <2>3. TypeOK'
    BY <1>0, <1>6, <2>1, <2>0 DEF ReplaceMovements, TypeOK
  <2>4. QED
    BY <2>1, <2>2, <2>3 DEF IInv
<1>7. ASSUME NEW v \in Overrides, EditOverride(v)
      PROVE  IInv'
  <2>1. page' \in [Handlers -> [suggested : Nat, told : BOOLEAN]] /\ PagesTell'
    BY <1>0, <1>7, Forgotten DEF EditOverride
  <2>2. ROPTells'
    BY <1>7 DEF EditOverride, ROPTells
  <2>3. TypeOK'
    BY <1>0, <1>7, <2>1 DEF EditOverride, TypeOK
  <2>4. QED
    BY <2>1, <2>2, <2>3 DEF IInv
<1>8. ASSUME NEW v \in Overrides, EditROP(v)
      PROVE  IInv'
  <2>1. page' \in [Handlers -> [suggested : Nat, told : BOOLEAN]] /\ PagesTell'
    BY <1>0, <1>8, Forgotten DEF EditROP
  <2>2. ROPTells'
    BY <1>8 DEF EditROP, ROPTells
  <2>3. TypeOK'
    BY <1>0, <1>8, <2>1 DEF EditROP, TypeOK
  <2>4. QED
    BY <2>1, <2>2, <2>3 DEF IInv
<1>9. ASSUME NEW n \in Waits, MonthsPass(n)
      PROVE  IInv'
  <2>1. page' \in [Handlers -> [suggested : Nat, told : BOOLEAN]] /\ PagesTell'
    BY <1>0, <1>9, Forgotten DEF MonthsPass
  <2>2. ROPTells'
    BY <1>0, <1>9, SameROP DEF MonthsPass
  <2>3. TypeOK'
    BY <1>0, <1>9, <2>1 DEF MonthsPass, TypeOK
  <2>4. QED
    BY <2>1, <2>2, <2>3 DEF IInv
<1>10. CASE UNCHANGED vars
  <2>1. Suggested' = Suggested /\ (BooksTell' <=> BooksTell)
    BY <1>10, SameSuggestion DEF vars, planned
  <2>2. PagesTell'
    BY <1>0, <1>10, <2>1 DEF vars, PagesTell
  <2>3. ROPTells'
    BY <1>0, <1>10, SameROP DEF vars
  <2>4. TypeOK'
    BY <1>0, <1>10 DEF vars, TypeOK
  <2>5. QED
    BY <2>2, <2>3, <2>4 DEF IInv
<1>11. QED
  BY <1>1, <1>2, <1>3, <1>4, <1>5, <1>6, <1>7, <1>8, <1>9, <1>10, PlanTells, OrderTells
  DEF Next

\* The invariant holds: shapes are kept, a reorder point nobody edited is two months
\* of its velocity, and a page that holds shows what would be suggested now.
THEOREM InductiveInvariant == Spec => []IInv
<1>1. Init => IInv
  BY InitIInv
<1>2. IInv /\ [Next]_vars => IInv'
  BY NextIInv
<1>3. QED
  BY <1>1, <1>2, PTL DEF Spec

\* Every variable keeps its shape.
THEOREM TypeCorrect == Spec => []TypeOK
<1>1. IInv => TypeOK
  BY DEF IInv
<1>2. QED
  BY <1>1, InductiveInvariant, PTL
-----------------------------------------------------------------------------
(* What is suggested, and what an order of it brings *)

LEMMA NoneHidden ==
    ASSUME IInv
    PROVE  NeverHidden
<1> SUFFICES ASSUME ~byHand, ~Manual, BelowROP, stock + Incoming <= 2 * (rop - 1)
             PROVE  Suggested > 0
  BY DEF NeverHidden, Incoming
<1>1. rop > 0 /\ velocity \in Twice /\ stock + Incoming \in Int
  BY DEF IInv, TypeOK, BelowROP, Incoming
<1>2. /\ rop = CeilLess(velocity, 0) /\ velocity.num > 0
      /\ override > 0 => velocity = Exactly(2 * override)
  BY <1>1 DEF IInv, ROPTells
<1>3. ToCover = velocity
  BY <1>2 DEF ToCover, PlanVelocity
<1>4. CeilLess(velocity, stock + Incoming) > 0
  BY <1>1, <1>2, CeilLessPositive
<1>5. CeilLess(velocity, stock + Incoming) \in Int
  BY <1>1, CeilLessBounds
<1>6. QED
  BY <1>3, <1>4, <1>5 DEF Suggested, Missing, AtLeast0

\* NeverHidden holds of every history: rounding to whole units never makes an item
\* that is a unit short or more, with nothing on order, look covered.
THEOREM NothingHidden == Spec => []NeverHidden
BY InductiveInvariant, NoneHidden, PTL

LEMMA OrderCovers ==
    ASSUME IInv, NEW h \in Handlers, MarkOrdered(h), page[h].told
    PROVE  /\ ToCover.den * Really' >= 2 * ToCover.num
           /\ ToCover.den * (Really' - 2) <= 2 * ToCover.num
<1>1. TypeOK
  BY DEF IInv
<1>2. page[h].suggested = Suggested /\ stock = shelf /\ overdue = 0
  BY DEF IInv, PagesTell, BooksTell
<1>3. PICK num \in Nat, den \in Nat \ {0} : num = ToCover.num /\ den = ToCover.den
  BY <1>1, SuggestedIs DEF Twice
<1>4. PICK halves \in Int : halves = stock + Incoming
  BY <1>1 DEF TypeOK, Incoming
<1>5. PICK c \in Int : /\ c = Suggested
                       /\ 2 * den * c >= 2 * num - halves * den
                       /\ 2 * den * c <= 2 * num - halves * den + 2 * den
  <2>1. ToCover \in Twice /\ Suggested > 0
    BY <1>1, <1>2, SuggestedIs DEF MarkOrdered
  <2>2. Suggested = CeilLess(ToCover, halves)
    BY <1>1, <1>4, <2>1, SuggestedIs
  <2>3. QED
    BY <1>3, <2>1, <2>2, CeilLessBounds
<1>6. Really' = halves + 2 * c
  <2>1. shelf' = shelf /\ overdue' = 0 /\ onOrder' = onOrder + c
    BY <1>2, <1>5 DEF MarkOrdered
  <2>2. halves = shelf + 2 * onOrder
    BY <1>2, <1>4 DEF Incoming
  <2>3. onOrder \in Nat /\ shelf \in Nat
    BY <1>1 DEF TypeOK
  <2>4. QED
    BY <2>1, <2>2, <2>3 DEF Really
<1>7. /\ den * (halves + 2 * c) = halves * den + 2 * den * c
      /\ den * (halves + 2 * c - 2) = halves * den + 2 * den * c - 2 * den
  OBVIOUS
<1>8. PICK p \in Int, q \in Int : p = halves * den /\ q = 2 * den * c
  OBVIOUS
<1>9. QED
  BY <1>3, <1>5, <1>6, <1>7, <1>8

\* OrdersWhatIsMissing holds of every history: an order from a page that still holds
\* brings what there is and what is under way to two months of velocity, and no more
\* than a unit beyond.
THEOREM OrdersCover == Spec => OrdersWhatIsMissing
<1>1. ASSUME IInv
      PROVE  \A h \in Handlers : MarkOrdered(h) /\ page[h].told =>
                /\ ToCover.den * Really' >= 2 * ToCover.num
                /\ ToCover.den * (Really' - 2) <= 2 * ToCover.num
  BY <1>1, OrderCovers
<1>2. QED
  BY <1>1, InductiveInvariant, PTL DEF Spec, OrdersWhatIsMissing

-----------------------------------------------------------------------------
(* The velocity *)

\* A bound of what the months contribute is one of their average.
LEMMA ShareBounded ==
    ASSUME TypeOK, NEW bound \in Nat, \A m \in ActivePoints : Capped(m) <= bound,
           NEW b \in Ages
    PROVE  Share(b) <= bound * (InUse(b) * Count(b))
<1>1. CASE b \in Filled
  <2>1. \A m \in Bucket(b) : Contribution[m] \in Nat /\ Contribution[m] <= bound
    BY BucketIs
  <2>2. SumFunctionOnSet(Contribution, Bucket(b)) <= bound * Cardinality(Bucket(b))
    BY <2>1, BucketIs, SumBounded
  <2>3. PICK sum \in Nat, use \in Nat, n \in Nat :
           /\ sum = SumFunctionOnSet(Contribution, Bucket(b))
           /\ use = InUse(b) /\ n = Count(b)
    BY BucketIs
  <2>4. sum <= bound * n
    BY <1>1, <2>2, <2>3, BucketIs
  <2>5. bound * n \in Int
    OBVIOUS
  <2>6. sum * use <= (bound * n) * use
    BY <2>4, <2>5, Products
  <2>7. QED
    BY <2>3, <2>6 DEF Share
<1>2. CASE b \notin Filled
  <2>1. InUse(b) = 0
    BY <1>2 DEF InUse
  <2>2. SumFunctionOnSet(Contribution, Bucket(b)) \in Nat /\ Count(b) \in Nat
    BY BucketIs
  <2>3. QED
    BY <2>1, <2>2 DEF Share
<1>3. QED
  BY <1>1, <1>2

LEMMA WeightedBounded ==
    ASSUME TypeOK, Filled # {},
           NEW bound \in Nat, \A m \in ActivePoints : Capped(m) <= bound
    PROVE  Numerator <= bound * Denominator
<1>1. "recent" \in Ages /\ "middle" \in Ages /\ "old" \in Ages
  BY DEF Ages
<1>2. PICK cr \in Nat \ {0}, cm \in Nat \ {0}, co \in Nat \ {0} :
         cr = Count("recent") /\ cm = Count("middle") /\ co = Count("old")
  BY <1>1, BucketIs
<1>3. PICK sr \in Nat, sm \in Nat, so \in Nat :
         sr = Share("recent") /\ sm = Share("middle") /\ so = Share("old")
  BY <1>1, BucketIs
<1>4. PICK ir \in Nat, im \in Nat, io \in Nat :
         ir = InUse("recent") /\ im = InUse("middle") /\ io = InUse("old")
  BY <1>1, BucketIs
<1>5. sr <= bound * (ir * cr) /\ sm <= bound * (im * cm) /\ so <= bound * (io * co)
  BY <1>1, <1>2, <1>3, <1>4, ShareBounded
<1>6. PICK br \in Nat, bm \in Nat, bo \in Nat :
         br = bound * (ir * cr) /\ bm = bound * (im * cm) /\ bo = bound * (io * co)
  OBVIOUS
<1>7. PICK mo \in Nat, ro \in Nat, rm \in Nat :
         mo = cm * co /\ ro = cr * co /\ rm = cr * cm
  OBVIOUS
<1>8. sr * mo <= br * mo /\ sm * ro <= bm * ro /\ so * rm <= bo * rm
  BY <1>5, <1>6, Products
<1>9. br * mo + bm * ro + bo * rm = bound * ((ir + im + io) * (cr * cm * co))
  BY <1>6, <1>7
<1>10. Numerator = sr * mo + sm * ro + so * rm
  BY <1>2, <1>3, <1>7 DEF Numerator
<1>11. Denominator = (ir + im + io) * (cr * cm * co)
  BY <1>2, <1>4 DEF Denominator
<1>12. QED
  BY <1>8, <1>9, <1>10, <1>11

\* A month that was used and is in a bucket makes an average above zero.
LEMMA WeightedPositive ==
    ASSUME TypeOK, NEW m \in Used(Points), Ago(m) <= 35
    PROVE  Filled # {} /\ Numerator > 0
<1>1. m \in Points /\ usage[m] > 0 /\ m \in Nat /\ Ago(m) \in 0..35
  <2>1. m \in Points /\ usage[m] > 0
    BY DEF Used
  <2>2. Ago(m) \in 0..36 /\ m \in Nat
    BY <2>1, MonthsFinite DEF TypeOK
  <2>3. QED
    BY <2>1, <2>2
<1>2. m \in ActivePoints
  BY <1>1 DEF ActivePoints
<1>3. PICK b \in Ages : m \in Bucket(b)
  BY <1>1, <1>2 DEF Bucket, Ages
<1>4. b \in Filled
  BY <1>3 DEF Filled, Ages
<1>5. Share(b) > 0
  <2>1. Contribution[m] > 0
    BY <1>1, <1>2, <1>3, BucketIs, CappedIs
  <2>2. SumFunctionOnSet(Contribution, Bucket(b)) > 0
    BY <1>3, <2>1, BucketIs, SumPositive
  <2>3. PICK sum \in Nat \ {0}, use \in Nat \ {0} :
           sum = SumFunctionOnSet(Contribution, Bucket(b)) /\ use = InUse(b)
    BY <1>4, <2>2, BucketIs
  <2>4. use * sum \in Nat \ {0}
    BY PositiveProduct
  <2>5. QED
    BY <2>3, <2>4 DEF Share
<1>6. "recent" \in Ages /\ "middle" \in Ages /\ "old" \in Ages
  BY DEF Ages
<1>7. PICK cr \in Nat \ {0}, cm \in Nat \ {0}, co \in Nat \ {0} :
         cr = Count("recent") /\ cm = Count("middle") /\ co = Count("old")
  BY <1>6, BucketIs
<1>8. PICK sr \in Nat, sm \in Nat, so \in Nat :
         sr = Share("recent") /\ sm = Share("middle") /\ so = Share("old")
  BY <1>6, BucketIs
<1>9. PICK mo \in Nat \ {0}, ro \in Nat \ {0}, rm \in Nat \ {0} :
         mo = cm * co /\ ro = cr * co /\ rm = cr * cm
  BY PositiveProduct
<1>10. sr > 0 \/ sm > 0 \/ so > 0
  BY <1>5, <1>8 DEF Ages
<1>11. /\ sr * mo \in Nat /\ (sr > 0 => sr * mo > 0)
       /\ sm * ro \in Nat /\ (sm > 0 => sm * ro > 0)
       /\ so * rm \in Nat /\ (so > 0 => so * rm > 0)
  BY PositiveProduct
<1>12. Numerator = sr * mo + sm * ro + so * rm
  BY <1>7, <1>8, <1>9 DEF Numerator
<1>13. QED
  BY <1>4, <1>10, <1>11, <1>12
LEMMA RecalculatedVelocity ==
    ASSUME TypeOK, RecalcROP, velocity' # velocity, override = 0
    PROVE  velocity' \in Weighted
BY DEF RecalcROP, Recalculated, Velocities

LEMMA RecalculatedWithin ==
    ASSUME TypeOK, RecalcROP, velocity' # velocity, override = 0
    PROVE  /\ velocity'.num > 0 => \E m \in ActivePoints : AtMost(velocity', 2 * usage[m], 1)
           /\ Cardinality(Used(ActivePoints)) >= 3 =>
                 AtMost(velocity', 3 * TwiceMedian(Used(ActivePoints)), 1)
           /\ velocity'.num = 0 => \A m \in Used(Points) : Ago(m) > 35
<1>1. PICK v \in Weighted : v = velocity'
  BY RecalculatedVelocity
<1>2. CASE Filled = {}
  <2>1. v = [num |-> 0, den |-> 1, up |-> FALSE]
    BY <1>1, <1>2 DEF Weighted, Exactly
  <2>2. v.num = 0 /\ v.den = 1
    BY <2>1
  <2>3. ASSUME Cardinality(Used(ActivePoints)) >= 3
        PROVE  AtMost(v, 3 * TwiceMedian(Used(ActivePoints)), 1)
    <3>1. Used(ActivePoints) # {}
      BY <2>3, FS_EmptySet
    <3>2. PICK a \in Used(ActivePoints), b \in Used(ActivePoints) :
             TwiceMedian(Used(ActivePoints)) = usage[a] + usage[b]
      BY <3>1, MedianOfUsed
    <3>3. usage[a] \in Nat /\ usage[b] \in Nat
      BY MonthsFinite DEF Used
    <3>4. QED
      BY <2>2, <3>2, <3>3 DEF AtMost
  <2>4. ASSUME NEW m \in Used(Points)
        PROVE  Ago(m) > 35
    <3>1. ~(Ago(m) <= 35)
      BY <1>2, WeightedPositive
    <3>2. Ago(m) \in Int
      BY MonthsFinite DEF Used
    <3>3. QED
      BY <3>1, <3>2
  <2>5. QED
    BY <1>1, <2>2, <2>3, <2>4
<1>3. CASE Filled # {}
  <2>1. PICK num \in Nat, den \in Nat \ {0} :
           num = Numerator /\ den = Denominator /\ v.num = num /\ v.den = den
    BY <1>3, WeightedIs
  <2>2. \E m \in ActivePoints : AtMost(v, 2 * usage[m], 1)
    <3>1. ActivePoints # {}
      BY <1>3 DEF Filled, Bucket
    <3>2. IsFiniteSet(ActivePoints) /\ \A m \in ActivePoints : usage[m] \in Nat
      BY MonthsFinite
    <3>3. PICK top \in ActivePoints : \A m \in ActivePoints : usage[m] <= usage[top]
      BY <3>1, <3>2, Maximum
    <3>4. PICK bound \in Nat : bound = 2 * usage[top]
      BY <3>2
    <3>5. ASSUME NEW m \in ActivePoints
          PROVE  Capped(m) <= bound
      BY <3>2, <3>3, <3>4, CappedIs
    <3>6. num <= bound * den
      BY <1>3, <2>1, <3>5, WeightedBounded
    <3>7. AtMost(v, 2 * usage[top], 1)
      BY <2>1, <3>4, <3>6 DEF AtMost
    <3>8. QED
      BY <3>7
  <2>3. ASSUME Cardinality(Used(ActivePoints)) >= 3
        PROVE  AtMost(v, 3 * TwiceMedian(Used(ActivePoints)), 1)
    <3>1. Used(ActivePoints) # {}
      BY <2>3, FS_EmptySet
    <3>2. PICK a \in Used(ActivePoints), b \in Used(ActivePoints) :
             TwiceMedian(Used(ActivePoints)) = usage[a] + usage[b]
      BY <3>1, MedianOfUsed
    <3>3. usage[a] \in Nat /\ usage[b] \in Nat
      BY MonthsFinite DEF Used
    <3>4. PICK bound \in Nat : bound = 3 * TwiceMedian(Used(ActivePoints))
      BY <3>2, <3>3
    <3>5. ASSUME NEW m \in ActivePoints
          PROVE  Capped(m) <= bound
      BY <2>3, <3>4, CappedIs
    <3>6. num <= bound * den
      BY <1>3, <2>1, <3>5, WeightedBounded
    <3>7. QED
      BY <2>1, <3>4, <3>6 DEF AtMost
  <2>4. ASSUME num = 0, NEW m \in Used(Points)
        PROVE  Ago(m) > 35
    <3>1. ~(Ago(m) <= 35)
      BY <2>1, <2>4, WeightedPositive
    <3>2. Ago(m) \in Int
      BY MonthsFinite DEF Used
    <3>3. QED
      BY <3>1, <3>2
  <2>5. QED
    BY <1>1, <2>1, <2>2, <2>3, <2>4
<1>4. QED
  BY <1>2, <1>3

\* VelocityWithinReason holds of every history: no odd month carries a velocity past
\* the busiest month, or past three medians, and no item in use gets none.
THEOREM VelocityReasonable == Spec => VelocityWithinReason
<1>1. ASSUME IInv, [Next]_vars, velocity' # velocity
      PROVE  TypeOK /\ RecalcROP
  <2>1. TypeOK
    BY <1>1 DEF IInv
  <2>2. velocity' # velocity => RecalcROP
    BY <1>1 DEF Next, vars, ImportStock, Consume, MarkDelivered, Expire, ReplaceMovements,
                EditOverride, EditROP, Plan, MarkOrdered, MonthsPass
  <2>3. QED
    BY <1>1, <2>1, <2>2
<1>2. ASSUME IInv, [Next]_vars
      PROVE  velocity' # velocity /\ override = 0 =>
                /\ velocity'.num > 0 =>
                      \E m \in ActivePoints : AtMost(velocity', 2 * usage[m], 1)
                /\ Cardinality(Used(ActivePoints)) >= 3 =>
                      AtMost(velocity', 3 * TwiceMedian(Used(ActivePoints)), 1)
                /\ velocity'.num = 0 => \A m \in Used(Points) : Ago(m) > 35
  BY <1>1, <1>2, RecalculatedWithin
<1>3. QED
  BY <1>2, InductiveInvariant, PTL DEF Spec, VelocityWithinReason
\* A step that only raises the usage of months that were used.
OnlyRaised ==
    /\ now' = now /\ DOMAIN usage' = DOMAIN usage
    /\ \A m \in DOMAIN usage : usage'[m] # usage[m] => usage[m] > 0 /\ usage'[m] > usage[m]

\* It moves no month in or out, and from one bucket to another.
LEMMA SameMonths ==
    ASSUME TypeOK, TypeOK', OnlyRaised
    PROVE  /\ \A m \in DOMAIN usage : /\ usage[m] \in Nat /\ usage'[m] \in Nat
                                      /\ usage[m] <= usage'[m]
                                      /\ usage'[m] > 0 <=> usage[m] > 0
           /\ Points' = Points /\ ActivePoints' = ActivePoints
           /\ Used(ActivePoints)' = Used(ActivePoints)
           /\ Filled' = Filled
           /\ \A b \in Ages : /\ Bucket(b)' = Bucket(b)
                              /\ Count(b)' = Count(b) /\ InUse(b)' = InUse(b)
<1>1. \A m \in DOMAIN usage : /\ usage[m] \in Nat /\ usage'[m] \in Nat
                              /\ usage[m] <= usage'[m]
                              /\ usage'[m] > 0 <=> usage[m] > 0
  <2>1. \A m \in DOMAIN usage : usage[m] \in Nat /\ usage'[m] \in Nat
    BY DEF TypeOK, OnlyRaised
  <2>2. QED
    BY <2>1 DEF OnlyRaised
<1>2. Points' = Points
  BY DEF OnlyRaised, Points, Ago
<1>3. Points \subseteq DOMAIN usage /\ ActivePoints \subseteq Points
  BY DEF Points, ActivePoints
<1>4. Used(Points)' = Used(Points)
  BY <1>1, <1>2, <1>3 DEF Used
<1>5. ActivePoints' = ActivePoints
  BY <1>2, <1>4 DEF ActivePoints
<1>6. Used(ActivePoints)' = Used(ActivePoints)
  BY <1>1, <1>3, <1>5 DEF Used
<1>7. \A b \in Ages : Bucket(b)' = Bucket(b)
  BY <1>5 DEF Bucket, Ago, OnlyRaised
<1>8. Filled' = Filled
  BY <1>7 DEF Filled, Ages
<1>9. \A b \in Ages : Count(b)' = Count(b) /\ InUse(b)' = InUse(b)
  BY <1>7, <1>8 DEF Count, InUse
<1>10. QED
  BY <1>1, <1>2, <1>5, <1>6, <1>7, <1>8, <1>9

\* And no month then contributes less, although the cap may move.
LEMMA CappedGrows ==
    ASSUME TypeOK, TypeOK', OnlyRaised, NEW m \in ActivePoints
    PROVE  Capped(m) \in Nat /\ Capped(m)' \in Nat /\ Capped(m) <= Capped(m)'
<1> DEFINE U == Used(ActivePoints)
<1>1. U' = U
  BY SameMonths
<1>2. usage[m] \in Nat /\ usage'[m] \in Nat /\ usage[m] <= usage'[m]
  BY SameMonths, MonthsFinite
<1>3. CASE Cardinality(U) >= 3
  <2>1. U # {}
    BY <1>3, FS_EmptySet
  <2>2. IsFiniteSet(U)
    <3>1. U \in SUBSET ActivePoints
      BY DEF Used
    <3>2. QED
      BY <3>1, MonthsFinite, FS_Subset
  <2>3. \A k \in U : usage[k] \in Nat /\ usage'[k] \in Nat /\ usage[k] <= usage'[k]
    BY SameMonths, MonthsFinite DEF Used
  <2>4. /\ TwiceMedian(U) = TwiceMedianOf(usage, U)
        /\ TwiceMedian(U)' = TwiceMedianOf(usage', U)
    <3>1. TwiceMedian(U)' = TwiceMedianOf(usage', U')
      BY Zenon DEF TwiceMedian, TwiceMedianOf, Ranked, KthOf
    <3>2. QED
      BY <1>1, <3>1, TwiceMedianIs
  <2> HIDE DEF U
  <2>5. PICK a \in U, b \in U : TwiceMedianOf(usage, U) = usage[a] + usage[b]
    <3>1. \A k \in U : usage[k] \in Nat
      BY <2>3
    <3>2. QED
      BY <2>1, <2>2, <3>1, MedianIs
  <2>6. PICK c \in U, d \in U : TwiceMedianOf(usage', U) = usage'[c] + usage'[d]
    <3>1. \A k \in U : usage'[k] \in Nat
      BY <2>3
    <3>2. QED
      BY <2>1, <2>2, <3>1, MedianIs
  <2>7. PICK t \in Nat, w \in Nat :
           t = TwiceMedianOf(usage, U) /\ w = TwiceMedianOf(usage', U)
    BY <2>3, <2>5, <2>6
  <2>8. t <= w
    BY <2>1, <2>2, <2>3, <2>7, MedianMonotone
  <2>9. Capped(m) = IF 2 * usage[m] > 3 * t THEN 3 * t ELSE 2 * usage[m]
    BY <1>3, <2>4, <2>7 DEF Capped, Spike, U
  <2>10. Capped(m)' = IF 2 * usage'[m] > 3 * w THEN 3 * w ELSE 2 * usage'[m]
    BY <1>1, <1>3, <2>4, <2>7 DEF Capped, Spike, U
  <2>11. QED
    BY <1>2, <2>8, <2>9, <2>10
<1>4. CASE ~(Cardinality(U) >= 3)
  <2>1. Capped(m) = 2 * usage[m] /\ Capped(m)' = 2 * usage'[m]
    BY <1>1, <1>4 DEF Capped, Spike
  <2>2. QED
    BY <1>2, <2>1
<1>5. QED
  BY <1>3, <1>4

LEMMA ShareGrows ==
    ASSUME TypeOK, TypeOK', OnlyRaised, NEW b \in Ages
    PROVE  Share(b) \in Nat /\ Share(b)' \in Nat /\ Share(b) <= Share(b)'
<1>1. IsFiniteSet(Bucket(b)) /\ Bucket(b) \subseteq ActivePoints
  BY BucketIs
<1>2. ActivePoints' = ActivePoints /\ Bucket(b)' = Bucket(b) /\ InUse(b)' = InUse(b)
  BY SameMonths
<1>3. PICK f, g : f = Contribution /\ g = Contribution'
  OBVIOUS
<1>4. ASSUME NEW m \in Bucket(b)
      PROVE  f[m] \in Nat /\ g[m] \in Nat /\ f[m] <= g[m]
  <2>1. m \in ActivePoints
    BY <1>1
  <2>2. f[m] = Capped(m) /\ g[m] = Capped(m)'
    BY <1>2, <1>3, <2>1 DEF Contribution
  <2>3. QED
    BY <2>1, <2>2, CappedGrows
<1>5. (\A m \in Bucket(b) : f[m] \in Nat) /\ (\A m \in Bucket(b) : g[m] \in Nat)
  BY <1>4
<1>6. PICK before \in Nat, after \in Nat :
         /\ before = SumFunctionOnSet(f, Bucket(b)) /\ after = SumFunctionOnSet(g, Bucket(b))
         /\ before <= after
  BY <1>1, <1>4, <1>5, SumNat, SumMonotone
<1>7. PICK use \in Nat : use = InUse(b)
  BY BucketIs
<1>8. Share(b) = use * before /\ Share(b)' = use * after
  BY <1>2, <1>3, <1>6, <1>7 DEF Share
<1>9. before * use <= after * use
  BY <1>6, Products
<1>10. QED
  BY <1>8, <1>9

LEMMA WeightedGrows ==
    ASSUME TypeOK, TypeOK', OnlyRaised, NEW v \in Weighted, NEW w \in Weighted'
    PROVE  Compared(v, w)
<1>1. Filled' = Filled
  BY SameMonths
<1>2. CASE Filled = {}
  <2>1. v = [num |-> 0, den |-> 1, up |-> FALSE] /\ w = [num |-> 0, den |-> 1, up |-> FALSE]
    BY <1>1, <1>2 DEF Weighted, Exactly
  <2>2. QED
    BY <2>1 DEF Compared
<1>3. CASE Filled # {}
  <2>1. "recent" \in Ages /\ "middle" \in Ages /\ "old" \in Ages
    BY DEF Ages
  <2>2. PICK cr \in Nat \ {0}, cm \in Nat \ {0}, co \in Nat \ {0} :
           cr = Count("recent") /\ cm = Count("middle") /\ co = Count("old")
    BY <2>1, BucketIs
  <2>3. PICK sr \in Nat, sm \in Nat, so \in Nat :
           sr = Share("recent") /\ sm = Share("middle") /\ so = Share("old")
    BY <2>1, BucketIs
  <2>4. PICK tr \in Nat, tm \in Nat, to \in Nat :
           tr = Share("recent")' /\ tm = Share("middle")' /\ to = Share("old")'
    BY <2>1, ShareGrows
  <2>5. sr <= tr /\ sm <= tm /\ so <= to
    BY <2>1, <2>3, <2>4, ShareGrows
  <2>6. /\ Count("recent")' = cr /\ Count("middle")' = cm /\ Count("old")' = co
        /\ InUse("recent")' = InUse("recent") /\ InUse("middle")' = InUse("middle")
        /\ InUse("old")' = InUse("old")
    BY <2>1, <2>2, SameMonths
  <2>7. PICK mo \in Nat, ro \in Nat, rm \in Nat :
           mo = cm * co /\ ro = cr * co /\ rm = cr * cm
    OBVIOUS
  <2>8. sr * mo <= tr * mo /\ sm * ro <= tm * ro /\ so * rm <= to * rm
    BY <2>5, Products
  <2>9. PICK num \in Nat, more \in Int, den \in Nat \ {0} :
           num = Numerator /\ more = Numerator' /\ den = Denominator /\ num <= more
    <3>1. Numerator = sr * mo + sm * ro + so * rm
      BY <2>2, <2>3, <2>7 DEF Numerator
    <3>2. Numerator' = tr * mo + tm * ro + to * rm
      BY <2>4, <2>6, <2>7 DEF Numerator
    <3>3. Numerator \in Nat /\ Denominator \in Nat \ {0}
      BY <1>3, WeightedIs
    <3>4. Numerator' \in Int /\ Numerator <= Numerator'
      BY <2>8, <3>1, <3>2
    <3>5. QED
      BY <3>3, <3>4
  <2>10. Denominator' = den
    BY <2>2, <2>6, <2>9 DEF Denominator
  <2>11. v.num = num /\ v.den = den
    BY <1>3, <2>9, WeightedIs
  <2>12. w.num = more /\ w.den = den
    <3>0. Filled' # {}
      BY <1>1, <1>3
    <3>1. Weighted' =
             {[num |-> Numerator', den |-> Denominator', up |-> up] :
                 up \in {FALSE} \cup (IF /\ Filled' # {"recent"} /\ Numerator' > 0
                                         /\ (2 * Numerator') % Denominator' = 0
                                      THEN {TRUE} ELSE {})}
      BY <3>0, Zenon DEF Weighted, Numerator, Denominator
    <3>2. PICK up : w = [num |-> Numerator', den |-> Denominator', up |-> up]
      BY <3>1, Zenon
    <3>3. w = [num |-> more, den |-> den, up |-> up]
      BY <2>9, <2>10, <3>2
    <3>4. QED
      BY <3>3
  <2>13. num * den <= more * den
    <3>1. num \in Int /\ more \in Int /\ den \in Nat /\ num <= more
      BY <2>9
    <3>2. QED
      BY <3>1, Products
  <2>14. v.num * w.den = num * den /\ w.num * v.den = more * den
    BY <2>11, <2>12
  <2>15. QED
    BY <2>13, <2>14, Zenon DEF Compared
<1>4. QED
  BY <1>2, <1>3

\* MoreUsageNeverLess holds of every history: a report that corrects used months
\* upwards never lowers the velocity that the next recalculation gives.
THEOREM MoreUsageCounts == Spec => MoreUsageNeverLess
<1>1. ASSUME IInv, [Next]_vars, usage' # usage
      PROVE  now' = now
  <2>1. usage' # usage => \E m \in Months : ReplaceMovements(m)
    BY <1>1 DEF Next, vars, RecalcROP, ImportStock, Consume, MarkDelivered, Expire,
                EditOverride, EditROP, Plan, MarkOrdered, MonthsPass
  <2>2. QED
    BY <1>1, <2>1 DEF ReplaceMovements
<1>2. ASSUME IInv, [Next]_vars, usage' # usage, DOMAIN usage' = DOMAIN usage,
             \A m \in DOMAIN usage :
                usage'[m] # usage[m] => usage[m] > 0 /\ usage'[m] > usage[m]
      PROVE  \A v \in Weighted, w \in Weighted' : Compared(v, w)
  <2>1. TypeOK /\ TypeOK'
    BY <1>2, NextIInv DEF IInv
  <2>2. OnlyRaised
    BY <1>1, <1>2 DEF OnlyRaised
  <2>3. QED
    BY <2>1, <2>2, WeightedGrows
<1>3. ASSUME IInv, [Next]_vars
      PROVE  usage' # usage /\ DOMAIN usage' = DOMAIN usage
             /\ (\A m \in DOMAIN usage :
                    usage'[m] # usage[m] => usage[m] > 0 /\ usage'[m] > usage[m])
             => LET before == Weighted
                    after == Weighted'
                IN  \A v \in before, w \in after : Compared(v, w)
  BY <1>2, <1>3
<1>4. QED
  BY <1>3, InductiveInvariant, PTL DEF Spec, MoreUsageNeverLess
=============================================================================
