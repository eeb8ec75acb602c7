--------------------------- MODULE NaturalLemmas ---------------------------
(***************************************************************************)
(* Facts about natural numbers and finite sets that the other proofs rest   *)
(* on: least and largest elements, induction, functions defined by          *)
(* recursion, and sums.                                                     *)
(***************************************************************************)
EXTENDS Integers, FiniteSets, Functions, FiniteSetTheorems, WellFoundedInduction, TLAPS

\* A non-empty set of naturals has a least element: "the first index that ..."
\* of FirstAt and Below exists.
LEMMA LeastNatural ==
    ASSUME NEW S \in SUBSET Nat, S # {}
    PROVE  \E n \in S : \A m \in S : n <= m
<1>1. PICK n \in S : \A m \in S : ~(<<m, n>> \in OpToRel(<, Nat))
      BY NatLessThanWellFounded, WFMin
<1>2. \A m \in S : ~(m < n)
      BY <1>1 DEF OpToRel
<1>. QED BY <1>2

\* A finite set of naturals is bounded: the set of files on disk has a largest
\* generation, so scanSegments() can move nextGeneration_ past it.
LEMMA FiniteSetIsBounded ==
    ASSUME NEW S \in SUBSET Nat, IsFiniteSet(S)
    PROVE  \E b \in Nat : \A s \in S : s < b
<1>. DEFINE Bounded(T)  == \E b \in Nat : \A s \in T : s < b
            Unbounded   == {T \in SUBSET S : ~Bounded(T)}
<1>1. SUFFICES ASSUME Unbounded # {} PROVE FALSE
      OBVIOUS
<1>2. IsWellFoundedOn(StrictSubsetOrdering(S), SUBSET S)
      BY FS_StrictSubsetOrderingWellFounded, FS_FiniteSubsetsOfFinite
<1>3. PICK T \in Unbounded :
          \A U \in Unbounded : ~(<<U, T>> \in StrictSubsetOrdering(S))
      BY <1>1, <1>2, WFMin
<1>4. PICK x \in T : TRUE
      BY <1>3
<1>5. T \ {x} \notin Unbounded
      BY <1>3, <1>4 DEF StrictSubsetOrdering
<1>6. PICK b \in Nat : \A s \in T \ {x} : s < b
      BY <1>3, <1>5
<1>7. \A s \in T : s < (IF b > x THEN b ELSE x + 1)
      BY <1>3, <1>4, <1>6
<1>8. (IF b > x THEN b ELSE x + 1) \in Nat
      BY <1>3, <1>4, <1>6
<1>. QED BY <1>3, <1>7, <1>8

\* The least natural that is at least n and above every element of S.
LEMMA LeastAbove ==
    ASSUME NEW S \in SUBSET Nat, IsFiniteSet(S), NEW n \in Nat
    PROVE  \E k \in {n} \cup {s + 1 : s \in S} : k >= n /\ \A s \in S : k > s
<1>. DEFINE Above == {k \in Nat : k >= n /\ \A s \in S : k > s}
<1>1. PICK b \in Nat : \A s \in S : s < b
      BY FiniteSetIsBounded
<1>2. (IF b > n THEN b ELSE n) \in Above
      BY <1>1
<1>3. PICK k \in Above : \A m \in Above : k <= m
      BY <1>2, LeastNatural, Above \in SUBSET Nat
<1>4. CASE k = n
      BY <1>3, <1>4
<1>5. CASE k # n
  <2>1. k - 1 \in Nat /\ k - 1 >= n
        BY <1>3, <1>5
  <2>2. k - 1 \notin Above
        BY <1>3, <2>1
  <2>3. PICK s \in S : ~(k - 1 > s)
        BY <2>1, <2>2
  <2>4. k = s + 1
        BY <1>3, <2>3
  <2>. QED BY <1>3, <2>4
<1>. QED BY <1>4, <1>5

-----------------------------------------------------------------------------
(* Induction and recursion. *)

\* Induction over the naturals, stated with a set: the least number outside T would be
\* the successor of one inside.
LEMMA Induction ==
    ASSUME NEW T, 0 \in T, \A n \in Nat : n \in T => n + 1 \in T
    PROVE  Nat \subseteq T
<1>1. SUFFICES ASSUME Nat \ T # {} PROVE FALSE
      OBVIOUS
<1>2. PICK x \in Nat \ T : \A y \in Nat \ T : x <= y
      BY <1>1, LeastNatural, Nat \ T \in SUBSET Nat
<1>3. x # 0 /\ x - 1 \in Nat /\ x - 1 + 1 = x
      BY <1>2
<1>4. x - 1 \notin T
      BY <1>2, <1>3
<1>. QED BY <1>2, <1>3, <1>4

\* The values a recursion reaches: x[0] is a, and each one is G of the one before.
Reached(x, n, a, G) == x[0] = a /\ \A k \in 0..(n - 1) : x[k + 1] = G[x[k]]

\* A function G and a first value define a sequence by primitive recursion.
LEMMA Recursion ==
    ASSUME NEW S, NEW a \in S, NEW G \in [S -> S]
    PROVE  \E x \in [Nat -> S] : x[0] = a /\ \A n \in Nat : x[n + 1] = G[x[n]]
<1>. DEFINE Ex == {n \in Nat : \E x \in [0..n -> S] : Reached(x, n, a, G)}
            Un == {k \in Nat : \A n, m \in Nat : \A x \in [0..n -> S], y \in [0..m -> S] :
                      k <= n /\ k <= m /\ Reached(x, n, a, G) /\ Reached(y, m, a, G) => x[k] = y[k]}
<1>1. Nat \subseteq Ex
  <2>1. 0 \in Ex
    <3>1. [k \in 0..0 |-> a] \in [0..0 -> S] /\ Reached([k \in 0..0 |-> a], 0, a, G)
          BY DEF Reached
    <3>. QED BY <3>1
  <2>2. ASSUME NEW n \in Nat, n \in Ex PROVE n + 1 \in Ex
    <3>1. PICK x \in [0..n -> S] : Reached(x, n, a, G)
          BY <2>2
    <3>. DEFINE y == [k \in 0..(n + 1) |-> IF k = n + 1 THEN G[x[n]] ELSE x[k]]
    <3>2. y \in [0..(n + 1) -> S]
      <4>1. x[n] \in S
            BY <3>1
      <4>2. \A k \in 0..(n + 1) : k = n + 1 \/ k \in 0..n
            OBVIOUS
      <4>. QED BY <4>1, <4>2, <3>1
    <3>3. y[0] = a
          BY <3>1 DEF Reached
    <3>4. ASSUME NEW k \in 0..n PROVE y[k + 1] = G[y[k]]
      <4>1. y[k] = x[k]
            OBVIOUS
      <4>2. CASE k = n
            BY <4>1, <4>2
      <4>3. CASE k # n
        <5>1. k \in 0..(n - 1) /\ y[k + 1] = x[k + 1]
              BY <4>3
        <5>. QED BY <5>1, <4>1, <3>1 DEF Reached
      <4>. QED BY <4>2, <4>3
    <3>5. Reached(y, n + 1, a, G)
          BY <3>3, <3>4 DEF Reached
    <3>. QED BY <3>2, <3>5
  <2>. HIDE DEF Ex
  <2>. QED BY <2>1, <2>2, Induction
<1>2. Nat \subseteq Un
  <2>1. 0 \in Un
        BY DEF Reached
  <2>2. ASSUME NEW k \in Nat, k \in Un PROVE k + 1 \in Un
    <3>. SUFFICES ASSUME NEW n \in Nat, NEW m \in Nat, NEW x \in [0..n -> S], NEW y \in [0..m -> S],
                         k + 1 <= n, k + 1 <= m, Reached(x, n, a, G), Reached(y, m, a, G)
                  PROVE  x[k + 1] = y[k + 1]
          OBVIOUS
    <3>1. x[k] = y[k]
          BY <2>2
    <3>2. k \in 0..(n - 1) /\ k \in 0..(m - 1)
          OBVIOUS
    <3>. QED BY <3>1, <3>2 DEF Reached
  <2>. HIDE DEF Un
  <2>. QED BY <2>1, <2>2, Induction
<1>. DEFINE Upto(n) == CHOOSE x \in [0..n -> S] : Reached(x, n, a, G)
            f == [n \in Nat |-> Upto(n)[n]]
<1>3. \A n \in Nat : Upto(n) \in [0..n -> S] /\ Reached(Upto(n), n, a, G)
      BY <1>1
<1>4. \A n \in Nat : f[n] = Upto(n)[n]
      OBVIOUS
<1>. HIDE DEF Upto
<1>5. f \in [Nat -> S]
  <2>1. ASSUME NEW n \in Nat PROVE Upto(n)[n] \in S
        BY <1>3, n \in 0..n
  <2>. QED BY <2>1
<1>. HIDE DEF f
<1>6. f[0] = a
      BY <1>3, <1>4 DEF Reached
<1>7. ASSUME NEW n \in Nat PROVE f[n + 1] = G[f[n]]
  <2>. DEFINE x == Upto(n + 1)
  <2>1. x \in [0..(n + 1) -> S] /\ Reached(x, n + 1, a, G) /\ Upto(n) \in [0..n -> S] /\ Reached(Upto(n), n, a, G)
        BY <1>3
  <2>. HIDE DEF x
  <2>2. x[n + 1] = G[x[n]]
        BY <2>1, n \in 0..(n + 1 - 1) DEF Reached
  <2>3. x[n] = Upto(n)[n]
        BY <1>2, <2>1
  <2>. QED BY <2>2, <2>3, <1>4 DEF x
<1>. QED BY <1>5, <1>6, <1>7

\* The running totals of a list of numbers exist as a recursive function.
LEMMA RunningTotals ==
    ASSUME NEW h \in Nat, NEW n \in Nat, NEW w, \A k \in 1 .. n : w[k] \in Nat
    PROVE  \E f : f = [k \in 0 .. n |-> IF k = 0 THEN h ELSE f[k - 1] + w[k]]
<1>. DEFINE S == [at : Nat, sum : Nat]
            a == [at |-> 0, sum |-> h]
            G == [s \in S |-> [at |-> s.at + 1,
                               sum |-> IF s.at + 1 \in 1 .. n THEN s.sum + w[s.at + 1] ELSE s.sum]]
<1>1. a \in S
      OBVIOUS
<1>2. G \in [S -> S]
      OBVIOUS
<1>3. \A s \in S : /\ G[s].at = s.at + 1
                   /\ s.at + 1 \in 1 .. n => G[s].sum = s.sum + w[s.at + 1]
      OBVIOUS
<1>. HIDE DEF G
<1>4. a.at = 0 /\ a.sum = h /\ \A s \in S : s.at \in Nat /\ s.sum \in Nat
      OBVIOUS
<1>. HIDE DEF S, a
<1>5. PICK x \in [Nat -> S] : x[0] = a /\ \A k \in Nat : x[k + 1] = G[x[k]]
      BY <1>1, <1>2, Recursion
<1>6. \A k \in Nat : x[k].at = k
  <2>. DEFINE T == {k \in Nat : x[k].at = k}
  <2>1. 0 \in T
        BY <1>4, <1>5
  <2>2. \A k \in Nat : k \in T => k + 1 \in T
    <3>. SUFFICES ASSUME NEW k \in Nat, k \in T PROVE k + 1 \in T
         OBVIOUS
    <3>1. x[k] \in S /\ x[k + 1] = G[x[k]] /\ x[k].at = k
          BY <1>5
    <3>. QED BY <1>3, <3>1
  <2>. HIDE DEF T
  <2>3. Nat \subseteq T
        BY <2>1, <2>2, Induction
  <2>. QED BY <2>3 DEF T
<1>. DEFINE f == [k \in 0 .. n |-> x[k].sum]
<1>7. f[0] = h
      BY <1>4, <1>5
<1>8. \A k \in 1 .. n : f[k] = f[k - 1] + w[k]
  <2>. SUFFICES ASSUME NEW k \in 1 .. n PROVE f[k] = f[k - 1] + w[k]
       OBVIOUS
  <2>1. k - 1 \in Nat /\ k - 1 + 1 = k /\ k - 1 \in 0 .. n /\ k \in 0 .. n
        OBVIOUS
  <2>2. x[k - 1] \in S /\ x[k - 1 + 1] = G[x[k - 1]] /\ x[k - 1].at = k - 1
        BY <1>5, <1>6, <2>1
  <2>3. G[x[k - 1]].sum = x[k - 1].sum + w[k]
    <3>1. x[k - 1].at + 1 = k
          BY <2>1, <2>2
    <3>. QED BY <1>3, <2>2, <3>1
  <2>4. f[k] = x[k].sum /\ f[k - 1] = x[k - 1].sum
        BY <2>1
  <2>. HIDE DEF f
  <2>. QED BY <2>1, <2>2, <2>3, <2>4
<1>9. f = [k \in 0 .. n |-> f[k]]
      OBVIOUS
<1>. HIDE DEF f
<1>10. \A k \in 0 .. n : f[k] = IF k = 0 THEN h ELSE f[k - 1] + w[k]
  <2>. SUFFICES ASSUME NEW k \in 0 .. n PROVE f[k] = IF k = 0 THEN h ELSE f[k - 1] + w[k]
       OBVIOUS
  <2>1. k = 0 \/ k \in 1 .. n
        OBVIOUS
  <2>. QED BY <1>7, <1>8, <2>1
<1>. QED BY <1>9, <1>10

-----------------------------------------------------------------------------
(* Sums over a finite set, which the library defines by a recursion on the  *)
(* subsets that takes one element after another.                            *)

Pick(s)        == CHOOSE x \in s : TRUE
Once(f, S, it) == [s \in SUBSET S |-> IF s = {} THEN 0 ELSE f[Pick(s)] + it[s \ {Pick(s)}]]
Sums(f, S, it) == it = Once(f, S, it)

LEMMA WithoutOne ==
    ASSUME NEW S, IsFiniteSet(S), NEW x \in S
    PROVE  /\ IsFiniteSet(S \ {x}) /\ Cardinality(S) \in Nat \ {0}
           /\ Cardinality(S \ {x}) = Cardinality(S) - 1
<1>1. S # {} /\ Cardinality(S) \in Nat /\ Cardinality(S) # 0
      BY FS_EmptySet, FS_CardinalityType
<1>. QED BY <1>1, FS_RemoveElement

\* The recursion is well defined on a finite set.
LEMMA SumsExist ==
    ASSUME NEW S, IsFiniteSet(S), NEW f, \A x \in S : f[x] \in Nat
    PROVE  \E it : Sums(f, S, it)
<1>. DEFINE Maps == [SUBSET S -> Nat]
            G    == [it \in Maps |-> Once(f, S, it)]
            zero == [s \in SUBSET S |-> 0]
<1>1. \A s \in SUBSET S : s # {} => Pick(s) \in s /\ f[Pick(s)] \in Nat
      BY DEF Pick
<1>2. G \in [Maps -> Maps]
  <2>1. ASSUME NEW it \in Maps PROVE Once(f, S, it) \in Maps
    <3>1. ASSUME NEW s \in SUBSET S, s # {} PROVE f[Pick(s)] + it[s \ {Pick(s)}] \in Nat
          BY <1>1, <3>1
    <3>. QED BY <3>1 DEF Once
  <2>. QED BY <2>1
<1>3. zero \in Maps
      OBVIOUS
<1>. HIDE DEF Maps, zero, G
<1>4. PICK F \in [Nat -> Maps] : F[0] = zero /\ \A n \in Nat : F[n + 1] = G[F[n]]
      BY <1>2, <1>3, Recursion
<1>5. \A n \in Nat : F[n] \in Maps /\ F[n + 1] = Once(f, S, F[n])
      BY <1>4 DEF G
<1>6. \A s \in SUBSET S : IsFiniteSet(s) /\ Cardinality(s) \in Nat /\ Cardinality(s) <= Cardinality(S)
      BY FS_Subset, FS_CardinalityType
<1>. DEFINE Stable == {n \in Nat : \A s \in SUBSET S : Cardinality(s) <= n => F[n + 1][s] = F[n][s]}
<1>7. 0 \in Stable
  <2>1. ASSUME NEW s \in SUBSET S, Cardinality(s) <= 0 PROVE F[0 + 1][s] = F[0][s]
    <3>1. s = {}
          BY <1>6, <2>1, FS_EmptySet
    <3>2. F[0 + 1][s] = 0
          BY <3>1, <1>5 DEF Once
    <3>3. F[0][s] = 0
          BY <1>4 DEF zero
    <3>. QED BY <3>2, <3>3
  <2>. QED BY <2>1
<1>8. ASSUME NEW n \in Nat, n \in Stable PROVE n + 1 \in Stable
  <2>0. F[n + 1 + 1] = Once(f, S, F[n + 1]) /\ F[n + 1] = Once(f, S, F[n])
        BY <1>5, n + 1 \in Nat
  <2>1. ASSUME NEW s \in SUBSET S, Cardinality(s) <= n + 1 PROVE F[n + 1 + 1][s] = F[n + 1][s]
    <3>1. CASE s = {}
          BY <3>1, <2>0 DEF Once
    <3>2. CASE s # {}
      <4>. DEFINE r == s \ {Pick(s)}
      <4>1. Pick(s) \in s
            BY <1>1, <3>2
      <4>2. r \in SUBSET S /\ Cardinality(r) <= n
            BY <1>6, <2>1, <4>1, WithoutOne
      <4>3. F[n + 1][r] = F[n][r]
            BY <1>8, <4>2
      <4>4. F[n + 1 + 1][s] = f[Pick(s)] + F[n + 1][r] /\ F[n + 1][s] = f[Pick(s)] + F[n][r]
            BY <2>0, <3>2 DEF Once
      <4>. QED BY <4>3, <4>4
    <3>. QED BY <3>1, <3>2
  <2>. QED BY <2>1
<1>9. Nat \subseteq Stable
  <2>. HIDE DEF Stable
  <2>. QED BY <1>7, <1>8, Induction
<1>. DEFINE N == Cardinality(S)
<1>10. N \in Nat
      BY FS_CardinalityType
<1>11. \A s \in SUBSET S : F[N + 1][s] = F[N][s]
      BY <1>6, <1>9, <1>10
<1>12. F[N] \in Maps /\ F[N + 1] \in Maps
      BY <1>5, <1>10
<1>13. F[N + 1] = F[N]
      BY <1>11, <1>12 DEF Maps
<1>. QED BY <1>5, <1>10, <1>12, <1>13 DEF Sums, Maps

\* The values of the recursion are naturals, and any element may be taken first.
LEMMA SumsStep ==
    ASSUME NEW S, IsFiniteSet(S), NEW f, \A x \in S : f[x] \in Nat,
           NEW it, Sums(f, S, it)
    PROVE  \A T \in SUBSET S : /\ it[T] \in Nat
                               /\ \A x \in T : it[T] = f[x] + it[T \ {x}]
<1>. DEFINE Holds == {n \in Nat : \A T \in SUBSET S : Cardinality(T) <= n =>
                          it[T] \in Nat /\ \A x \in T : it[T] = f[x] + it[T \ {x}]}
<1>1. \A T \in SUBSET S : T # {} => Pick(T) \in T /\ it[T] = f[Pick(T)] + it[T \ {Pick(T)}]
      BY DEF Sums, Once, Pick
<1>2. \A T \in SUBSET S : IsFiniteSet(T) /\ Cardinality(T) \in Nat /\ (Cardinality(T) = 0 => T = {})
      BY FS_Subset, FS_CardinalityType, FS_EmptySet
<1>6. it[{}] = 0
      BY DEF Sums, Once
<1>3. 0 \in Holds
  <2>1. ASSUME NEW T \in SUBSET S, Cardinality(T) <= 0 PROVE T = {}
        BY <1>2, <2>1
  <2>. QED BY <1>6, <2>1
<1>4. ASSUME NEW n \in Nat, n \in Holds PROVE n + 1 \in Holds
  <2>. SUFFICES ASSUME NEW T \in SUBSET S, Cardinality(T) <= n + 1
                PROVE  it[T] \in Nat /\ \A x \in T : it[T] = f[x] + it[T \ {x}]
       OBVIOUS
  <2>1. CASE T = {}
        BY <1>6, <2>1
  <2>2. CASE T # {}
    <3>. DEFINE p == Pick(T)
    <3>1. p \in T /\ it[T] = f[p] + it[T \ {p}] /\ f[p] \in Nat
          BY <1>1, <2>2
    <3>. HIDE DEF p
    <3>2. \A x \in T : T \ {x} \in SUBSET S /\ Cardinality(T \ {x}) <= n
          BY <1>2, WithoutOne
    <3>3. it[T] \in Nat
          BY <1>4, <3>1, <3>2
    <3>4. ASSUME NEW x \in T, x # p PROVE it[T] = f[x] + it[T \ {x}]
      <4>1. it[T \ {p}] = f[x] + it[(T \ {p}) \ {x}]
            BY <1>4, <3>1, <3>2, <3>4
      <4>2. it[T \ {x}] = f[p] + it[(T \ {x}) \ {p}]
            BY <1>4, <3>1, <3>2, <3>4
      <4>3. (T \ {p}) \ {x} = (T \ {x}) \ {p}
            OBVIOUS
      <4>4. it[(T \ {x}) \ {p}] \in Nat
        <5>. DEFINE r == T \ {x}
        <5>1. p \in r /\ r \in SUBSET S /\ IsFiniteSet(r) /\ Cardinality(r) <= n
              BY <1>2, <3>1, <3>2, <3>4
        <5>. HIDE DEF r
        <5>2. r \ {p} \in SUBSET S /\ Cardinality(r \ {p}) <= n
              BY <5>1, WithoutOne
        <5>3. it[r \ {p}] \in Nat
              BY <1>4, <5>2
        <5>. QED BY <5>3 DEF r
      <4>5. f[x] \in Nat /\ f[p] \in Nat
            BY <3>1
      <4>6. it[T] = f[p] + (f[x] + it[(T \ {x}) \ {p}])
            BY <3>1, <4>1, <4>3
      <4>. QED BY <4>2, <4>4, <4>5, <4>6
    <3>. QED BY <3>1, <3>3, <3>4
  <2>. QED BY <2>1, <2>2
<1>5. Nat \subseteq Holds
  <2>. HIDE DEF Holds
  <2>. QED BY <1>3, <1>4, Induction
<1>7. ASSUME NEW T \in SUBSET S PROVE it[T] \in Nat /\ \A x \in T : it[T] = f[x] + it[T \ {x}]
  <2>1. Cardinality(T) \in Holds /\ Cardinality(T) <= Cardinality(T)
        BY <1>2, <1>5
  <2>. QED BY <2>1
<1>. QED BY <1>7

\* A recursion over a larger set gives the same sums.
LEMMA SumsAgree ==
    ASSUME NEW S, IsFiniteSet(S), NEW f, \A x \in S : f[x] \in Nat, NEW R \in SUBSET S,
           NEW it, Sums(f, S, it), NEW jt, Sums(f, R, jt)
    PROVE  it[R] = jt[R]
<1>. DEFINE Holds == {n \in Nat : \A T \in SUBSET R : Cardinality(T) <= n => it[T] = jt[T]}
<1>1. \A T \in SUBSET R : IsFiniteSet(T) /\ Cardinality(T) \in Nat /\ (Cardinality(T) = 0 => T = {})
      BY FS_Subset, FS_CardinalityType, FS_EmptySet
<1>2. \A T \in SUBSET R : T # {} => /\ Pick(T) \in T
                                    /\ it[T] = f[Pick(T)] + it[T \ {Pick(T)}]
                                    /\ jt[T] = f[Pick(T)] + jt[T \ {Pick(T)}]
      BY DEF Sums, Once, Pick
<1>6. it[{}] = 0 /\ jt[{}] = 0
      BY DEF Sums, Once
<1>3. 0 \in Holds
  <2>1. ASSUME NEW T \in SUBSET R, Cardinality(T) <= 0 PROVE T = {}
        BY <1>1, <2>1
  <2>. QED BY <1>6, <2>1
<1>4. ASSUME NEW n \in Nat, n \in Holds PROVE n + 1 \in Holds
  <2>1. ASSUME NEW T \in SUBSET R, Cardinality(T) <= n + 1, T # {} PROVE it[T] = jt[T]
    <3>1. Pick(T) \in T /\ IsFiniteSet(T)
          BY <1>1, <1>2, <2>1
    <3>2. T \ {Pick(T)} \in SUBSET R /\ Cardinality(T \ {Pick(T)}) <= n
          BY <1>1, <2>1, <3>1, WithoutOne
    <3>. QED BY <1>2, <1>4, <2>1, <3>2
  <2>2. ASSUME NEW T \in SUBSET R, Cardinality(T) <= n + 1 PROVE it[T] = jt[T]
        BY <1>6, <2>1, <2>2
  <2>. QED BY <2>2
<1>5. Nat \subseteq Holds
  <2>. HIDE DEF Holds
  <2>. QED BY <1>3, <1>4, Induction
<1>. QED BY <1>1, <1>5

LEMMA SumIsRecursive ==
    ASSUME NEW S, IsFiniteSet(S), NEW f, \A x \in S : f[x] \in Nat
    PROVE  \E it : Sums(f, S, it) /\ SumFunctionOnSet(f, S) = it[S]
<1>1. PICK it : it = CHOOSE jt : jt = Once(f, S, jt)
      OBVIOUS
<1>2. it = Once(f, S, it)
      BY <1>1, SumsExist DEF Sums
<1>3. SumFunctionOnSet(f, S) = it[S]
      BY <1>1 DEF SumFunctionOnSet, FoldFunctionOnSet, MapThenFoldSet, Once, Pick
<1>. QED BY <1>2, <1>3 DEF Sums

\* The sum over the empty set, and over a set with one element taken out.
LEMMA SumOfNone == ASSUME NEW f PROVE SumFunctionOnSet(f, {}) = 0
<1>1. PICK it : Sums(f, {}, it) /\ SumFunctionOnSet(f, {}) = it[{}]
      BY SumIsRecursive, FS_EmptySet
<1>. QED BY <1>1 DEF Sums, Once

LEMMA SumTakeOut ==
    ASSUME NEW S, IsFiniteSet(S), NEW f, \A x \in S : f[x] \in Nat, NEW x \in S
    PROVE  SumFunctionOnSet(f, S) = f[x] + SumFunctionOnSet(f, S \ {x})
<1>1. PICK it : Sums(f, S, it) /\ SumFunctionOnSet(f, S) = it[S]
      BY SumIsRecursive
<1>. DEFINE R == S \ {x}
<1>2. IsFiniteSet(R) /\ R \in SUBSET S /\ \A y \in R : f[y] \in Nat
      BY FS_Subset
<1>3. PICK jt : Sums(f, R, jt) /\ SumFunctionOnSet(f, R) = jt[R]
      BY <1>2, SumIsRecursive
<1>4. it[R] = jt[R]
      BY <1>1, <1>2, <1>3, SumsAgree
<1>5. it[S] = f[x] + it[R]
      BY <1>1, SumsStep
<1>. QED BY <1>1, <1>3, <1>4, <1>5

LEMMA SumIsNatural ==
    ASSUME NEW S, IsFiniteSet(S), NEW f, \A x \in S : f[x] \in Nat
    PROVE  SumFunctionOnSet(f, S) \in Nat
<1>1. PICK it : Sums(f, S, it) /\ SumFunctionOnSet(f, S) = it[S]
      BY SumIsRecursive
<1>. QED BY <1>1, SumsStep

\* The sum depends on the values over the set only.
LEMMA SumOfSame ==
    ASSUME NEW S, IsFiniteSet(S), NEW f, \A x \in S : f[x] \in Nat,
           NEW g, \A x \in S : g[x] = f[x]
    PROVE  SumFunctionOnSet(g, S) = SumFunctionOnSet(f, S)
<1>2. PICK it : Sums(f, S, it) /\ SumFunctionOnSet(f, S) = it[S]
      BY SumIsRecursive
<1>3. PICK jt : Sums(g, S, jt) /\ SumFunctionOnSet(g, S) = jt[S]
      BY SumIsRecursive
<1>4. Sums(f, S, jt)
  <2>1. Once(g, S, jt) = Once(f, S, jt)
        BY DEF Once, Pick
  <2>. QED BY <1>3, <2>1 DEF Sums
<1>. QED BY <1>2, <1>3, <1>4, SumsAgree
=============================================================================
