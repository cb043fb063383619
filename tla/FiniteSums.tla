----------------------------- MODULE FiniteSums -----------------------------
(***************************************************************************)
(* Sums over finite sets, as MapThenSumSet and FoldFunction compute them;  *)
(* the least element of a set of numbers, which stands in for induction in *)
(* the proofs that need it; what holds after every pass of a loop; and     *)
(* remainders.                                                             *)
(***************************************************************************)
EXTENDS Integers, Loops, FiniteSetTheorems, WellFoundedInduction, TLAPS

\* Every set of natural numbers that is not empty has a least element: the
\* induction that the proofs below need.
LEMMA LeastNat ==
  ASSUME NEW T \in SUBSET Nat, T # {}
  PROVE  \E x \in T : \A y \in T : x <= y
<1>1. IsWellFoundedOn(OpToRel(<, Nat), Nat)
  BY NatLessThanWellFounded, Zenon
<1> DEFINE R == OpToRel(<, Nat)
<1>2. \A x, y \in Nat : <<y, x>> \in R <=> y < x
  BY DEF OpToRel
<1> HIDE DEF R
<1>3. IsWellFoundedOn(R, Nat)
  BY <1>1, Zenon DEF R
<1>4. \E x \in T : \A y \in T : ~ (<<y, x>> \in R)
  BY <1>3, WFMin
<1>5. \A x \in T : x \in Nat
  OBVIOUS
<1>6. \A x, y \in Nat : ~(y < x) => x <= y
  OBVIOUS
<1> QED BY <1>2, <1>4, <1>5, <1>6, Zenon

\* So of the finite sets in a set there is one with the fewest elements.
LEMMA LeastSet ==
  ASSUME NEW F, F # {}, \A s \in F : IsFiniteSet(s)
  PROVE  \E s \in F : \A r \in F : Cardinality(s) <= Cardinality(r)
<1> DEFINE T == {Cardinality(s) : s \in F}
<1>1. T \in SUBSET Nat /\ T # {}
  BY FS_CardinalityType
<1>2. PICK n \in T : \A m \in T : n <= m
  <2> HIDE DEF T
  <2> QED BY <1>1, LeastNat
<1> QED BY <1>2

\* The element with which a sum begins.
First(s) == CHOOSE x \in s : TRUE

LEMMA FirstIn ==
  ASSUME NEW s, s # {}
  PROVE  First(s) \in s
BY DEF First

\* g[s] is the sum of the values that f has on s, for every s of T.
Adds(g, f, T) ==
  \A s \in SUBSET T : g[s] = IF s = {} THEN 0 ELSE f[First(s)] + g[s \ {First(s)}]

LEMMA Smaller ==
  ASSUME NEW s, IsFiniteSet(s), NEW x \in s
  PROVE  /\ IsFiniteSet(s \ {x}) /\ Cardinality(s) \in Nat /\ Cardinality(s \ {x}) \in Nat
         /\ Cardinality(s \ {x}) = Cardinality(s) - 1
BY FS_RemoveElement, FS_CardinalityType

\* There are such sums.
LEMMA SumsExist ==
  ASSUME NEW T, IsFiniteSet(T), NEW f \in [T -> Int]
  PROVE  \E g \in [SUBSET T -> Int] : Adds(g, f, T)
<1> DEFINE Small(n) == {s \in SUBSET T : Cardinality(s) <= n}
           Upto(n, g) == \A s \in Small(n) :
                           g[s] = IF s = {} THEN 0 ELSE f[First(s)] + g[s \ {First(s)}]
           Bad == {n \in Nat : ~ \E g \in [SUBSET T -> Int] : Upto(n, g)}
<1>1. \A s \in SUBSET T : IsFiniteSet(s) /\ Cardinality(s) \in Nat
                          /\ Cardinality(s) <= Cardinality(T)
  BY FS_Subset, FS_CardinalityType
<1>2. ASSUME NEW n \in Bad, \A m \in Bad : n <= m PROVE FALSE
  <2>1. CASE n = 0
    <3> DEFINE g == [s \in SUBSET T |-> 0]
    <3>1. \A s \in Small(0) : s = {}
      <4>1. ASSUME NEW s \in Small(0) PROVE s = {}
        <5>1. Cardinality(s) = 0 /\ IsFiniteSet(s)
          BY <1>1
        <5> QED BY <5>1, FS_EmptySet
      <4> QED BY <4>1
    <3>2. Upto(0, g)
      BY <3>1
    <3>3. g \in [SUBSET T -> Int]
      OBVIOUS
    <3> QED BY <2>1, <3>2, <3>3
  <2>2. CASE n # 0
    <3>1. n - 1 \in Nat /\ ~(n <= n - 1) /\ n \in Nat
      BY <2>2
    <3>2. PICK g \in [SUBSET T -> Int] : Upto(n - 1, g)
      BY <1>2, <3>1
    <3> DEFINE h == [s \in SUBSET T |-> IF Cardinality(s) <= n - 1 THEN g[s]
                                        ELSE f[First(s)] + g[s \ {First(s)}]]
    <3>3. ASSUME NEW s \in SUBSET T PROVE h[s] \in Int
      <4>1. CASE Cardinality(s) <= n - 1
        BY <4>1
      <4>2. CASE ~(Cardinality(s) <= n - 1)
        <5>1. s # {}
          <6>1. Cardinality({}) = 0 /\ 0 <= n - 1
            BY <3>1, FS_EmptySet
          <6> QED BY <4>2, <6>1
        <5>2. First(s) \in T /\ s \ {First(s)} \in SUBSET T
          BY <5>1, FirstIn
        <5> QED BY <4>2, <5>2
      <4> QED BY <4>1, <4>2
    <3>4. h \in [SUBSET T -> Int]
      BY <3>3
    <3>5. ASSUME NEW s \in Small(n)
          PROVE  h[s] = IF s = {} THEN 0 ELSE f[First(s)] + h[s \ {First(s)}]
      <4>1. CASE s = {}
        <5>1. Cardinality(s) = 0 /\ s \in Small(n - 1)
          BY <3>1, <4>1, FS_EmptySet
        <5> QED BY <3>1, <3>2, <4>1, <5>1
      <4>2. CASE s # {}
        <5>1. /\ First(s) \in s /\ s \ {First(s)} \in SUBSET T
              /\ Cardinality(s \ {First(s)}) = Cardinality(s) - 1 /\ Cardinality(s) \in Nat
          BY <1>1, <4>2, FirstIn, Smaller
        <5>2. Cardinality(s \ {First(s)}) <= n - 1
          BY <3>1, <5>1
        <5>3. h[s \ {First(s)}] = g[s \ {First(s)}]
          BY <5>1, <5>2
        <5>4. h[s] = f[First(s)] + g[s \ {First(s)}]
          <6>1. CASE Cardinality(s) <= n - 1
            <7>1. h[s] = g[s] /\ s \in Small(n - 1)
              BY <6>1
            <7> QED BY <3>2, <4>2, <7>1
          <6>2. CASE ~(Cardinality(s) <= n - 1)
            BY <6>2
          <6> QED BY <6>1, <6>2
        <5> HIDE DEF h
        <5> QED BY <4>2, <5>3, <5>4
      <4> QED BY <4>1, <4>2
    <3>6. Upto(n, h)
      BY <3>5
    <3> QED BY <3>4, <3>6
  <2> QED BY <2>1, <2>2
<1>3. Bad = {}
  <2>1. Bad \in SUBSET Nat
    OBVIOUS
  <2> HIDE DEF Bad
  <2> QED BY <1>2, <2>1, LeastNat
<1>4. Cardinality(T) \in Nat
  BY FS_CardinalityType
<1>5. PICK g \in [SUBSET T -> Int] : Upto(Cardinality(T), g)
  BY <1>3, <1>4
<1>6. Small(Cardinality(T)) = SUBSET T
  BY <1>1
<1>7. Adds(g, f, T)
  <2> HIDE DEF Small
  <2> QED BY <1>5, <1>6 DEF Adds
<1> QED BY <1>7

\* They do not depend on the order.
AddsFreely(g, f, T) == \A s \in SUBSET T : \A x \in s : g[s] = f[x] + g[s \ {x}]

LEMMA SumsAnyOrder ==
  ASSUME NEW T, IsFiniteSet(T), NEW f \in [T -> Int], NEW g \in [SUBSET T -> Int],
         Adds(g, f, T)
  PROVE  AddsFreely(g, f, T)
<1> DEFINE Bad == {s \in SUBSET T : \E x \in s : g[s] # f[x] + g[s \ {x}]}
<1>1. \A s \in SUBSET T : IsFiniteSet(s)
  BY FS_Subset
<1>2. ASSUME NEW s \in Bad, \A r \in Bad : Cardinality(s) <= Cardinality(r) PROVE FALSE
  <2>1. PICK x \in s : g[s] # f[x] + g[s \ {x}]
    OBVIOUS
  <2>2. PICK y : y = First(s)
    OBVIOUS
  <2>3. s \in SUBSET T /\ y \in s /\ g[s] = f[y] + g[s \ {y}]
    BY <2>1, <2>2, FirstIn DEF Adds
  <2>4. x # y
    BY <2>1, <2>3
  <2>5. \A z \in s : s \ {z} \in SUBSET T /\ s \ {z} \notin Bad
    <3>1. ASSUME NEW z \in s PROVE ~(Cardinality(s) <= Cardinality(s \ {z}))
      <4>1. /\ Cardinality(s) \in Nat /\ Cardinality(s \ {z}) \in Nat
            /\ Cardinality(s \ {z}) = Cardinality(s) - 1
        BY <1>1, <2>3, Smaller
      <4> QED BY <4>1
    <3> QED BY <1>2, <2>3, <3>1
  <2>6. g[s \ {y}] = f[x] + g[(s \ {y}) \ {x}]
    BY <2>1, <2>3, <2>4, <2>5
  <2>7. g[s \ {x}] = f[y] + g[(s \ {x}) \ {y}]
    BY <2>1, <2>3, <2>4, <2>5
  <2>8. (s \ {y}) \ {x} = (s \ {x}) \ {y} /\ (s \ {x}) \ {y} \in SUBSET T
    BY <2>3
  <2>9. f[x] \in Int /\ f[y] \in Int /\ g[(s \ {x}) \ {y}] \in Int
    BY <2>1, <2>3, <2>8
  <2>10. g[s \ {y}] = f[x] + g[(s \ {x}) \ {y}]
    BY <2>6, <2>8, Zenon
  <2> QED BY <2>1, <2>3, <2>7, <2>9, <2>10
<1>3. Bad = {}
  <2>1. \A s \in Bad : IsFiniteSet(s)
    BY <1>1
  <2> HIDE DEF Bad
  <2> QED BY <1>2, <2>1, LeastSet
<1> QED BY <1>3 DEF AddsFreely

\* There is one such sum only.
LEMMA SumsAgree ==
  ASSUME NEW T, IsFiniteSet(T), NEW f, NEW g, Adds(g, f, T), NEW h, Adds(h, f, T)
  PROVE  g[T] = h[T]
<1> DEFINE Bad == {s \in SUBSET T : g[s] # h[s]}
<1>1. \A s \in SUBSET T : IsFiniteSet(s)
  BY FS_Subset
<1>2. ASSUME NEW s \in Bad, \A r \in Bad : Cardinality(s) <= Cardinality(r) PROVE FALSE
  <2>1. s \in SUBSET T /\ g[s] # h[s]
    OBVIOUS
  <2>2. s # {}
    BY <2>1 DEF Adds
  <2>3. First(s) \in s /\ s \ {First(s)} \in SUBSET T
    BY <2>1, <2>2, FirstIn
  <2>4. ~(Cardinality(s) <= Cardinality(s \ {First(s)}))
    <3>1. /\ Cardinality(s) \in Nat /\ Cardinality(s \ {First(s)}) \in Nat
          /\ Cardinality(s \ {First(s)}) = Cardinality(s) - 1
      BY <1>1, <2>1, <2>3, Smaller
    <3> QED BY <3>1
  <2>5. g[s \ {First(s)}] = h[s \ {First(s)}]
    BY <1>2, <2>3, <2>4
  <2> QED BY <2>1, <2>2, <2>5 DEF Adds
<1>3. Bad = {}
  <2>1. \A s \in Bad : IsFiniteSet(s)
    BY <1>1
  <2> HIDE DEF Bad
  <2> QED BY <1>2, <2>1, LeastSet
<1> QED BY <1>3

-----------------------------------------------------------------------------
(***************************************************************************)
(* The sum that the folds over a set choose                                *)
(***************************************************************************)

SumOver(f, S) ==
  (CHOOSE i : i = [s \in SUBSET S |-> IF s = {} THEN 0
                                     ELSE f[CHOOSE x \in s : TRUE]
                                            + i[s \ {CHOOSE x \in s : TRUE}]])[S]

LEMMA SumIs ==
  ASSUME NEW S, IsFiniteSet(S), NEW f, NEW g, Adds(g, f, S)
  PROVE  SumOver(f, S) = g[S]
<1> DEFINE Eq(i) == i = [s \in SUBSET S |-> IF s = {} THEN 0
                           ELSE f[CHOOSE x \in s : TRUE] + i[s \ {CHOOSE x \in s : TRUE}]]
           k == [s \in SUBSET S |-> g[s]]
           h == CHOOSE i : Eq(i)
<1>1. SumOver(f, S) = h[S]
  BY Zenon DEF SumOver
<1>2. \A s \in SUBSET S : s # {} => First(s) \in S /\ First(s) \in s
  BY FirstIn
<1>3. Eq(k)
  <2>1. ASSUME NEW s \in SUBSET S
        PROVE  g[s] = IF s = {} THEN 0 ELSE f[First(s)] + k[s \ {First(s)}]
    BY <1>2 DEF Adds
  <2> QED BY <2>1 DEF First
<1>4. Eq(h)
  BY <1>3, Zenon
<1>5. Adds(h, f, S)
  <2> HIDE DEF h
  <2> QED BY <1>4 DEF First, Adds
<1> HIDE DEF h
<1>6. g[S] = h[S]
  BY <1>5, SumsAgree
<1> QED BY <1>1, <1>6

\* The sums over a set and all its parts.
SumsUp(f, S) ==
  /\ \A s \in SUBSET S : SumOver(f, s) \in Int
  /\ SumOver(f, {}) = 0
  /\ \A s \in SUBSET S : \A x \in s : SumOver(f, s) = f[x] + SumOver(f, s \ {x})

LEMMA SumsOver ==
  ASSUME NEW S, IsFiniteSet(S), NEW f, \A x \in S : f[x] \in Int
  PROVE  SumsUp(f, S)
<1> DEFINE r == [x \in S |-> f[x]]
<1>1. r \in [S -> Int] /\ \A x \in S : r[x] = f[x]
  OBVIOUS
<1> HIDE DEF r
<1>2. PICK g \in [SUBSET S -> Int] : Adds(g, r, S)
  BY <1>1, SumsExist
<1>3. AddsFreely(g, r, S)
  <2>1. r \in [S -> Int]
    BY <1>1
  <2> QED BY <1>2, <2>1, SumsAnyOrder
<1>4. ASSUME NEW s \in SUBSET S PROVE SumOver(f, s) = g[s]
  <2>1. \A q \in SUBSET s : q # {} => First(q) \in S
    BY FirstIn
  <2>2. Adds(g, f, s)
    BY <1>1, <1>2, <2>1 DEF Adds
  <2>3. IsFiniteSet(s)
    BY FS_Subset
  <2> QED BY <2>2, <2>3, SumIs
<1>5. \A s \in SUBSET S : SumOver(f, s) \in Int
  BY <1>4
<1>6. SumOver(f, {}) = 0
  BY <1>2, <1>4 DEF Adds
<1>7. ASSUME NEW s \in SUBSET S, NEW x \in s
      PROVE  SumOver(f, s) = f[x] + SumOver(f, s \ {x})
  <2>1. x \in S /\ s \ {x} \in SUBSET S
    OBVIOUS
  <2>2. SumOver(f, s) = g[s] /\ SumOver(f, s \ {x}) = g[s \ {x}]
    BY <1>4, <2>1
  <2> QED BY <1>1, <1>3, <2>1, <2>2 DEF AddsFreely
<1> QED BY <1>5, <1>6, <1>7 DEF SumsUp

\* A sum depends on the values on the set only.
LEMMA SumOfSame ==
  ASSUME NEW S, IsFiniteSet(S), NEW f, NEW g, \A x \in S : f[x] \in Int /\ g[x] = f[x]
  PROVE  SumOver(g, S) = SumOver(f, S)
<1> DEFINE r == [x \in S |-> f[x]]
<1>1. r \in [S -> Int] /\ \A x \in S : r[x] = f[x] /\ r[x] = g[x]
  OBVIOUS
<1> HIDE DEF r
<1>2. PICK h \in [SUBSET S -> Int] : Adds(h, r, S)
  BY <1>1, SumsExist
<1>3. \A s \in SUBSET S : s # {} => First(s) \in S
  BY FirstIn
<1>4. Adds(h, f, S) /\ Adds(h, g, S)
  BY <1>1, <1>2, <1>3 DEF Adds
<1> QED BY <1>4, SumIs

\* Sums of natural numbers are at least as large as each of them.
LEMMA SumOfNats ==
  ASSUME NEW S, IsFiniteSet(S), NEW f, \A x \in S : f[x] \in Nat
  PROVE  SumOver(f, S) \in Nat /\ \A x \in S : f[x] <= SumOver(f, S)
<1>1. /\ \A s \in SUBSET S : SumOver(f, s) \in Int
      /\ SumOver(f, {}) = 0
      /\ \A s \in SUBSET S : \A x \in s : SumOver(f, s) = f[x] + SumOver(f, s \ {x})
  <2>1. \A x \in S : f[x] \in Int
    OBVIOUS
  <2>2. SumsUp(f, S)
    BY <2>1, SumsOver
  <2> QED BY <2>2 DEF SumsUp
<1> DEFINE Bad == {s \in SUBSET S : ~(SumOver(f, s) >= 0)}
<1>2. \A s \in SUBSET S : IsFiniteSet(s)
  BY FS_Subset
<1>3. ASSUME NEW s \in Bad, \A r \in Bad : Cardinality(s) <= Cardinality(r) PROVE FALSE
  <2>1. s # {}
    BY <1>1
  <2>2. PICK x \in s : TRUE
    BY <2>1
  <2>3. SumOver(f, s) = f[x] + SumOver(f, s \ {x}) /\ s \ {x} \in SUBSET S /\ f[x] \in Nat
    BY <1>1
  <2>4. ~(Cardinality(s) <= Cardinality(s \ {x}))
    <3>1. /\ Cardinality(s) \in Nat /\ Cardinality(s \ {x}) \in Nat
          /\ Cardinality(s \ {x}) = Cardinality(s) - 1
      BY <1>2, Smaller
    <3> QED BY <3>1
  <2>5. SumOver(f, s \ {x}) >= 0
    BY <1>3, <2>3, <2>4
  <2>6. SumOver(f, s) \in Int /\ SumOver(f, s \ {x}) \in Int
    BY <1>1, <2>3
  <2> QED BY <2>3, <2>5, <2>6
<1>4. Bad = {}
  <2>1. \A s \in Bad : IsFiniteSet(s)
    BY <1>2
  <2> HIDE DEF Bad
  <2> QED BY <1>3, <2>1, LeastSet
<1>5. \A s \in SUBSET S : SumOver(f, s) \in Nat
  BY <1>1, <1>4
<1>6. ASSUME NEW x \in S PROVE f[x] <= SumOver(f, S)
  <2>1. S \in SUBSET S /\ S \ {x} \in SUBSET S
    OBVIOUS
  <2>2. SumOver(f, S) = f[x] + SumOver(f, S \ {x}) /\ SumOver(f, S \ {x}) \in Nat
    BY <1>1, <1>5, <2>1
  <2> QED BY <2>2
<1> QED BY <1>5, <1>6

\* The first n values of f, and where h has them.
SameSum(f, n, h, e) == SumOver(h, {e[k] : k \in 1 .. n}) = SumOver(f, 1 .. n)

LEMMA SumOfImage ==
  ASSUME NEW n \in Nat, NEW f, NEW h, NEW e,
         \A k, l \in 1 .. n : e[k] = e[l] => k = l,
         \A k \in 1 .. n : f[k] \in Int /\ h[e[k]] = f[k]
  PROVE  SameSum(f, n, h, e)
<1> DEFINE D(m) == {e[k] : k \in 1 .. m}
           Bad == {m \in Nat : m <= n /\ SumOver(h, D(m)) # SumOver(f, 1 .. m)}
<1>1. IsFiniteSet(1 .. n) /\ IsFiniteSet(D(n))
  <2>1. IsFiniteSet(1 .. n)
    BY FS_Interval
  <2>2. ExistsBijection(1 .. n, D(n))
    <3> DEFINE b == [k \in 1 .. n |-> e[k]]
    <3>1. b \in Bijection(1 .. n, D(n))
      BY DEF Bijection, Injection, Surjection, IsInjective
    <3> QED BY <3>1 DEF ExistsBijection
  <2> HIDE DEF D
  <2>3. IsFiniteSet(D(n))
    BY <2>1, <2>2, FS_Bijection, Zenon
  <2> QED BY <2>1, <2>3
<1>2. /\ \A s \in SUBSET (1 .. n) : SumOver(f, s) \in Int
      /\ SumOver(f, {}) = 0
      /\ \A s \in SUBSET (1 .. n) : \A x \in s : SumOver(f, s) = f[x] + SumOver(f, s \ {x})
  <2>1. \A x \in 1 .. n : f[x] \in Int
    OBVIOUS
  <2>2. IsFiniteSet(1 .. n)
    BY <1>1
  <2>3. SumsUp(f, 1 .. n)
    BY <2>1, <2>2, SumsOver
  <2> QED BY <2>3 DEF SumsUp
<1>3. /\ \A s \in SUBSET D(n) : SumOver(h, s) \in Int
      /\ SumOver(h, {}) = 0
      /\ \A s \in SUBSET D(n) : \A x \in s : SumOver(h, s) = h[x] + SumOver(h, s \ {x})
  <2>1. \A x \in D(n) : h[x] \in Int
    OBVIOUS
  <2>2. IsFiniteSet(D(n))
    BY <1>1
  <2> HIDE DEF D
  <2>3. SumsUp(h, D(n))
    BY <2>1, <2>2, SumsOver
  <2> QED BY <2>3 DEF SumsUp
<1>4. ASSUME NEW m \in Bad, \A l \in Bad : m <= l PROVE FALSE
  <2>1. CASE m = 0
    <3>1. D(0) = {} /\ 1 .. 0 = {}
      OBVIOUS
    <3> HIDE DEF D
    <3> QED BY <1>2, <1>3, <2>1, <3>1
  <2>2. CASE m # 0
    <3>1. m - 1 \in Nat /\ m - 1 <= n /\ ~(m <= m - 1) /\ m \in 1 .. n
      BY <2>2
    <3>2. SumOver(h, D(m - 1)) = SumOver(f, 1 .. m - 1)
      BY <1>4, <3>1
    <3>3. 1 .. m \in SUBSET (1 .. n) /\ m \in 1 .. m /\ (1 .. m) \ {m} = 1 .. m - 1
      BY <3>1
    <3>4. D(m) \in SUBSET D(n) /\ e[m] \in D(m)
      BY <3>1, <3>3
    <3>5. D(m) \ {e[m]} = D(m - 1)
      <4>1. \A k \in 1 .. m : k \in 1 .. n /\ (k # m <=> k \in 1 .. m - 1)
        BY <3>1
      <4>2. \A k \in 1 .. m - 1 : k \in 1 .. m
        BY <3>1
      <4> QED BY <3>1, <4>1, <4>2
    <3>6. SumOver(f, 1 .. m) = f[m] + SumOver(f, 1 .. m - 1)
      <4> HIDE DEF D, Bad
      <4>1. PICK S : S = 1 .. m
        OBVIOUS
      <4>2. S \in SUBSET (1 .. n) /\ m \in S /\ S \ {m} = 1 .. m - 1
        BY <3>3, <4>1
      <4>3. SumOver(f, S) = f[m] + SumOver(f, S \ {m})
        BY <1>2, <4>2
      <4> QED BY <4>1, <4>2, <4>3
    <3>7. SumOver(h, D(m)) = h[e[m]] + SumOver(h, D(m) \ {e[m]})
      <4> HIDE DEF D
      <4> QED BY <1>3, <3>4
    <3>8. h[e[m]] = f[m] /\ SumOver(h, D(m)) # SumOver(f, 1 .. m)
      BY <3>1
    <3> HIDE DEF D
    <3> QED BY <3>2, <3>5, <3>6, <3>7, <3>8
  <2> QED BY <2>1, <2>2
<1>5. Bad = {}
  <2>1. Bad \in SUBSET Nat
    OBVIOUS
  <2> HIDE DEF Bad
  <2> QED BY <1>4, <2>1, LeastNat
<1>6. n \in Nat /\ n <= n
  OBVIOUS
<1>7. SumOver(h, D(n)) = SumOver(f, 1 .. n)
  BY <1>5, <1>6
<1> QED BY <1>7 DEF SameSum

-----------------------------------------------------------------------------
(***************************************************************************)
(* Loops                                                                   *)
(***************************************************************************)

\* The states of a loop that begins in s are determined by its passes.
IsPasses(after, body, s) ==
  after[0] = s /\ \A n \in Nat : after[n + 1] = body[after[n]]

\* There are such states.
LEMMA PassesExist ==
  ASSUME NEW S, NEW body \in [S -> S], NEW s \in S
  PROVE  \E after \in [Nat -> S] : IsPasses(after, body, s)
<1> DEFINE Upto(g, n) == g[0] = s /\ \A m \in Nat : m < n => g[m + 1] = body[g[m]]
           Bad == {n \in Nat : ~ \E g \in [Nat -> S] : Upto(g, n)}
<1>1. ASSUME NEW n \in Bad, \A m \in Bad : n <= m PROVE FALSE
  <2>1. CASE n = 0
    <3> DEFINE g == [m \in Nat |-> s]
    <3>1. g \in [Nat -> S] /\ Upto(g, 0)
      OBVIOUS
    <3> QED BY <2>1, <3>1
  <2>2. CASE n # 0
    <3>1. n - 1 \in Nat /\ ~(n <= n - 1) /\ n \in Nat
      BY <2>2
    <3>2. PICK g \in [Nat -> S] : Upto(g, n - 1)
      BY <1>1, <3>1
    <3> DEFINE h == [m \in Nat |-> IF m = n THEN body[g[n - 1]] ELSE g[m]]
    <3>3. h \in [Nat -> S]
      BY <3>1
    <3>4. h[0] = s
      BY <2>2, <3>2
    <3>5. ASSUME NEW m \in Nat, m < n PROVE h[m + 1] = body[h[m]]
      <4>1. h[m] = g[m]
        BY <3>5
      <4>2. CASE m + 1 = n
        <5>1. m = n - 1
          BY <3>1, <4>2
        <5> QED BY <4>1, <4>2, <5>1
      <4>3. CASE m + 1 # n
        <5>1. m < n - 1
          BY <3>1, <3>5, <4>3
        <5> QED BY <3>2, <4>1, <4>3, <5>1
      <4> QED BY <4>2, <4>3
    <3> HIDE DEF h
    <3>6. Upto(h, n)
      BY <3>4, <3>5
    <3> QED BY <3>3, <3>6
  <2> QED BY <2>1, <2>2
<1>2. Bad = {}
  <2>1. Bad \in SUBSET Nat
    OBVIOUS
  <2> HIDE DEF Bad
  <2> QED BY <1>1, <2>1, LeastNat
<1> DEFINE G(n) == CHOOSE g : g \in [Nat -> S] /\ Upto(g, n)
           after == [n \in Nat |-> G(n)[n]]
<1>3. ASSUME NEW n \in Nat PROVE G(n) \in [Nat -> S] /\ Upto(G(n), n)
  <2>1. \E g : g \in [Nat -> S] /\ Upto(g, n)
    <3> HIDE DEF Upto
    <3>1. ~ ~ \E g \in [Nat -> S] : Upto(g, n)
      BY <1>2
    <3> QED BY <3>1
  <2> HIDE DEF Upto
  <2> QED BY <2>1
<1> HIDE DEF G
\* What holds after m passes is the same in all of them.
<1>4. ASSUME NEW n \in Nat, NEW l \in Nat
      PROVE  \A m \in Nat : m <= n /\ m <= l => G(n)[m] = G(l)[m]
  <2> DEFINE D == {m \in Nat : m <= n /\ m <= l /\ G(n)[m] # G(l)[m]}
  <2>1. ASSUME NEW m \in D, \A i \in D : m <= i PROVE FALSE
    <3>0. m \in Nat /\ m <= n /\ m <= l /\ G(n)[m] # G(l)[m]
      OBVIOUS
    <3>1. m # 0
      BY <3>0, <1>3
    <3>2. PICK i \in Nat : i + 1 = m /\ i < n /\ i < l /\ ~(m <= i)
      <4>1. m - 1 \in Nat /\ (m - 1) + 1 = m /\ m - 1 < n /\ m - 1 < l /\ ~(m <= m - 1)
        BY <3>0, <3>1
      <4> QED BY <4>1
    <3>3. G(n)[i] = G(l)[i]
      BY <2>1, <3>2
    <3>4. G(n)[i + 1] = body[G(n)[i]] /\ G(l)[i + 1] = body[G(l)[i]]
      BY <1>3, <3>2
    <3> QED BY <3>0, <3>2, <3>3, <3>4
  <2>2. D = {}
    <3>1. D \in SUBSET Nat
      OBVIOUS
    <3> HIDE DEF D
    <3> QED BY <2>1, <3>1, LeastNat
  <2> QED BY <2>2
<1>5. after \in [Nat -> S] /\ after[0] = s
  BY <1>3
<1>6. ASSUME NEW n \in Nat PROVE after[n + 1] = body[after[n]]
  <2>1. n + 1 \in Nat /\ n < n + 1 /\ n <= n /\ n <= n + 1
    OBVIOUS
  <2>2. G(n + 1)[n + 1] = body[G(n + 1)[n]]
    BY <1>3, <2>1
  <2>3. G(n + 1)[n] = G(n)[n]
    BY <1>4, <2>1
  <2> QED BY <2>1, <2>2, <2>3
<1> HIDE DEF after
<1> QED BY <1>5, <1>6 DEF IsPasses

LEMMA PassesFacts ==
  ASSUME NEW S, NEW body \in [S -> S], NEW s \in S
  PROVE  Passes(body, s) \in [Nat -> S] /\ IsPasses(Passes(body, s), body, s)
<1> DEFINE F(after) == after = [n \in Nat |-> IF n = 0 THEN s ELSE body[after[n - 1]]]
<1>1. PICK f \in [Nat -> S] : IsPasses(f, body, s)
  BY PassesExist
<1>2. F(f)
  <2>1. ASSUME NEW n \in Nat PROVE f[n] = IF n = 0 THEN s ELSE body[f[n - 1]]
    <3>1. CASE n = 0
      BY <1>1, <3>1 DEF IsPasses
    <3>2. CASE n # 0
      <4>1. PICK m \in Nat : m = n - 1 /\ n = m + 1
        BY <3>2
      <4>2. f[m + 1] = body[f[m]]
        BY <1>1 DEF IsPasses
      <4> QED BY <3>2, <4>1, <4>2
    <3> QED BY <3>1, <3>2
  <2>2. f = [n \in Nat |-> f[n]]
    BY <1>1
  <2> QED BY <2>1, <2>2
<1> DEFINE g == CHOOSE after : F(after)
<1>3. Passes(body, s) = g
  BY DEF Passes
<1> HIDE DEF F
<1>4. F(g)
  BY <1>2
<1> HIDE DEF g
<1> USE DEF F
<1>5. g[0] = s /\ \A n \in Nat : g[n + 1] = body[g[n]]
  <2>1. g[0] = s
    BY <1>4
  <2>2. ASSUME NEW n \in Nat PROVE g[n + 1] = body[g[n]]
    <3>1. n + 1 \in Nat /\ n + 1 # 0 /\ (n + 1) - 1 = n
      OBVIOUS
    <3>2. g[n + 1] = IF n + 1 = 0 THEN s ELSE body[g[(n + 1) - 1]]
      BY <1>4, <3>1
    <3> QED BY <3>1, <3>2
  <2> QED BY <2>1, <2>2
<1>6. \A n \in Nat : g[n] \in S
  <2> DEFINE Bad == {n \in Nat : g[n] \notin S}
  <2>1. ASSUME NEW n \in Bad, \A m \in Bad : n <= m PROVE FALSE
    <3>1. n # 0
      BY <1>5
    <3>2. PICK m \in Nat : n = m + 1 /\ ~(n <= m)
      <4>1. n - 1 \in Nat /\ n = (n - 1) + 1 /\ ~(n <= n - 1)
        BY <3>1
      <4> QED BY <4>1
    <3>3. g[m] \in S
      BY <2>1, <3>2
    <3> QED BY <1>5, <3>2, <3>3
  <2>2. Bad \in SUBSET Nat
    OBVIOUS
  <2>3. Bad = {}
    <3> HIDE DEF Bad
    <3> QED BY <2>1, <2>2, LeastNat
  <2> QED BY <2>3
<1>7. g \in [Nat -> S]
  <2>1. g = [n \in Nat |-> IF n = 0 THEN s ELSE body[g[n - 1]]]
    BY <1>4
  <2>2. DOMAIN g = Nat /\ g = [n \in Nat |-> g[n]]
    BY <2>1
  <2> QED BY <1>6, <2>2
<1> QED BY <1>3, <1>5, <1>7 DEF IsPasses

\* What holds when a loop begins, and after a pass if it held before it, holds
\* after every pass.  J[n] are the states that n passes may lead to.
LEMMA LoopInvariant ==
  ASSUME NEW S, NEW body \in [S -> S], NEW s \in S, NEW J, s \in J[0],
         \A n \in Nat : \A x \in S : x \in J[n] => body[x] \in J[n + 1]
  PROVE  \A n \in Nat : Passes(body, s)[n] \in S /\ Passes(body, s)[n] \in J[n]
<1> DEFINE g == Passes(body, s)
           Bad == {n \in Nat : g[n] \notin J[n]}
<1>0. g \in [Nat -> S] /\ IsPasses(g, body, s)
  BY PassesFacts
<1> HIDE DEF g
<1>1. g \in [Nat -> S] /\ g[0] = s /\ \A n \in Nat : g[n + 1] = body[g[n]]
  BY <1>0 DEF IsPasses
<1>2. ASSUME NEW n \in Bad, \A m \in Bad : n <= m PROVE FALSE
  <2>1. n # 0
    BY <1>1
  <2>2. PICK m \in Nat : n = m + 1 /\ ~(n <= m)
    <3>1. n - 1 \in Nat /\ n = (n - 1) + 1 /\ ~(n <= n - 1)
      BY <2>1
    <3> QED BY <3>1
  <2>3. g[m] \in J[m] /\ g[m] \in S
    BY <1>1, <1>2, <2>2
  <2>4. g[m + 1] \in J[m + 1]
    BY <1>1, <2>2, <2>3
  <2> QED BY <2>2, <2>4
<1>3. Bad \in SUBSET Nat
  OBVIOUS
<1>4. Bad = {}
  <2> HIDE DEF Bad
  <2> QED BY <1>2, <1>3, LeastNat
<1>5. \A n \in Nat : g[n] \in S /\ g[n] \in J[n]
  BY <1>1, <1>4
<1> QED BY <1>5 DEF g

-----------------------------------------------------------------------------
(***************************************************************************)
(* Remainders                                                              *)
(***************************************************************************)

\* A multiple of N that is over 0 is N or more.
LEMMA AtLeastOne ==
  ASSUME NEW N \in Nat \ {0}, NEW d \in Int, N * d > 0
  PROVE  N * d >= N
<1>1. d >= 1
  OBVIOUS
<1> QED BY <1>1

LEMMA DivisionIs ==
  ASSUME NEW N \in Nat \ {0}, NEW a \in Nat
  PROVE  /\ a % N \in 0 .. N - 1 /\ a \div N \in Int
         /\ a = N * (a \div N) + (a % N)
OBVIOUS

\* There is one remainder only.
LEMMA OneRemainder ==
  ASSUME NEW N \in Nat \ {0}, NEW q \in Int, NEW r \in 0 .. N - 1,
         NEW s \in Int, NEW v \in 0 .. N - 1, N * q + r = N * s + v
  PROVE  r = v
<1>1. PICK d \in Int : d = q - s
  OBVIOUS
<1>2. N * d = v - r
  <2>1. N * d = N * q - N * s
    BY <1>1
  <2> QED BY <2>1
<1>3. ~(N * d > 0)
  BY <1>2, AtLeastOne
<1>4. PICK c \in Int : c = s - q
  OBVIOUS
<1>5. N * c = r - v
  <2>1. N * c = N * s - N * q
    BY <1>4
  <2> QED BY <2>1
<1>6. ~(N * c > 0)
  BY <1>5, AtLeastOne
<1> QED BY <1>2, <1>3, <1>5, <1>6

\* Numbers with the same remainder are N apart or more.
LEMMA Remainders ==
  ASSUME NEW N \in Nat \ {0}, NEW a \in Nat, NEW b \in Nat
  PROVE  /\ a % N \in 0 .. N - 1 /\ (a + N) % N = a % N
         /\ a < N => a % N = a
         /\ a < b /\ a % N = b % N => b - a >= N
<1>1. PICK q \in Int, r \in 0 .. N - 1 : r = a % N /\ a = N * q + r
  BY DivisionIs
<1>2. PICK s \in Int, v \in 0 .. N - 1 : v = b % N /\ b = N * s + v
  BY DivisionIs
<1>3. (a + N) % N = a % N
  <2>0. PICK m \in Nat : m = a + N
    OBVIOUS
  <2>1. m % N \in 0 .. N - 1 /\ m \div N \in Int /\ m = N * (m \div N) + (m % N)
    BY DivisionIs
  <2>2. q + 1 \in Int /\ N * (q + 1) + r = N * (m \div N) + (m % N)
    BY <1>1, <2>0, <2>1
  <2>3. r = m % N
    BY <2>1, <2>2, OneRemainder
  <2> QED BY <1>1, <2>0, <2>1, <2>3
<1>4. ASSUME a < N PROVE a % N = a
  <2>1. a \in 0 .. N - 1 /\ 0 \in Int /\ N * 0 + a = N * q + r
    BY <1>1, <1>4
  <2>2. a = r
    BY <2>1, OneRemainder
  <2> QED BY <1>1, <2>2
<1>5. ASSUME a < b, a % N = b % N PROVE b - a >= N
  <2>1. PICK d \in Int : d = s - q
    OBVIOUS
  <2>2. b - a = N * d
    <3>1. N * d = N * s - N * q
      BY <2>1
    <3>2. N * s \in Int /\ N * q \in Int /\ r = v
      BY <1>1, <1>2, <1>5
    <3>3. a = N * q + r /\ b = N * s + r
      BY <1>1, <1>2, <3>2
    <3> QED BY <3>1, <3>2, <3>3
  <2>3. N * d > 0
    BY <1>5, <2>2
  <2> QED BY <2>2, <2>3, AtLeastOne
<1> QED BY <1>1, <1>3, <1>4, <1>5

\* A remainder may be taken before something is added.
LEMMA RemainderOfSum ==
  ASSUME NEW N \in Nat \ {0}, NEW a \in Nat, NEW b \in Nat
  PROVE  ((a % N) + b) % N = (a + b) % N
<1>1. PICK q \in Int, r \in 0 .. N - 1 : r = a % N /\ a = N * q + r
  BY DivisionIs
<1>2. PICK m \in Nat : m = r + b
  OBVIOUS
<1>3. PICK k \in Nat : k = a + b
  OBVIOUS
<1>4. PICK s \in Int, v \in 0 .. N - 1 : v = m % N /\ m = N * s + v
  BY DivisionIs
<1>5. PICK t \in Int, w \in 0 .. N - 1 : w = k % N /\ k = N * t + w
  BY DivisionIs
<1>6. PICK u \in Int : u = q + s
  OBVIOUS
<1>7. N * u + v = N * t + w
  <2>1. N * u = N * q + N * s
    BY <1>6
  <2>2. PICK x \in Int, y \in Int : x = N * q /\ y = N * s
    OBVIOUS
  <2>3. a = x + r /\ r + b = y + v /\ a + b = N * t + w /\ N * u = x + y
    BY <1>1, <1>2, <1>3, <1>4, <1>5, <2>1, <2>2
  <2>4. PICK z \in Int : z = N * t
    OBVIOUS
  <2> QED BY <2>2, <2>3, <2>4
<1>8. v = w
  BY <1>7, OneRemainder
<1> QED BY <1>1, <1>2, <1>3, <1>4, <1>5, <1>8
=============================================================================
