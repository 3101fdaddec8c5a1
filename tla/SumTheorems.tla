----------------------------- MODULE SumTheorems -----------------------------
(***************************************************************************)
(* What the proofs need to know of SumFunction, the sum of the values of a *)
(* function with a finite domain: the order of the additions does not      *)
(* matter, and a change of one value changes the sum by as much.           *)
(*                                                                         *)
(* Induction goes over sets of natural numbers, whose least element is     *)
(* given by WFMin.                                                         *)
(***************************************************************************)
EXTENDS Integers, FiniteSets, Functions, FiniteSetTheorems, WellFoundedInduction, TLAPS

(* A set of numbers with 0 and every successor has all of them.            *)
LEMMA AllNumbers ==
  ASSUME NEW N \in SUBSET Nat, 0 \in N, \A n \in N : n + 1 \in N
  PROVE  N = Nat
<1> SUFFICES ASSUME N # Nat PROVE FALSE
  OBVIOUS
<1>1. IsWellFoundedOn(OpToRel(<, Nat), Nat)
  BY NatLessThanWellFounded
<1>2. \E m \in Nat \ N : \A n \in Nat \ N : ~(<<n, m>> \in OpToRel(<, Nat))
  <2>1. Nat \ N # {} /\ Nat \ N \subseteq Nat
    OBVIOUS
  <2> QED
    BY <1>1, <2>1, WFMin
<1>3. \E m \in Nat \ N : \A n \in Nat : n < m => n \in N
  BY <1>2 DEF OpToRel
<1>4. PICK m \in Nat \ N : \A n \in Nat : n < m => n \in N
  BY <1>3
<1>5. m # 0 /\ m - 1 \in Nat
  OBVIOUS
<1>6. m - 1 \in N
  BY <1>4, <1>5
<1> QED
  BY <1>5, <1>6

-----------------------------------------------------------------------------
(* The equation that the function inside SumFunction is to satisfy.        *)

First(s) == CHOOSE x \in s : TRUE

SumStep(f, g, s) == IF s = {} THEN 0 ELSE f[First(s)] + g[s \ {First(s)}]

Solves(f, S, g) == \A s \in SUBSET S : g[s] = SumStep(f, g, s)
Sums(f, S, g) == g \in [SUBSET S -> Int] /\ Solves(f, S, g)

Same(f, e, T) == \A x \in T : f[x] = e[x]

(* The element chosen is one of the set.                                   *)
LEMMA FirstIn == ASSUME NEW s, s # {} PROVE First(s) \in s
BY DEF First

(* Smaller by one.                                                         *)
LEMMA RestOf ==
  ASSUME NEW S, IsFiniteSet(S), NEW s \in SUBSET S, NEW x \in s
  PROVE  /\ s \ {x} \in SUBSET S
         /\ IsFiniteSet(s) /\ Cardinality(s) \in Nat \ {0}
         /\ Cardinality(s \ {x}) = Cardinality(s) - 1
<1>1. IsFiniteSet(s)
  BY FS_Subset
<1>2. Cardinality(s) \in Nat /\ Cardinality(s) # 0
  BY <1>1, FS_CardinalityType, FS_EmptySet
<1>3. Cardinality(s \ {x}) = Cardinality(s) - 1
  BY <1>1, FS_RemoveElement
<1> QED
  BY <1>1, <1>2, <1>3

(* There is such a function: one for all sets up to a size gives one for   *)
(* the next size.                                                          *)
LEMMA SumExists ==
  ASSUME NEW S, IsFiniteSet(S), NEW f \in [S -> Int]
  PROVE  \E g : Sums(f, S, g)
<1> DEFINE UpTo(g, n) == \A s \in SUBSET S : Cardinality(s) <= n => g[s] = SumStep(f, g, s)
           Sizes == {n \in Nat : \E g \in [SUBSET S -> Int] : UpTo(g, n)}
<1>1. 0 \in Sizes
  <2> DEFINE g == [s \in SUBSET S |-> 0]
  <2>1. \A s \in SUBSET S : Cardinality(s) <= 0 => s = {}
    <3> SUFFICES ASSUME NEW s \in SUBSET S, Cardinality(s) <= 0 PROVE s = {}
      OBVIOUS
    <3>1. IsFiniteSet(s) /\ Cardinality(s) \in Nat
      BY FS_Subset, FS_CardinalityType
    <3> QED
      BY <3>1, FS_EmptySet
  <2>2. UpTo(g, 0)
    BY <2>1 DEF SumStep
  <2>3. g \in [SUBSET S -> Int]
    OBVIOUS
  <2> QED
    BY <2>2, <2>3
<1>2. ASSUME NEW n \in Sizes
      PROVE  n + 1 \in Sizes
  <2>1. PICK g \in [SUBSET S -> Int] : UpTo(g, n)
    OBVIOUS
  <2> DEFINE h == [s \in SUBSET S |-> SumStep(f, g, s)]
  <2>2. h \in [SUBSET S -> Int]
    <3> SUFFICES ASSUME NEW s \in SUBSET S PROVE SumStep(f, g, s) \in Int
      OBVIOUS
    <3>1. s # {} => First(s) \in S /\ s \ {First(s)} \in SUBSET S
      BY FirstIn
    <3> QED
      BY <3>1 DEF SumStep
  <2>3. ASSUME NEW s \in SUBSET S, Cardinality(s) <= n + 1
        PROVE  h[s] = SumStep(f, h, s)
    <3>1. CASE s = {}
      BY <3>1 DEF SumStep
    <3>2. CASE s # {}
      <4> DEFINE r == s \ {First(s)}
      <4>1. r \in SUBSET S /\ Cardinality(r) <= n
        <5>1. First(s) \in s /\ n \in Nat
          BY <3>2, FirstIn
        <5> QED
          BY <2>3, <5>1, RestOf
      <4>2. g[r] = SumStep(f, g, r)
        BY <2>1, <4>1
      <4>3. h[r] = g[r]
        BY <4>1, <4>2
      <4> QED
        BY <3>2, <4>3 DEF SumStep
    <3> QED
      BY <3>1, <3>2
  <2>4. UpTo(h, n + 1)
    BY <2>3
  <2> HIDE DEF h, UpTo
  <2> QED
    BY <2>2, <2>4
<1>3. Sizes = Nat
  <2> HIDE DEF Sizes
  <2>1. Sizes \in SUBSET Nat
    BY DEF Sizes
  <2> QED
    BY <1>1, <1>2, <2>1, AllNumbers
<1>4. Cardinality(S) \in Sizes
  BY <1>3, FS_CardinalityType
<1>5. PICK g \in [SUBSET S -> Int] : UpTo(g, Cardinality(S))
  BY <1>4
<1>6. \A s \in SUBSET S : Cardinality(s) <= Cardinality(S)
  BY FS_Subset
<1> QED
  BY <1>5, <1>6 DEF Sums, Solves

(* The equation determines its solution, and over a set only by the values *)
(* of f there.                                                             *)
LEMMA SumAgree ==
  ASSUME NEW S, IsFiniteSet(S), NEW f, NEW g, NEW h, NEW e, NEW T \in SUBSET S,
         Same(f, e, T), Solves(f, S, g), Solves(e, S, h)
  PROVE  g[T] = h[T]
<1> DEFINE Equal(n) == \A s \in SUBSET T : Cardinality(s) <= n => g[s] = h[s]
           Sizes == {n \in Nat : Equal(n)}
<1>1. ASSUME NEW s \in SUBSET T, s # {}, g[s \ {First(s)}] = h[s \ {First(s)}]
      PROVE  g[s] = h[s]
  <2>1. g[s] = SumStep(f, g, s) /\ h[s] = SumStep(e, h, s)
    BY DEF Solves
  <2>2. f[First(s)] = e[First(s)]
    BY <1>1, FirstIn DEF Same
  <2> QED
    BY <1>1, <2>1, <2>2 DEF SumStep
<1>2. g[{}] = h[{}]
  BY DEF SumStep, Solves
<1>3. IsFiniteSet(T)
  BY FS_Subset
<1>4. 0 \in Sizes
  <2>1. ASSUME NEW s \in SUBSET T, Cardinality(s) <= 0
        PROVE  s = {}
    <3>1. IsFiniteSet(s) /\ Cardinality(s) \in Nat
      BY <1>3, FS_Subset, FS_CardinalityType
    <3> QED
      BY <2>1, <3>1, FS_EmptySet
  <2> QED
    BY <1>2, <2>1
<1>5. ASSUME NEW n \in Sizes
      PROVE  n + 1 \in Sizes
  <2>1. ASSUME NEW s \in SUBSET T, Cardinality(s) <= n + 1
        PROVE  g[s] = h[s]
    <3>1. CASE s = {}
      BY <1>2, <3>1
    <3>2. CASE s # {}
      <4>1. First(s) \in s
        BY <3>2, FirstIn
      <4>2. s \ {First(s)} \in SUBSET T /\ Cardinality(s \ {First(s)}) <= n
        BY <1>3, <2>1, <4>1, RestOf
      <4> QED
        BY <1>1, <3>2, <4>2
    <3> QED
      BY <3>1, <3>2
  <2> QED
    BY <2>1
<1>6. Sizes = Nat
  <2>1. Sizes \in SUBSET Nat
    OBVIOUS
  <2> HIDE DEF Sizes
  <2> QED
    BY <1>4, <1>5, <2>1, AllNumbers
<1>7. Cardinality(T) \in Nat
  BY <1>3, FS_CardinalityType
<1> QED
  BY <1>6, <1>7

(* SumFunction is the value of the function there is.                      *)
LEMMA SumIs ==
  ASSUME NEW S, IsFiniteSet(S), NEW f \in [S -> Int], NEW g, Sums(f, S, g)
  PROVE  SumFunction(f) = g[S]
<1> DEFINE sum[s \in SUBSET S] ==
             IF s = {} THEN 0
             ELSE LET x == CHOOSE x \in s : TRUE IN f[x] + sum[s \ {x}]
<1>1. g = [s \in SUBSET S |->
             IF s = {} THEN 0
             ELSE LET x == CHOOSE x \in s : TRUE IN f[x] + g[s \ {x}]]
  BY DEF Sums, Solves, SumStep, First
<1>2. sum = [s \in SUBSET S |->
               IF s = {} THEN 0
               ELSE LET x == CHOOSE x \in s : TRUE IN f[x] + sum[s \ {x}]]
  BY <1>1
<1>3. SumFunction(f) = sum[S]
  <2>1. DOMAIN f = S
    OBVIOUS
  <2> QED
    BY <2>1 DEF SumFunction, SumFunctionOnSet, FoldFunctionOnSet, MapThenFoldSet
<1> HIDE DEF sum
<1>4. Solves(f, S, sum)
  BY <1>2 DEF Solves, SumStep, First
<1>5. Solves(f, S, g) /\ Same(f, f, S)
  BY DEF Sums, Same
<1>6. sum[S] = g[S]
  BY <1>4, <1>5, SumAgree
<1> QED
  BY <1>3, <1>6

(* The element that is added last need not be the first one.               *)
LEMMA SumRemove ==
  ASSUME NEW S, IsFiniteSet(S), NEW f \in [S -> Int], NEW g, Sums(f, S, g),
         NEW T \in SUBSET S, NEW p \in T
  PROVE  g[T] = f[p] + g[T \ {p}]
<1> DEFINE AnyOrder(n) == \A s \in SUBSET S : Cardinality(s) <= n =>
                            \A x \in s : g[s] = f[x] + g[s \ {x}]
           Sizes == {n \in Nat : AnyOrder(n)}
<1>1. 0 \in Sizes
  <2>1. ASSUME NEW s \in SUBSET S, Cardinality(s) <= 0, NEW x \in s
        PROVE  FALSE
    <3>1. Cardinality(s) \in Nat \ {0}
      BY RestOf
    <3> QED
      BY <2>1, <3>1
  <2> QED
    BY <2>1
<1>2. ASSUME NEW n \in Sizes
      PROVE  n + 1 \in Sizes
  <2>1. ASSUME NEW s \in SUBSET S, Cardinality(s) <= n + 1, NEW x \in s
        PROVE  g[s] = f[x] + g[s \ {x}]
    <3> DEFINE c == First(s)
    <3>1. c \in s /\ g[s] = f[c] + g[s \ {c}]
      BY FirstIn DEF Sums, Solves, SumStep
    <3> HIDE DEF c
    <3>2. CASE c = x
      BY <3>1, <3>2
    <3>3. CASE c # x
      <4>1. /\ s \ {x} \in SUBSET S /\ Cardinality(s \ {x}) <= n
            /\ s \ {c} \in SUBSET S /\ Cardinality(s \ {c}) <= n
        <5>1. /\ s \ {x} \in SUBSET S /\ Cardinality(s) \in Nat
              /\ Cardinality(s \ {x}) = Cardinality(s) - 1
          BY RestOf
        <5>2. /\ s \ {c} \in SUBSET S
              /\ Cardinality(s \ {c}) = Cardinality(s) - 1
          BY <3>1, RestOf
        <5> QED
          BY <2>1, <5>1, <5>2
      <4> DEFINE rest == (s \ {c}) \ {x}
      <4>2. g[s \ {c}] = f[x] + g[rest]
        BY <3>3, <4>1
      <4>3. g[s \ {x}] = f[c] + g[rest]
        <5>1. (s \ {x}) \ {c} = rest
          OBVIOUS
        <5>2. g[s \ {x}] = f[c] + g[(s \ {x}) \ {c}]
          BY <3>1, <3>3, <4>1
        <5> QED
          BY <5>1, <5>2
      <4>4. f[x] \in Int /\ f[c] \in Int /\ g[rest] \in Int
        BY <3>1 DEF Sums
      <4> DEFINE a == f[x]
                 b == f[c]
                 r == g[rest]
      <4>5. g[s] = b + (a + r) /\ g[s \ {x}] = b + r /\ a \in Int /\ b \in Int /\ r \in Int
        BY <3>1, <4>2, <4>3, <4>4
      <4> HIDE DEF a, b, r, rest
      <4>6. g[s] = a + g[s \ {x}]
        BY <4>5
      <4> QED
        BY <4>6 DEF a
    <3> QED
      BY <3>2, <3>3
  <2> QED
    BY <2>1
<1>3. Sizes = Nat
  <2>1. Sizes \in SUBSET Nat
    OBVIOUS
  <2> HIDE DEF Sizes
  <2> QED
    BY <1>1, <1>2, <2>1, AllNumbers
<1>4. Cardinality(T) \in Sizes
  BY <1>3, FS_Subset, FS_CardinalityType
<1> QED
  BY <1>4

-----------------------------------------------------------------------------
(* The facts the proofs use.                                               *)

(* A sum of integers is an integer.                                        *)
LEMMA SumIsInt ==
  ASSUME NEW S, IsFiniteSet(S), NEW f \in [S -> Int]
  PROVE  SumFunction(f) \in Int
<1>1. PICK g : Sums(f, S, g)
  BY SumExists
<1> QED
  BY <1>1, SumIs DEF Sums

(* One value changes.                                                      *)
LEMMA SumChange ==
  ASSUME NEW S, IsFiniteSet(S), NEW f \in [S -> Int], NEW e \in [S -> Int],
         NEW p \in S, \A q \in S \ {p} : e[q] = f[q]
  PROVE  SumFunction(e) = SumFunction(f) + e[p] - f[p]
<1>1. PICK g : Sums(f, S, g)
  BY SumExists
<1>2. PICK h : Sums(e, S, h)
  BY SumExists
<1>3. SumFunction(f) = g[S] /\ SumFunction(e) = h[S]
  BY <1>1, <1>2, SumIs
<1>4. g[S] = f[p] + g[S \ {p}]
  BY <1>1, SumRemove
<1>5. h[S] = e[p] + h[S \ {p}]
  BY <1>2, SumRemove
<1>6. g[S \ {p}] = h[S \ {p}]
  <2> DEFINE T == S \ {p}
  <2>1. Solves(f, S, g) /\ Solves(e, S, h)
    BY <1>1, <1>2 DEF Sums
  <2>2. T \in SUBSET S /\ Same(f, e, T)
    BY DEF Same
  <2> HIDE DEF T
  <2>3. g[T] = h[T]
    BY <2>1, <2>2, SumAgree
  <2> QED
    BY <2>3 DEF T
<1>7. f[p] \in Int /\ e[p] \in Int /\ g[S \ {p}] \in Int
  BY <1>1 DEF Sums
<1> QED
  BY <1>3, <1>4, <1>5, <1>6, <1>7

(* A sum of nothing but zeros.                                             *)
LEMMA SumZero ==
  ASSUME NEW S, IsFiniteSet(S), NEW f \in [S -> Int], \A p \in S : f[p] = 0
  PROVE  SumFunction(f) = 0
<1> DEFINE g == [s \in SUBSET S |-> 0]
<1>1. Sums(f, S, g)
  <2>1. ASSUME NEW s \in SUBSET S
        PROVE  g[s] = SumStep(f, g, s)
    <3>1. s # {} => First(s) \in S
      BY FirstIn
    <3> QED
      BY <3>1 DEF SumStep
  <2> QED
    BY <2>1 DEF Sums, Solves
<1> QED
  BY <1>1, SumIs

(* Numbers not below zero have a sum not below any of them.                *)
LEMMA SumBound ==
  ASSUME NEW S, IsFiniteSet(S), NEW f \in [S -> Int], \A p \in S : f[p] >= 0
  PROVE  SumFunction(f) >= 0 /\ \A p \in S : SumFunction(f) >= f[p]
<1>1. PICK g : Sums(f, S, g)
  BY SumExists
<1> DEFINE Positive(n) == \A s \in SUBSET S : Cardinality(s) <= n => g[s] >= 0
           Sizes == {n \in Nat : Positive(n)}
<1>2. g[{}] = 0
  BY <1>1 DEF Sums, Solves, SumStep
<1>3. 0 \in Sizes
  <2>1. ASSUME NEW s \in SUBSET S, Cardinality(s) <= 0
        PROVE  s = {}
    <3>1. IsFiniteSet(s) /\ Cardinality(s) \in Nat
      BY FS_Subset, FS_CardinalityType
    <3> QED
      BY <2>1, <3>1, FS_EmptySet
  <2> QED
    BY <1>2, <2>1
<1>4. ASSUME NEW n \in Sizes
      PROVE  n + 1 \in Sizes
  <2>1. ASSUME NEW s \in SUBSET S, Cardinality(s) <= n + 1
        PROVE  g[s] >= 0
    <3>1. CASE s = {}
      BY <1>2, <3>1
    <3>2. CASE s # {}
      <4> DEFINE x == First(s)
      <4>1. x \in s
        BY <3>2, FirstIn
      <4> HIDE DEF x
      <4>2. s \ {x} \in SUBSET S /\ Cardinality(s \ {x}) <= n
        BY <2>1, <4>1, RestOf
      <4>3. g[s \ {x}] >= 0
        BY <4>2
      <4>4. g[s] = f[x] + g[s \ {x}]
        BY <1>1, <4>1, SumRemove
      <4>5. f[x] \in Int /\ f[x] >= 0 /\ g[s \ {x}] \in Int
        BY <1>1, <4>1, <4>2 DEF Sums
      <4> QED
        BY <4>3, <4>4, <4>5
    <3> QED
      BY <3>1, <3>2
  <2> QED
    BY <2>1
<1>5. Sizes = Nat
  <2>1. Sizes \in SUBSET Nat
    OBVIOUS
  <2> HIDE DEF Sizes
  <2> QED
    BY <1>3, <1>4, <2>1, AllNumbers
<1>6. \A s \in SUBSET S : g[s] >= 0 /\ g[s] \in Int
  <2> TAKE s \in SUBSET S
  <2>1. Cardinality(s) \in Nat
    BY FS_Subset, FS_CardinalityType
  <2> QED
    BY <1>1, <1>5, <2>1 DEF Sums
<1>7. ASSUME NEW p \in S
      PROVE  g[S] >= f[p]
  <2>1. g[S] = f[p] + g[S \ {p}]
    BY <1>1, SumRemove
  <2>2. g[S \ {p}] >= 0 /\ g[S \ {p}] \in Int /\ f[p] \in Int
    BY <1>6
  <2> QED
    BY <2>1, <2>2
<1> QED
  BY <1>1, <1>6, <1>7, SumIs

(* Two values change.                                                      *)
LEMMA SumChangeTwo ==
  ASSUME NEW S, IsFiniteSet(S), NEW f \in [S -> Int], NEW e \in [S -> Int],
         NEW p \in S, NEW q \in S, p # q, \A x \in S \ {p, q} : e[x] = f[x]
  PROVE  SumFunction(e) = SumFunction(f) + (e[p] - f[p]) + (e[q] - f[q])
<1>1. PICK m \in [S -> Int] : m = [f EXCEPT ![p] = e[p]]
  OBVIOUS
<1>2. SumFunction(m) = SumFunction(f) + m[p] - f[p]
  <2>1. \A x \in S \ {p} : m[x] = f[x]
    BY <1>1
  <2> QED
    BY <2>1, SumChange
<1>3. SumFunction(e) = SumFunction(m) + e[q] - m[q]
  <2>1. \A x \in S \ {q} : e[x] = m[x]
    BY <1>1
  <2> QED
    BY <2>1, SumChange
<1>4. m[p] = e[p] /\ m[q] = f[q]
  BY <1>1
<1>5. SumFunction(f) \in Int /\ f[p] \in Int /\ e[p] \in Int /\ f[q] \in Int /\ e[q] \in Int
  BY SumIsInt
<1> QED
  BY <1>2, <1>3, <1>4, <1>5

(* The sum of two functions, by the number of values of the second that    *)
(* are not zero.                                                           *)
Added(S, f, g) == [p \in S |-> f[p] + g[p]]
Additive(S, f, g) == SumFunction(Added(S, f, g)) = SumFunction(f) + SumFunction(g)

LEMMA SumAddNone ==
  ASSUME NEW S, IsFiniteSet(S), NEW f \in [S -> Int], NEW g \in [S -> Int],
         \A p \in S : g[p] = 0
  PROVE  Additive(S, f, g)
<1>1. SumFunction(g) = 0
  BY SumZero
<1>2. Added(S, f, g) = f
  BY DEF Added
<1>3. SumFunction(f) \in Int
  BY SumIsInt
<1> QED
  BY <1>1, <1>2, <1>3 DEF Additive

LEMMA SumAddOne ==
  ASSUME NEW S, IsFiniteSet(S), NEW f \in [S -> Int], NEW g \in [S -> Int], NEW x \in S,
         Additive(S, f, [g EXCEPT ![x] = 0])
  PROVE  Additive(S, f, g)
<1>1. PICK e \in [S -> Int] : e = [g EXCEPT ![x] = 0]
  <2>1. [g EXCEPT ![x] = 0] \in [S -> Int]
    OBVIOUS
  <2> QED
    BY <2>1, Zenon
<1>2. PICK a \in [S -> Int] : a = Added(S, f, e)
  <2>1. Added(S, f, e) \in [S -> Int]
    BY DEF Added
  <2> QED
    BY <2>1
<1>3. PICK b \in [S -> Int] : b = Added(S, f, g)
  <2>1. Added(S, f, g) \in [S -> Int]
    BY DEF Added
  <2> QED
    BY <2>1
<1>4. SumFunction(g) = SumFunction(e) + g[x] - e[x]
  <2>1. \A q \in S \ {x} : g[q] = e[q]
    BY <1>1
  <2> QED
    BY <2>1, SumChange
<1>5. SumFunction(b) = SumFunction(a) + b[x] - a[x]
  <2>1. \A q \in S \ {x} : b[q] = a[q]
    BY <1>1, <1>2, <1>3 DEF Added
  <2> QED
    BY <2>1, SumChange
<1>6. e[x] = 0 /\ a[x] = f[x] + e[x] /\ b[x] = f[x] + g[x]
  <2>1. e[x] = 0
    BY <1>1
  <2>2. a[x] = f[x] + e[x]
    BY <1>2, Zenon DEF Added
  <2>3. b[x] = f[x] + g[x]
    BY <1>3, Zenon DEF Added
  <2> QED
    BY <2>1, <2>2, <2>3, Zenon
<1>7. SumFunction(a) = SumFunction(f) + SumFunction(e)
  BY <1>1, <1>2 DEF Additive
<1>8. SumFunction(f) \in Int /\ SumFunction(e) \in Int /\ f[x] \in Int /\ g[x] \in Int
  BY SumIsInt
<1>9. SumFunction(b) = SumFunction(f) + SumFunction(g)
  BY <1>4, <1>5, <1>6, <1>7, <1>8
<1> QED
  BY <1>3, <1>9 DEF Additive

LEMMA SumAdd ==
  ASSUME NEW S, IsFiniteSet(S), NEW f \in [S -> Int], NEW g \in [S -> Int],
         NEW h, h = [p \in S |-> f[p] + g[p]]
  PROVE  SumFunction(h) = SumFunction(f) + SumFunction(g)
<1> DEFINE Few(e, n) == \E T \in SUBSET S : Cardinality(T) <= n /\ \A p \in S \ T : e[p] = 0
           Sizes == {n \in Nat : \A e \in [S -> Int] : Few(e, n) => Additive(S, f, e)}
<1>1. 0 \in Sizes
  <2>1. ASSUME NEW e \in [S -> Int], NEW T \in SUBSET S, Cardinality(T) <= 0,
               \A p \in S \ T : e[p] = 0
        PROVE  Additive(S, f, e)
    <3>1. IsFiniteSet(T) /\ Cardinality(T) \in Nat
      BY FS_Subset, FS_CardinalityType
    <3>2. T = {}
      BY <2>1, <3>1, FS_EmptySet
    <3> QED
      BY <2>1, <3>2, SumAddNone
  <2> QED
    BY <2>1
<1>2. ASSUME NEW n \in Sizes
      PROVE  n + 1 \in Sizes
  <2>1. ASSUME NEW e \in [S -> Int], NEW T \in SUBSET S, Cardinality(T) <= n + 1,
               \A p \in S \ T : e[p] = 0
        PROVE  Additive(S, f, e)
    <3>1. CASE T = {}
      BY <2>1, <3>1, SumAddNone
    <3>2. CASE T # {}
      <4>1. PICK x \in T : TRUE
        BY <3>2
      <4>2. T \ {x} \in SUBSET S /\ Cardinality(T \ {x}) <= n
        BY <2>1, <4>1, RestOf
      <4>3. PICK d \in [S -> Int] : d = [e EXCEPT ![x] = 0]
        <5>1. [e EXCEPT ![x] = 0] \in [S -> Int]
          OBVIOUS
        <5> QED
          BY <5>1, Zenon
      <4>4. \A p \in S \ (T \ {x}) : d[p] = 0
        BY <2>1, <4>1, <4>3
      <4>5. Additive(S, f, d)
        BY <4>2, <4>4
      <4> QED
        BY <4>1, <4>3, <4>5, SumAddOne
    <3> QED
      BY <3>1, <3>2
  <2> QED
    BY <2>1
<1>3. Sizes = Nat
  <2>1. Sizes \in SUBSET Nat
    OBVIOUS
  <2> HIDE DEF Sizes
  <2> QED
    BY <1>1, <1>2, <2>1, AllNumbers
<1>4. PICK n \in Nat : n = Cardinality(S)
  BY FS_CardinalityType
<1>5. Few(g, n)
  BY <1>4
<1>6. n \in Sizes
  BY <1>3, <1>4
<1>7. Additive(S, f, g)
  BY <1>5, <1>6
<1> QED
  BY <1>7 DEF Additive, Added

(* Zeros may be left out.                                                  *)
LEMMA SumPart ==
  ASSUME NEW S, IsFiniteSet(S), NEW T \in SUBSET S, NEW f \in [T -> Int],
         NEW e \in [S -> Int], Same(e, f, T), \A p \in S \ T : e[p] = 0
  PROVE  SumFunction(e) = SumFunction(f)
<1>1. IsFiniteSet(T)
  BY FS_Subset
<1>2. PICK g : Sums(f, T, g)
  BY <1>1, SumExists
<1> DEFINE h == [s \in SUBSET S |-> g[s \cap T]]
<1>3. ASSUME NEW s \in SUBSET S
      PROVE  h[s] = SumStep(e, h, s) /\ h[s] \in Int
  <2>1. h[s] \in Int
    BY <1>2 DEF Sums
  <2>2. CASE s = {}
    <3>1. s \cap T = {} /\ {} \in SUBSET T
      BY <2>2
    <3> QED
      BY <1>2, <2>1, <2>2, <3>1 DEF Sums, Solves, SumStep
  <2>3. CASE s # {}
    <3>1. PICK x \in s : x = First(s)
      BY <2>3, FirstIn
    <3>2. h[s] = e[x] + h[s \ {x}]
      <4>1. CASE x \in T
        <5>1. PICK t \in SUBSET T : t = s \cap T
          OBVIOUS
        <5>2. x \in t /\ (s \ {x}) \cap T = t \ {x}
          BY <4>1, <5>1
        <5>3. g[t] = f[x] + g[t \ {x}]
          BY <1>1, <1>2, <5>2, SumRemove
        <5> QED
          BY <4>1, <5>1, <5>2, <5>3 DEF Same
      <4>2. CASE x \notin T
        <5>1. (s \ {x}) \cap T = s \cap T
          BY <4>2
        <5>2. h[s \ {x}] = h[s] /\ e[x] = 0
          BY <4>2, <5>1
        <5> QED
          BY <2>1, <5>2
      <4> QED
        BY <4>1, <4>2
    <3> QED
      BY <2>1, <2>3, <3>1, <3>2 DEF SumStep
  <2> QED
    BY <2>1, <2>2, <2>3
<1>4. Sums(e, S, h)
  BY <1>3 DEF Sums, Solves
<1>5. SumFunction(e) = h[S]
  <2> HIDE DEF h
  <2> QED
    BY <1>4, SumIs
<1>6. h[S] = g[T]
  <2>1. S \cap T = T
    OBVIOUS
  <2> QED
    BY <2>1
<1> QED
  BY <1>1, <1>2, <1>5, <1>6, SumIs

(* What is added to numbers not below zero.                                *)
LEMMA SumGrows ==
  ASSUME NEW S, IsFiniteSet(S), NEW T \in SUBSET S, NEW f \in [T -> Int],
         NEW e \in [S -> Int], Same(e, f, T), \A p \in S : e[p] >= 0, NEW p \in S \ T
  PROVE  SumFunction(e) >= SumFunction(f) + e[p]
<1>1. PICK a : a = [q \in S |-> IF q \in T THEN e[q] ELSE 0]
  OBVIOUS
<1>2. PICK b : b = [q \in S |-> IF q \in T THEN 0 ELSE e[q]]
  OBVIOUS
<1>3. a \in [S -> Int] /\ b \in [S -> Int] /\ e = [q \in S |-> a[q] + b[q]]
  BY <1>1, <1>2
<1>4. SumFunction(e) = SumFunction(a) + SumFunction(b)
  BY <1>3, SumAdd
<1>5. SumFunction(a) = SumFunction(f)
  <2>1. Same(a, f, T) /\ \A q \in S \ T : a[q] = 0
    BY <1>1 DEF Same
  <2> QED
    BY <1>3, <2>1, SumPart
<1>6. SumFunction(b) >= e[p]
  <2>1. \A q \in S : b[q] >= 0
    BY <1>2
  <2>2. SumFunction(b) >= b[p]
    BY <1>3, <2>1, SumBound
  <2> QED
    BY <1>2, <2>2
<1>7. SumFunction(a) \in Int /\ SumFunction(b) \in Int /\ e[p] \in Int
  BY <1>3, SumIsInt
<1> QED
  BY <1>4, <1>5, <1>6, <1>7

==============================================================================
