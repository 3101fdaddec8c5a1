------------------------- MODULE Resources_proofs -------------------------
(***************************************************************************)
(* The books of the device are in order in every state the device reaches: *)
(* every resource is in one list, every history-list entry has one owner,  *)
(* the counts add up, and virtual ids name one resource.                   *)
(*                                                                         *)
(* The inductive invariant is Books, at the end.  Good says of a struct    *)
(* dlb2_hw what the lists, the domains and the history lists have to do    *)
(* with one another, CountsGood what the counts and the slots, IdsGood     *)
(* what the virtual ids.  There is one lemma per operation: it takes the   *)
(* value before and the value after, because resets and the administrator  *)
(* apply several operations in one step.  Loops are recursive functions on *)
(* 0 .. N; that such a function exists is lemma Recursion, and what holds  *)
(* after each round lemma Steps.                                           *)
(***************************************************************************)
EXTENDS Resources, SumTheorems

(* A list without repetitions of the elements of X.                        *)
Listing(s, X) == s \in Seq(X) /\ IsInjective(s) /\ ToSet(s) = X

(* The same with the indices written out.                                  *)
Numbered(s, n, X) ==
  /\ n \in Nat /\ Len(s) = n /\ DOMAIN s = 1 .. n /\ s \in Seq(X)
  /\ \A i \in 1 .. n : s[i] \in X
  /\ \A i, j \in 1 .. n : s[i] = s[j] => i = j
  /\ \A x \in X : \E i \in 1 .. n : s[i] = x

(* A list without repetitions, index by index.                             *)
LEMMA ListingNumbered ==
  ASSUME NEW s, NEW X, Listing(s, X)
  PROVE  Numbered(s, Len(s), X)
BY DEF Listing, Numbered, IsInjective, ToSet

(* And back.                                                               *)
LEMMA NumberedListing ==
  ASSUME NEW s, NEW n, NEW X, Numbered(s, n, X)
  PROVE  Listing(s, X)
<1>1. ToSet(s) = X
  BY DEF Numbered, ToSet
<1>2. IsInjective(s)
  BY DEF Numbered, IsInjective
<1> QED
  BY <1>1, <1>2 DEF Numbered, Listing

(* An empty list lists nothing, and nothing else does.                     *)
LEMMA ListingEmpty ==
  ASSUME NEW s, NEW X, Listing(s, X)
  PROVE  /\ s = << >> <=> X = {}
         /\ s = << >> <=> Len(s) = 0
         /\ Len(s) \in Nat
         /\ ToSet(s) = X /\ s \in Seq(X)
BY DEF Listing, ToSet

(* The empty list has no repetitions.                                      *)
LEMMA ListingNone == Listing(<< >>, {})
BY DEF Listing, IsInjective, ToSet

(* Nor has a list of one.                                                  *)
LEMMA ListingOne ==
  ASSUME NEW x
  PROVE  Listing(<<x>>, {x})
BY DEF Listing, IsInjective, ToSet

(* The beginning of a list and the rest of it.                             *)
LEMMA ListingParts ==
  ASSUME NEW s, NEW X, Listing(s, X), NEW k \in 0 .. Len(s), NEW l, l = k + 1
  PROVE  LET a == SubSeq(s, 1, k)
             b == SubSeq(s, l, Len(s))
         IN /\ Listing(a, ToSet(a)) /\ Listing(b, ToSet(b))
            /\ Len(a) = k /\ Len(b) = Len(s) - k
            /\ ToSet(a) \cup ToSet(b) = X
            /\ ToSet(a) \cap ToSet(b) = {}
<1> DEFINE n == Len(s)
           a == SubSeq(s, 1, k)
           b == SubSeq(s, k + 1, n)
<1>1. Numbered(s, n, X)
  BY ListingNumbered
<1>4. n \in Nat /\ k \in 0 .. n
  BY <1>1 DEF Numbered
<1>2. /\ a \in Seq(X) /\ Len(a) = k /\ DOMAIN a = 1 .. k
      /\ \A i \in 1 .. k : a[i] = s[i]
  BY <1>1 DEF Numbered
<1>3. /\ b \in Seq(X) /\ Len(b) = n - k /\ DOMAIN b = 1 .. n - k
      /\ \A i \in 1 .. n - k : b[i] = s[k + i]
  <2>1. s \in Seq(X) /\ Len(s) \in Nat /\ k \in Nat
    BY <1>1, <1>4 DEF Numbered
  <2>2. Len(b) = n - k /\ b \in Seq(X)
    BY <2>1, <1>4
  <2>3. \A i \in 1 .. n - k : b[i] = s[k + i]
    BY <2>1, <1>4
  <2> HIDE DEF b, n
  <2> QED
    BY <2>2, <2>3
<1> DEFINE A == {s[i] : i \in 1 .. k}
           B == {s[i] : i \in k + 1 .. n}
<1> HIDE DEF n, a, b
<1>5. \A i \in 1 .. k : i \in 1 .. n
  BY <1>4
<1>6. \A i \in 1 .. n - k : k + i \in 1 .. n /\ k + i \in k + 1 .. n
  BY <1>4
<1>7. Numbered(a, k, A)
  <2>1. a \in Seq(A)
    <3>1. \A i \in 1 .. k : a[i] \in A
      BY <1>2
    <3> HIDE DEF A
    <3> QED
      BY <3>1, <1>2, <1>4
  <2>2. \A i, j \in 1 .. k : a[i] = a[j] => i = j
    BY <1>1, <1>2, <1>5 DEF Numbered
  <2>3. /\ \A i \in 1 .. k : a[i] \in A
        /\ \A x \in A : \E i \in 1 .. k : a[i] = x
    BY <1>2
  <2> QED
    BY <2>1, <2>2, <2>3, <1>2, <1>4 DEF Numbered
<1>8. Numbered(b, n - k, B)
  <2>3. /\ \A i \in 1 .. n - k : b[i] \in B
        /\ \A x \in B : \E i \in 1 .. n - k : b[i] = x
    <3>1. ASSUME NEW i \in k + 1 .. n PROVE i - k \in 1 .. n - k /\ b[i - k] = s[i]
      <4>1. i - k \in 1 .. n - k /\ k + (i - k) = i
        BY <1>4
      <4> QED
        BY <4>1, <1>3
    <3>2. ASSUME NEW x \in B PROVE \E i \in 1 .. n - k : b[i] = x
      <4>1. PICK i \in k + 1 .. n : s[i] = x
        OBVIOUS
      <4> QED
        BY <4>1, <3>1
    <3>3. ASSUME NEW i \in 1 .. n - k PROVE b[i] \in B
      BY <1>3, <1>6
    <3> QED
      BY <3>2, <3>3
  <2>1. b \in Seq(B)
    BY <1>3, <1>4, <2>3
  <2>2. \A i, j \in 1 .. n - k : b[i] = b[j] => i = j
    <3> SUFFICES ASSUME NEW i \in 1 .. n - k, NEW j \in 1 .. n - k, b[i] = b[j]
                 PROVE  i = j
      OBVIOUS
    <3>1. s[k + i] = s[k + j] /\ k + i \in 1 .. n /\ k + j \in 1 .. n
      BY <1>3, <1>6
    <3>2. k + i = k + j
      BY <3>1, <1>1 DEF Numbered
    <3> QED
      BY <3>2, <1>4
  <2> QED
    BY <2>1, <2>2, <2>3, <1>3, <1>4 DEF Numbered
<1>9. Listing(a, A) /\ Listing(b, B) /\ ToSet(a) = A /\ ToSet(b) = B
  <2>1. Listing(a, A) /\ Listing(b, B)
    BY <1>7, <1>8, NumberedListing
  <2> QED
    BY <2>1 DEF Listing
<1>10. A \cup B = X
  <2>1. \A i \in 1 .. n : i \in 1 .. k \/ i \in k + 1 .. n
    BY <1>4
  <2>2. \A i \in k + 1 .. n : i \in 1 .. n
    BY <1>4
  <2> QED
    BY <2>1, <2>2, <1>5, <1>1 DEF Numbered
<1>11. A \cap B = {}
  <2> SUFFICES ASSUME NEW i \in 1 .. k, NEW j \in k + 1 .. n, s[i] = s[j] PROVE FALSE
    OBVIOUS
  <2>1. i \in 1 .. n /\ j \in 1 .. n /\ i # j
    BY <1>4
  <2> QED
    BY <2>1, <1>1 DEF Numbered
<1> QED
  BY <1>2, <1>3, <1>9, <1>10, <1>11 DEF n, a, b

(* Reversing a list keeps what is listed.                                  *)
LEMMA ListingReverse ==
  ASSUME NEW s, NEW X, Listing(s, X)
  PROVE  Listing(Reverse(s), X) /\ Len(Reverse(s)) = Len(s)
<1> DEFINE n == Len(s)
           r == Reverse(s)
<1>1. Numbered(s, n, X)
  BY ListingNumbered
<1> HIDE DEF n
<1>2. r = [i \in 1 .. n |-> s[n - i + 1]]
  BY DEF Reverse, n
<1>3. n \in Nat /\ \A i \in 1 .. n : n - i + 1 \in 1 .. n /\ n - (n - i + 1) + 1 = i
  BY <1>1 DEF Numbered
<1> HIDE DEF r
<1>4. \A i \in 1 .. n : r[i] = s[n - i + 1] /\ r[i] \in X /\ r[n - i + 1] = s[i]
  BY <1>1, <1>2, <1>3 DEF Numbered
<1>5. r \in Seq(X) /\ Len(r) = n /\ DOMAIN r = 1 .. n
  BY <1>2, <1>3, <1>4
<1>6. \A i, j \in 1 .. n : r[i] = r[j] => i = j
  <2> SUFFICES ASSUME NEW i \in 1 .. n, NEW j \in 1 .. n, r[i] = r[j] PROVE i = j
    OBVIOUS
  <2>1. s[n - i + 1] = s[n - j + 1] /\ n - i + 1 \in 1 .. n /\ n - j + 1 \in 1 .. n
    BY <1>3, <1>4
  <2>2. n - i + 1 = n - j + 1
    BY <2>1, <1>1 DEF Numbered
  <2> QED
    BY <2>2, <1>3
<1>7. \A x \in X : \E i \in 1 .. n : r[i] = x
  <2> SUFFICES ASSUME NEW x \in X PROVE \E j \in 1 .. n : r[j] = x
    OBVIOUS
  <2>1. PICK i \in 1 .. n : s[i] = x
    BY <1>1 DEF Numbered
  <2> QED
    BY <2>1, <1>3, <1>4
<1>8. Numbered(r, n, X)
  BY <1>3, <1>4, <1>5, <1>6, <1>7 DEF Numbered
<1> QED
  BY <1>5, <1>8, NumberedListing DEF r, n

(* Two lists of different things, one after the other.                     *)
LEMMA ListingConcat ==
  ASSUME NEW s, NEW t, NEW X, NEW Y, Listing(s, X), Listing(t, Y), X \cap Y = {}
  PROVE  Listing(s \o t, X \cup Y) /\ Len(s \o t) = Len(s) + Len(t)
<1> DEFINE n == Len(s)
           m == Len(t)
           c == s \o t
           Z == X \cup Y
<1>1. Numbered(s, n, X) /\ Numbered(t, m, Y)
  BY ListingNumbered
<1>2. s \in Seq(Z) /\ t \in Seq(Z)
  BY <1>1 DEF Numbered
<1>3. c \in Seq(Z) /\ Len(c) = n + m /\ DOMAIN c = 1 .. n + m
  BY <1>2
<1>4. \A i \in 1 .. n + m : c[i] = IF i <= n THEN s[i] ELSE t[i - n]
  BY <1>2
<1>5. n \in Nat /\ m \in Nat
  BY <1>1 DEF Numbered
<1> HIDE DEF n, m, c, Z
<1>6. \A i \in 1 .. n : i \in 1 .. n + m /\ c[i] = s[i] /\ s[i] \in X
  BY <1>1, <1>4, <1>5 DEF Numbered
<1>7. \A i \in 1 .. m : n + i \in 1 .. n + m /\ c[n + i] = t[i] /\ t[i] \in Y
  <2> SUFFICES ASSUME NEW i \in 1 .. m
               PROVE  n + i \in 1 .. n + m /\ c[n + i] = t[i] /\ t[i] \in Y
    OBVIOUS
  <2>1. n + i \in 1 .. n + m /\ ~(n + i <= n) /\ n + i - n = i
    BY <1>5
  <2> QED
    BY <2>1, <1>1, <1>4 DEF Numbered
<1>8. ASSUME NEW i \in 1 .. n + m
      PROVE  i \in 1 .. n \/ (i - n \in 1 .. m /\ i = n + (i - n))
  BY <1>5
<1>9. \A i, j \in 1 .. n + m : c[i] = c[j] => i = j
  <2> SUFFICES ASSUME NEW i \in 1 .. n + m, NEW j \in 1 .. n + m, c[i] = c[j]
               PROVE  i = j
    OBVIOUS
  <2>1. CASE i \in 1 .. n /\ j \in 1 .. n
    BY <2>1, <1>1, <1>6 DEF Numbered
  <2>2. CASE i \in 1 .. n /\ j \notin 1 .. n
    <3>1. c[i] \in X /\ c[j] \in Y
      BY <2>2, <1>6, <1>7, <1>8
    <3> QED
      BY <3>1
  <2>3. CASE i \notin 1 .. n /\ j \in 1 .. n
    <3>1. c[i] \in Y /\ c[j] \in X
      BY <2>3, <1>6, <1>7, <1>8
    <3> QED
      BY <3>1
  <2>4. CASE i \notin 1 .. n /\ j \notin 1 .. n
    <3>1. i - n \in 1 .. m /\ j - n \in 1 .. m /\ i = n + (i - n) /\ j = n + (j - n)
      BY <2>4, <1>8
    <3>2. c[i] = t[i - n] /\ c[j] = t[j - n]
      BY <3>1, <1>7
    <3>3. i - n = j - n
      BY <3>1, <3>2, <1>1 DEF Numbered
    <3> QED
      BY <3>1, <3>3
  <2> QED
    BY <2>1, <2>2, <2>3, <2>4
<1>10. \A x \in Z : \E i \in 1 .. n + m : c[i] = x
  <2>1. ASSUME NEW x \in X PROVE \E i \in 1 .. n + m : c[i] = x
    <3>1. PICK i \in 1 .. n : s[i] = x
      BY <1>1 DEF Numbered
    <3> QED
      BY <3>1, <1>6
  <2>2. ASSUME NEW x \in Y PROVE \E i \in 1 .. n + m : c[i] = x
    <3>1. PICK i \in 1 .. m : t[i] = x
      BY <1>1 DEF Numbered
    <3> QED
      BY <3>1, <1>7
  <2> QED
    BY <2>1, <2>2 DEF Z
<1>11. \A i \in 1 .. n + m : c[i] \in Z
  BY <1>6, <1>7, <1>8 DEF Z
<1>12. Numbered(c, n + m, Z)
  BY <1>3, <1>5, <1>9, <1>10, <1>11 DEF Numbered
<1>13. Listing(c, Z)
  BY <1>12, NumberedListing
<1> QED
  BY <1>3, <1>13 DEF n, m, c, Z

(* The first entry and the others.                                         *)
LEMMA ListingHead ==
  ASSUME NEW s, NEW X, Listing(s, X), s # << >>
  PROVE  /\ Head(s) \in X /\ Head(s) = s[1]
         /\ Listing(Tail(s), X \ {Head(s)})
         /\ Len(Tail(s)) = Len(s) - 1
         /\ Tail(s) = SubSeq(s, 2, Len(s))
<1>1. Numbered(s, Len(s), X) /\ Len(s) \in Nat \ {0}
  <2>1. Numbered(s, Len(s), X)
    BY ListingNumbered
  <2> QED
    BY <2>1, ListingEmpty
<1>2. Head(s) = s[1] /\ s[1] \in X /\ 1 \in 1 .. Len(s) /\ Tail(s) = SubSeq(s, 2, Len(s))
  BY <1>1 DEF Numbered
<1> DEFINE n == Len(s) - 1
           t == Tail(s)
<1>3. t \in Seq(X) /\ Len(t) = n /\ DOMAIN t = 1 .. n /\ n \in Nat
  BY <1>1 DEF Numbered
<1>4. \A i \in 1 .. n : t[i] = s[i + 1] /\ i + 1 \in 1 .. Len(s)
  BY <1>1 DEF Numbered
<1> HIDE DEF t
<1>5. \A i \in 1 .. n : t[i] \in X \ {s[1]}
  BY <1>1, <1>2, <1>4 DEF Numbered
<1>6. \A i, j \in 1 .. n : t[i] = t[j] => i = j
  BY <1>1, <1>4 DEF Numbered
<1>7. \A x \in X \ {s[1]} : \E i \in 1 .. n : t[i] = x
  <2> SUFFICES ASSUME NEW i \in 1 .. Len(s), s[i] # s[1] PROVE \E j \in 1 .. n : t[j] = s[i]
    BY <1>1 DEF Numbered
  <2>1. i - 1 \in 1 .. n /\ (i - 1) + 1 = i
    BY <1>1
  <2> QED
    BY <2>1, <1>4
<1>8. t \in Seq(X \ {s[1]})
  BY <1>3, <1>5
<1>9. Numbered(t, n, X \ {s[1]})
  BY <1>3, <1>5, <1>6, <1>7, <1>8 DEF Numbered
<1>10. Listing(t, X \ {Head(s)})
  BY <1>2, <1>9, NumberedListing
<1> QED
  BY <1>2, <1>3, <1>10 DEF t

(* The smallest of some numbers.                                           *)
LEMMA LeastNumber ==
  ASSUME NEW I \in SUBSET Nat, I # {}
  PROVE  Min(I) \in I /\ \A i \in I : Min(I) <= i
<1>1. \E m \in I : \A i \in I : m <= i
  <2> SUFFICES ASSUME \A m \in I : \E i \in I : i < m PROVE FALSE
    OBVIOUS
  <2> DEFINE N == {n \in Nat : \A m \in I : m > n}
  <2>1. 0 \in N
    OBVIOUS
  <2>2. ASSUME NEW n \in N PROVE n + 1 \in N
    <3>1. \A m \in I : m > n + 1
      <4> SUFFICES ASSUME NEW m \in I, ~(m > n + 1) PROVE FALSE
        OBVIOUS
      <4>1. PICK i \in I : i < m
        OBVIOUS
      <4> QED
        BY <4>1
    <3> QED
      BY <3>1
  <2>3. N = Nat
    <3> HIDE DEF N
    <3>1. N \in SUBSET Nat
      BY DEF N
    <3> QED
      BY <2>1, <2>2, <3>1, AllNumbers
  <2>4. PICK m \in I : TRUE
    OBVIOUS
  <2>5. m \in N
    BY <2>3
  <2> QED
    BY <2>4, <2>5
<1> QED
  BY <1>1 DEF Min

(* Where an entry is.                                                      *)
LEMMA IndexIn ==
  ASSUME NEW s, NEW X, Listing(s, X), NEW e \in X
  PROVE  Index(s, e) \in 1 .. Len(s) /\ s[Index(s, e)] = e /\ Index(s, e) \in Nat
<1>1. Numbered(s, Len(s), X)
  BY ListingNumbered
<1>2. PICK i \in 1 .. Len(s) : s[i] = e
  BY <1>1 DEF Numbered
<1>3. i \in Nat
  BY <1>1 DEF Numbered
<1>4. Index(s, e) = i
  <2> DEFINE I == {j \in 1 .. Len(s) : s[j] = e}
  <2>1. I = {i}
    BY <1>1, <1>2 DEF Numbered
  <2>2. Min({i}) = i
    BY <1>3, LeastNumber
  <2> QED
    BY <2>1, <2>2 DEF Index, SelectInSeq
<1> QED
  BY <1>2, <1>3, <1>4

(* list_del of an entry; of the first one.                                 *)
LEMMA ListingUnlink ==
  ASSUME NEW s, NEW X, Listing(s, X), NEW e \in X
  PROVE  Listing(Unlink(s, e), X \ {e}) /\ (e = s[1] => Unlink(s, e) = Tail(s))
<1>1. Numbered(s, Len(s), X)
  BY ListingNumbered
<1>2. PICK i \in 1 .. Len(s) : s[i] = e
  BY <1>1 DEF Numbered
<1>3. i \in Nat /\ i - 1 \in 0 .. Len(s) /\ i \in 0 .. Len(s) /\ i - 1 + 1 = i
  BY <1>1 DEF Numbered
<1>4. Index(s, e) = i
  BY <1>1, <1>2, IndexIn DEF Numbered
<1> DEFINE a == SubSeq(s, 1, i - 1)
           b == SubSeq(s, i, Len(s))
           c == SubSeq(s, i + 1, Len(s))
<1>5. Unlink(s, e) = a \o c
  BY <1>4 DEF Unlink, RemoveAt
<1>6. /\ Listing(a, ToSet(a)) /\ Listing(b, ToSet(b))
      /\ Len(b) = Len(s) - (i - 1)
      /\ ToSet(a) \cup ToSet(b) = X /\ ToSet(a) \cap ToSet(b) = {}
  BY <1>3, ListingParts
<1>7. b # << >> /\ b[1] = e /\ Tail(b) = c
  <2>1. s \in Seq(X) /\ Len(s) \in Nat
    BY <1>1 DEF Numbered
  <2>2. Len(b) = Len(s) - i + 1 /\ b[1] = s[i]
    BY <2>1
  <2>3. b # << >>
    <3>1. Len(b) # 0
      BY <2>1, <2>2
    <3> QED
      BY <3>1, <1>6, ListingEmpty, Zenon
  <2>4. Tail(b) = c
    BY <2>1, <2>3
  <2> QED
    BY <1>2, <2>2, <2>3, <2>4
<1>8. Listing(c, ToSet(b) \ {e}) /\ e \in ToSet(b)
  BY <1>6, <1>7, ListingHead
<1>9. Listing(a \o c, ToSet(a) \cup (ToSet(b) \ {e}))
  <2>1. ToSet(a) \cap (ToSet(b) \ {e}) = {}
    BY <1>6
  <2> QED
    BY <2>1, <1>6, <1>8, ListingConcat, Zenon
<1>10. ToSet(a) \cup (ToSet(b) \ {e}) = X \ {e}
  BY <1>6, <1>8
<1>11. e = s[1] => a \o c = Tail(s)
  <2> SUFFICES ASSUME e = s[1] PROVE a \o c = Tail(s)
    OBVIOUS
  <2>1. i = 1
    BY <1>1, <1>2, <1>3 DEF Numbered
  <2>2. s \in Seq(X) /\ s # << >>
    BY <1>1, <2>1, <1>2 DEF Numbered
  <2>3. a = << >> /\ c = Tail(s) /\ Tail(s) \in Seq(X)
    BY <2>1, <2>2
  <2>4. << >> \o Tail(s) = Tail(s)
    BY <2>3
  <2> QED
    BY <2>3, <2>4, Zenon
<1> QED
  BY <1>5, <1>9, <1>10, <1>11

(* A finite set as a list.                                                 *)
LEMMA ListingSet ==
  ASSUME NEW S, IsFiniteSet(S)
  PROVE  Listing(SetToSeq(S), S) /\ Len(SetToSeq(S)) = Cardinality(S)
<1> DEFINE n == Cardinality(S)
           s == SetToSeq(S)
<1>1. n \in Nat /\ ExistsBijection(1 .. n, S)
  BY FS_CardinalityType
<1>2. PICK b \in [1 .. n -> S] : IsInjective(b)
  BY <1>1 DEF ExistsBijection, Bijection, Injection
<1>3. s \in [1 .. n -> S] /\ IsInjective(s)
  BY <1>2 DEF SetToSeq
<1> HIDE DEF s
<1>4. s \in Seq(S) /\ Len(s) = n /\ DOMAIN s = 1 .. n
  BY <1>1, <1>3
<1>5. s \in Injection(1 .. n, S)
  BY <1>3 DEF Injection
<1>6. IsFiniteSet(1 .. n) /\ Cardinality(1 .. n) = n
  BY <1>1, FS_Interval
<1>7. s \in Surjection(1 .. n, S)
  BY <1>5, <1>6, FS_Injection
<1>8. ToSet(s) = S
  BY <1>3, <1>4, <1>7 DEF ToSet, Surjection
<1> QED
  BY <1>3, <1>4, <1>8 DEF Listing, s

(* What the assumptions on the constants say of kinds and owners.          *)
LEMMA Constants ==
  /\ Listing(CosOrder, Cos) /\ Cos \subseteq Kinds
  /\ "sched_domain" \in Kinds /\ "ldb_queue" \in Kinds /\ "dir_port" \in Kinds
  /\ "sched_domain" \notin Cos /\ "ldb_queue" \notin Cos /\ "dir_port" \notin Cos
  /\ \A k \in Kinds : k \in {"sched_domain", "ldb_queue", "dir_port"} \/ k \in Cos
  /\ PF \in Functions /\ Vdevs \subseteq Functions /\ PF \notin Vdevs
  /\ Functions \subseteq Owners /\ Domains \subseteq Owners
  /\ \A d \in Domains : d \notin Functions
  /\ Domains = Members["sched_domain"] /\ Domains \subseteq Things
  /\ \A k \in Kinds : Members[k] \subseteq Things
  /\ \A k, l \in Kinds : \A r \in Members[k] : r \in Members[l] => k = l
<1>1. ToSet(CosOrder) = Cos
  BY DEF Cos
<1> QED
  BY <1>1, MembersAssumption DEF Listing, Kinds, Functions, Owners, Domains, Things

(* Recursive functions on 0 .. N: one exists when each step leads from a   *)
(* set to the next.                                                        *)
Leads(N, H, F, x) ==
  x \in H[0] /\ \A i \in 1 .. N : \A y \in H[i - 1] : F[i][y] \in H[i]
Follows(N, H, F, x, g) ==
  /\ g = [i \in 0 .. N |-> g[i]]
  /\ g[0] = x
  /\ \A i \in 1 .. N : g[i] = F[i][g[i - 1]]
  /\ \A i \in 0 .. N : g[i] \in H[i]

(* By induction on N: the function that starts with x and applies the      *)
(* steps.                                                                  *)
LEMMA Recursion ==
  ASSUME NEW N \in Nat, NEW H, NEW F, NEW x, Leads(N, H, F, x)
  PROVE  \E g : Follows(N, H, F, x, g)
<1> USE DEF Leads, Follows
<1> DEFINE Reaches(g, n) == /\ g[0] = x
                            /\ \A i \in 1 .. n : g[i] = F[i][g[i - 1]]
                            /\ \A i \in 0 .. n : g[i] \in H[i]
           M == {n \in Nat : n <= N => \E g : g = [i \in 0 .. n |-> g[i]] /\ Reaches(g, n)}
<1>1. 0 \in M
  <2> DEFINE g == [i \in 0 .. 0 |-> x]
  <2>1. g = [i \in 0 .. 0 |-> g[i]] /\ Reaches(g, 0)
    OBVIOUS
  <2> HIDE DEF g, Reaches
  <2> QED
    BY <2>1
<1>2. ASSUME NEW n \in M PROVE n + 1 \in M
  <2> SUFFICES ASSUME n + 1 <= N
               PROVE  \E g : g = [i \in 0 .. n + 1 |-> g[i]] /\ Reaches(g, n + 1)
    OBVIOUS
  <2>1. PICK g : g = [i \in 0 .. n |-> g[i]] /\ Reaches(g, n)
    OBVIOUS
  <2> DEFINE h == [i \in 0 .. n + 1 |-> IF i = n + 1 THEN F[n + 1][g[n]] ELSE g[i]]
  <2>2. h[0] = g[0] /\ \A i \in 0 .. n : h[i] = g[i]
    OBVIOUS
  <2>3. h[n + 1] = F[n + 1][g[n]] /\ n + 1 \in 1 .. N /\ n \in Nat /\ n + 1 - 1 = n
    OBVIOUS
  <2>4. h = [i \in 0 .. n + 1 |-> h[i]]
    OBVIOUS
  <2> HIDE DEF h
  <2>5. g[n] \in H[n]
    BY <2>1
  <2>6. h[n + 1] \in H[n + 1]
    <3> HIDE DEF M, Reaches
    <3>1. \A y \in H[n + 1 - 1] : F[n + 1][y] \in H[n + 1]
      BY <2>3
    <3> QED
      BY <2>3, <2>5, <3>1
  <2>7. \A i \in 0 .. n + 1 : h[i] \in H[i]
    BY <2>1, <2>2, <2>6
  <2>8. ASSUME NEW i \in 1 .. n + 1 PROVE h[i] = F[i][h[i - 1]]
    <3>1. CASE i = n + 1
      BY <3>1, <2>2, <2>3
    <3>2. CASE i # n + 1
      <4>1. i \in 1 .. n /\ i \in 0 .. n /\ i - 1 \in 0 .. n
        BY <3>2
      <4> QED
        BY <4>1, <2>1, <2>2
    <3> QED
      BY <3>1, <3>2
  <2> QED
    BY <2>1, <2>2, <2>4, <2>7, <2>8
<1>3. N \in M
  <2> HIDE DEF M
  <2>1. M \in SUBSET Nat
    BY DEF M
  <2>2. M = Nat
    BY <1>1, <1>2, <2>1, AllNumbers
  <2> QED
    BY <2>2
<1> QED
  BY <1>3

(* What such a function computes.                                          *)
LEMMA Steps ==
  ASSUME NEW N \in Nat, NEW H, NEW g, g[0] \in H[0],
         \A i \in 1 .. N : g[i - 1] \in H[i - 1] => g[i] \in H[i]
  PROVE  \A i \in 0 .. N : g[i] \in H[i]
<1> DEFINE M == {n \in Nat : n <= N => g[n] \in H[n]}
<1>1. 0 \in M
  OBVIOUS
<1>2. ASSUME NEW n \in M PROVE n + 1 \in M
  <2> SUFFICES ASSUME n + 1 <= N PROVE g[n + 1] \in H[n + 1]
    OBVIOUS
  <2>1. n + 1 \in 1 .. N /\ n + 1 - 1 = n /\ g[n] \in H[n]
    OBVIOUS
  <2> QED
    BY <2>1
<1>3. M = Nat
  <2> HIDE DEF M
  <2>1. M \in SUBSET Nat
    BY DEF M
  <2> QED
    BY <1>1, <1>2, <2>1, AllNumbers
<1> QED
  BY <1>3

-----------------------------------------------------------------------------
(* The slots that a group has given out are slots of it.                   *)
GroupType ==
  {x \in [per_queue : SnModes, used : SUBSET Nat] : x.used \subseteq SnSlots(x)}

HwType ==
  [avail : [Owners -> [Kinds -> Seq(Things)]],
   used : [Owners -> [Kinds -> Seq(Things)]],
   num : [Functions -> [Kinds -> Nat]],
   hist : [Functions -> SUBSET HistEntries],
   count : [Functions -> [Counted -> Nat]],
   locked : [Vdevs -> BOOLEAN],
   virt_id : [Things -> Int],
   group : [SnGroups -> GroupType],
   domain : [Domains ->
     [parent : Functions, configured : BOOLEAN,
      hist : [base : Nat, total : Nat, offset : Nat],
      count : [Counted -> Nat], used_count : [Counted -> Nat]]],
   sn : [Members["ldb_queue"] -> [group : SnGroups \cup {"none"}, slot : Nat]],
   port_hist : [UNION {Members[c] : c \in Cos} -> SUBSET HistEntries]]

Distinct(s) == Listing(s, ToSet(s))

(* The lists of a kind share out its members.                              *)
Shared(S, k) ==
  /\ \A o \in Owners : Distinct(S.avail[o][k]) /\ Distinct(S.used[o][k])
  /\ \A o, p \in Owners :
       /\ ToSet(S.avail[o][k]) \cap ToSet(S.used[p][k]) = {}
       /\ o # p => /\ ToSet(S.avail[o][k]) \cap ToSet(S.avail[p][k]) = {}
                   /\ ToSet(S.used[o][k]) \cap ToSet(S.used[p][k]) = {}
  /\ \A r : r \in Members[k] <=>
       \E o \in Owners : r \in ToSet(S.avail[o][k]) \/ r \in ToSet(S.used[o][k])

(* Two owners exchange entries.                                            *)
Exchanged(S, T, k, x, y) ==
  /\ \A o \in Owners \ {x, y} :
       T.avail[o][k] = S.avail[o][k] /\ T.used[o][k] = S.used[o][k]
  /\ \A o \in {x, y} : Distinct(T.avail[o][k]) /\ Distinct(T.used[o][k])
  /\ \A o, p \in {x, y} :
       /\ ToSet(T.avail[o][k]) \cap ToSet(T.used[p][k]) = {}
       /\ o # p => /\ ToSet(T.avail[o][k]) \cap ToSet(T.avail[p][k]) = {}
                   /\ ToSet(T.used[o][k]) \cap ToSet(T.used[p][k]) = {}
  /\ \A r : (\E o \in {x, y} : r \in ToSet(T.avail[o][k]) \/ r \in ToSet(T.used[o][k])) <=>
            (\E o \in {x, y} : r \in ToSet(S.avail[o][k]) \/ r \in ToSet(S.used[o][k]))

(* Two owners that exchange resources leave the kind shared.               *)
LEMMA StillShared ==
  ASSUME NEW S, NEW T, NEW k, NEW x \in Owners, NEW y \in Owners,
         Shared(S, k), Exchanged(S, T, k, x, y)
  PROVE  Shared(T, k)
<1> DEFINE sa(o) == ToSet(S.avail[o][k])
           su(o) == ToSet(S.used[o][k])
           ta(o) == ToSet(T.avail[o][k])
           tu(o) == ToSet(T.used[o][k])
<1>1. \A o \in Owners \ {x, y} : ta(o) = sa(o) /\ tu(o) = su(o)
  BY DEF Exchanged
<1>2. \A o \in Owners : Distinct(T.avail[o][k]) /\ Distinct(T.used[o][k])
  BY DEF Exchanged, Shared
<1>3. \A r : r \in Members[k] <=> \E o \in Owners : r \in sa(o) \/ r \in su(o)
  BY DEF Shared
<1>4. \A o, p \in Owners : /\ sa(o) \cap su(p) = {}
                           /\ o # p => sa(o) \cap sa(p) = {} /\ su(o) \cap su(p) = {}
  BY DEF Shared
<1>5. \A o, p \in {x, y} : /\ ta(o) \cap tu(p) = {}
                           /\ o # p => ta(o) \cap ta(p) = {} /\ tu(o) \cap tu(p) = {}
  BY DEF Exchanged
<1>6. \A r : (\E o \in {x, y} : r \in ta(o) \/ r \in tu(o)) <=>
             (\E o \in {x, y} : r \in sa(o) \/ r \in su(o))
  BY DEF Exchanged
<1> HIDE DEF sa, su, ta, tu
<1>7. \A r : r \in Members[k] <=> \E o \in Owners : r \in ta(o) \/ r \in tu(o)
  <2> SUFFICES ASSUME NEW r
               PROVE  r \in Members[k] <=> \E o \in Owners : r \in ta(o) \/ r \in tu(o)
    OBVIOUS
  <2> QED
    BY <1>1, <1>3, <1>6
<1>8. ASSUME NEW o \in Owners \ {x, y}, NEW p \in {x, y}
      PROVE  /\ sa(o) \cap ta(p) = {} /\ sa(o) \cap tu(p) = {}
             /\ su(o) \cap ta(p) = {} /\ su(o) \cap tu(p) = {}
  <2> SUFFICES ASSUME NEW r, r \in sa(o) \/ r \in su(o), r \in ta(p) \/ r \in tu(p)
               PROVE  FALSE
    OBVIOUS
  <2>1. PICK q \in {x, y} : r \in sa(q) \/ r \in su(q)
    BY <1>6
  <2>2. q # o /\ q \in Owners
    OBVIOUS
  <2> QED
    BY <2>1, <2>2, <1>4
<1>9. ASSUME NEW o \in Owners, NEW p \in Owners
      PROVE  /\ ta(o) \cap tu(p) = {}
             /\ o # p => ta(o) \cap ta(p) = {} /\ tu(o) \cap tu(p) = {}
  <2>1. CASE o \in {x, y} /\ p \in {x, y}
    BY <2>1, <1>5
  <2>2. CASE o \notin {x, y} /\ p \in {x, y}
    BY <2>2, <1>1, <1>8
  <2>3. CASE o \in {x, y} /\ p \notin {x, y}
    BY <2>3, <1>1, <1>8
  <2>4. CASE o \notin {x, y} /\ p \notin {x, y}
    BY <2>4, <1>1, <1>4
  <2> QED
    BY <2>1, <2>2, <2>3, <2>4
<1> QED
  BY <1>2, <1>7, <1>9 DEF Shared, ta, tu

ListsGood(S) ==
  /\ \A k \in Kinds : Shared(S, k)
  /\ \A f \in Functions, k \in Kinds : S.num[f][k] = Len(S.avail[f][k])

(* A domain that nobody uses has nothing.                                  *)
Idle(S, d) ==
  /\ ~S.domain[d].configured /\ S.domain[d].hist = NoHist
  /\ \A k \in Kinds : S.avail[d][k] = << >> /\ S.used[d][k] = << >>

DomainsGood(S) ==
  /\ \A f \in Functions :
       /\ \A d \in ToSet(S.avail[f]["sched_domain"]) : S.domain[d].parent = f /\ Idle(S, d)
       /\ \A d \in ToSet(UsedDomains(S, f)) : S.domain[d].parent = f /\ S.domain[d].configured
       /\ \A k \in Kinds \ {"sched_domain"} : S.used[f][k] = << >>
  /\ \A d \in Domains :
       S.avail[d]["sched_domain"] = << >> /\ S.used[d]["sched_domain"] = << >>

HistOf(S, o) == IF o \in Functions THEN S.hist[o] ELSE DomainHist(S, o)
HandedOut(S, d) ==
  LET h == S.domain[d].hist IN h.base .. h.base + h.offset - 1

HistGood(S) ==
  /\ \A o \in Owners : HistOf(S, o) \subseteq HistEntries
  /\ \A o, p \in Owners : o # p => HistOf(S, o) \cap HistOf(S, p) = {}
  /\ \A e \in HistEntries : \E o \in Owners : e \in HistOf(S, o)
  /\ \A d \in Domains :
       /\ S.domain[d].hist.offset <= S.domain[d].hist.total
       /\ \A p \in PortsInUse(S, d) : S.port_hist[p] \subseteq HandedOut(S, d)
       /\ \A p, q \in PortsInUse(S, d) : p # q => S.port_hist[p] \cap S.port_hist[q] = {}

Good(S) == S \in HwType /\ ListsGood(S) /\ DomainsGood(S) /\ HistGood(S)

(* The fields of a record that a step leaves alone.                        *)
SameHist(S, T) ==
  /\ T.hist = S.hist /\ T.port_hist = S.port_hist
  /\ \A d \in Domains : T.domain[d].hist = S.domain[d].hist
SameFields(S, T) ==
  /\ T.count = S.count /\ T.locked = S.locked /\ T.group = S.group /\ T.sn = S.sn
  /\ T.used = S.used
SameRest(S, T) ==
  /\ SameFields(S, T)
  /\ \A d \in Domains : /\ T.domain[d].count = S.domain[d].count
                        /\ T.domain[d].used_count = S.domain[d].used_count

HwRecord(S) ==
  S = [avail |-> S.avail, used |-> S.used, num |-> S.num, hist |-> S.hist,
       count |-> S.count, locked |-> S.locked, virt_id |-> S.virt_id, group |-> S.group,
       domain |-> S.domain, sn |-> S.sn, port_hist |-> S.port_hist]

(* Being a device, field by field.                                         *)
LEMMA Typed ==
  ASSUME NEW S
  PROVE  S \in HwType <=>
           /\ HwRecord(S)
           /\ S.avail \in [Owners -> [Kinds -> Seq(Things)]]
           /\ S.used \in [Owners -> [Kinds -> Seq(Things)]]
           /\ S.num \in [Functions -> [Kinds -> Nat]]
           /\ S.hist \in [Functions -> SUBSET HistEntries]
           /\ S.count \in [Functions -> [Counted -> Nat]]
           /\ S.locked \in [Vdevs -> BOOLEAN]
           /\ S.virt_id \in [Things -> Int]
           /\ S.group \in [SnGroups -> GroupType]
           /\ S.domain \in [Domains ->
                [parent : Functions, configured : BOOLEAN,
                 hist : [base : Nat, total : Nat, offset : Nat],
                 count : [Counted -> Nat], used_count : [Counted -> Nat]]]
           /\ S.sn \in [Members["ldb_queue"] ->
                         [group : SnGroups \cup {"none"}, slot : Nat]]
           /\ S.port_hist \in [UNION {Members[c] : c \in Cos} -> SUBSET HistEntries]
BY DEF HwType, HwRecord

-----------------------------------------------------------------------------
(* Transfers                                                               *)

Give(S, dst, src, k, n) == Reparent(xfer(S, dst, src, k, n), dst)

(* The first m entries of src go to dst.                                   *)
Moved(S, T, dst, src, k, m) ==
  LET list == S.avail[src][k]
  IN /\ T.avail[dst][k] = Reverse(SubSeq(list, 1, m)) \o S.avail[dst][k]
     /\ T.avail[src][k] = SubSeq(list, m + 1, Len(list))
     /\ \A o \in Owners \ {dst, src} : T.avail[o][k] = S.avail[o][k]
     /\ \A o \in Owners : T.used[o][k] = S.used[o][k]

Families(S) ==
  /\ S.avail = [o \in Owners |-> [k \in Kinds |-> S.avail[o][k]]]
  /\ S.used = [o \in Owners |-> [k \in Kinds |-> S.used[o][k]]]
  /\ S.num = [f \in Functions |-> [k \in Kinds |-> S.num[f][k]]]

GiveIs(S, T, dst, src, k, m) ==
  /\ Families(T) /\ Moved(S, T, dst, src, k, m)
  /\ \A o \in Owners \ {dst, src} : T.avail[o] = S.avail[o]
  /\ \A o \in Owners : \A x \in Kinds \ {k} : T.avail[o][x] = S.avail[o][x]
  /\ \A f \in Functions : \A x \in Kinds :
       x # k \/ f \notin {dst, src} => T.num[f][x] = S.num[f][x]
  /\ T.num[dst][k] = S.num[dst][k] + m /\ T.num[src][k] = S.num[src][k] - m
  /\ T.used = S.used /\ T.virt_id = S.virt_id /\ SameRest(S, T)
  /\ T.hist = S.hist /\ T.port_hist = S.port_hist
  /\ T.domain \in [Domains ->
                [parent : Functions, configured : BOOLEAN,
                 hist : [base : Nat, total : Nat, offset : Nat],
                 count : [Counted -> Nat], used_count : [Counted -> Nat]]]
  /\ \A d \in Domains :
       /\ T.domain[d].configured = S.domain[d].configured
       /\ T.domain[d].hist = S.domain[d].hist
       /\ T.domain[d].parent = IF d \in ToSet(T.avail[dst]["sched_domain"])
                               THEN dst ELSE S.domain[d].parent

(* What xfer does, with the backpointers, to each field.                   *)
LEMMA GiveFields ==
  ASSUME NEW S \in HwType, NEW dst \in Functions, NEW src \in Functions, dst # src,
         NEW k \in Kinds, NEW n, NEW m, m = Least(n, Len(S.avail[src][k])),
         NEW T, T = Give(S, dst, src, k, n)
  PROVE  GiveIs(S, T, dst, src, k, m) /\ HwRecord(T)
<1> DEFINE list == S.avail[src][k]
           to == Reverse(SubSeq(list, 1, m)) \o S.avail[dst][k]
           from == SubSeq(list, m + 1, Len(list))
           U == xfer(S, dst, src, k, n)
<1>1. /\ S.avail \in [Owners -> [Kinds -> Seq(Things)]]
      /\ S.num \in [Functions -> [Kinds -> Nat]]
  BY DEF HwType
<1>2. dst \in Owners /\ src \in Owners
  BY Constants
<1>3. U = [S EXCEPT !.avail = [S.avail EXCEPT ![dst][k] = to, ![src][k] = from],
                    !.num = [S.num EXCEPT ![dst][k] = S.num[dst][k] + m,
                                          ![src][k] = S.num[src][k] - m]]
  BY DEF xfer, move
<1>4. T = [U EXCEPT !.domain = [d \in Domains |->
             IF d \in ToSet(U.avail[dst]["sched_domain"])
             THEN [U.domain[d] EXCEPT !.parent = dst] ELSE U.domain[d]]]
  BY DEF Give, Reparent
<1> HIDE DEF U, to, from
<1> DEFINE avail == [o \in Owners |-> [x \in Kinds |->
          IF x = k /\ o = dst THEN to ELSE IF x = k /\ o = src THEN from
          ELSE S.avail[o][x]]]
           num == [o \in Functions |-> [x \in Kinds |->
          IF x = k /\ o = dst THEN S.num[dst][k] + m
          ELSE IF x = k /\ o = src THEN S.num[src][k] - m ELSE S.num[o][x]]]
<1>5. [S.avail EXCEPT ![dst][k] = to, ![src][k] = from] = avail
  BY <1>1, <1>2
<1>6. [S.num EXCEPT ![dst][k] = S.num[dst][k] + m, ![src][k] = S.num[src][k] - m] = num
  BY <1>1
<1> HIDE DEF avail, num
<1>7. /\ U.avail = avail /\ U.num = num
      /\ U.domain = S.domain /\ U.used = S.used /\ U.virt_id = S.virt_id
      /\ U.hist = S.hist /\ U.port_hist = S.port_hist /\ SameFields(S, U)
      /\ HwRecord(U)
  BY <1>3, <1>5, <1>6 DEF HwType, HwRecord, SameFields
<1>8. /\ T.avail = U.avail /\ T.num = U.num
      /\ T.used = U.used /\ T.virt_id = U.virt_id
      /\ T.hist = U.hist /\ T.port_hist = U.port_hist /\ SameFields(U, T)
      /\ HwRecord(T)
      /\ T.domain = [d \in Domains |->
             IF d \in ToSet(U.avail[dst]["sched_domain"])
             THEN [U.domain[d] EXCEPT !.parent = dst] ELSE U.domain[d]]
  BY <1>4, <1>7 DEF SameFields, HwRecord
<1>9. T.avail = avail /\ T.num = num /\ T.used = S.used
  BY <1>7, <1>8
<1>10. Families(T)
  <2>1. T.used = [o \in Owners |-> [x \in Kinds |-> T.used[o][x]]]
    BY <1>9 DEF HwType
  <2>2. T.avail = [o \in Owners |-> [x \in Kinds |-> T.avail[o][x]]]
    BY <1>9 DEF avail
  <2>3. T.num = [o \in Functions |-> [x \in Kinds |-> T.num[o][x]]]
    BY <1>9 DEF num
  <2> QED
    BY <2>1, <2>2, <2>3 DEF Families
<1>11. Moved(S, T, dst, src, k, m)
  <2>1. T.avail[dst][k] = to /\ T.avail[src][k] = from
    BY <1>2, <1>9 DEF avail
  <2>2. \A o \in Owners \ {dst, src} : T.avail[o][k] = S.avail[o][k]
    BY <1>9 DEF avail
  <2> QED
    BY <2>1, <2>2, <1>9 DEF Moved, to, from
<1>12. /\ \A o \in Owners : \A x \in Kinds \ {k} : T.avail[o][x] = S.avail[o][x]
       /\ \A o \in Owners \ {dst, src} : T.avail[o] = S.avail[o]
  <2>1. \A o \in Owners : \A x \in Kinds : x # k \/ o \notin {dst, src} =>
          T.avail[o][x] = S.avail[o][x]
    BY <1>9 DEF avail
  <2>2. ASSUME NEW o \in Owners \ {dst, src} PROVE T.avail[o] = S.avail[o]
    <3>1. T.avail[o] = [x \in Kinds |-> T.avail[o][x]]
      BY <1>9 DEF avail
    <3>2. S.avail[o] = [x \in Kinds |-> S.avail[o][x]]
      BY <1>1
    <3> QED
      BY <3>1, <3>2, <2>1
  <2> QED
    BY <2>1, <2>2
<1>13. /\ T.num[dst][k] = S.num[dst][k] + m /\ T.num[src][k] = S.num[src][k] - m
       /\ \A f \in Functions : \A x \in Kinds :
            x # k \/ f \notin {dst, src} => T.num[f][x] = S.num[f][x]
  BY <1>9 DEF num
<1>14. T.domain = [d \in Domains |-> IF d \in ToSet(T.avail[dst]["sched_domain"])
                    THEN [S.domain[d] EXCEPT !.parent = dst] ELSE S.domain[d]]
  BY <1>7, <1>8
<1> DEFINE DomType == [parent : Functions, configured : BOOLEAN,
                 hist : [base : Nat, total : Nat, offset : Nat],
                 count : [Counted -> Nat], used_count : [Counted -> Nat]]
<1>15. S.domain \in [Domains -> DomType]
  BY DEF HwType
<1>16. /\ T.domain \in [Domains -> DomType]
       /\ \A d \in Domains :
            /\ T.domain[d].configured = S.domain[d].configured
            /\ T.domain[d].hist = S.domain[d].hist
            /\ T.domain[d].count = S.domain[d].count
            /\ T.domain[d].used_count = S.domain[d].used_count
            /\ T.domain[d].parent = IF d \in ToSet(T.avail[dst]["sched_domain"])
                                    THEN dst ELSE S.domain[d].parent
  <2>1. ASSUME NEW d \in Domains
        PROVE  /\ T.domain[d] \in DomType
               /\ T.domain[d].configured = S.domain[d].configured
               /\ T.domain[d].hist = S.domain[d].hist
               /\ T.domain[d].count = S.domain[d].count
               /\ T.domain[d].used_count = S.domain[d].used_count
               /\ T.domain[d].parent = IF d \in ToSet(T.avail[dst]["sched_domain"])
                                       THEN dst ELSE S.domain[d].parent
    <3> DEFINE D == S.domain[d]
               E == T.domain[d]
    <3>1. D \in DomType
      BY <1>15
    <3>2. E = IF d \in ToSet(T.avail[dst]["sched_domain"])
              THEN [D EXCEPT !.parent = dst] ELSE D
      BY <1>14
    <3> HIDE DEF D, E
    <3>3. CASE d \in ToSet(T.avail[dst]["sched_domain"])
      <4>1. E = [D EXCEPT !.parent = dst]
        BY <3>2, <3>3
      <4>2. E \in DomType /\ E.configured = D.configured /\ E.hist = D.hist
            /\ E.count = D.count /\ E.used_count = D.used_count /\ E.parent = dst
        BY <3>1, <4>1
      <4> QED
        BY <3>3, <4>2 DEF D, E
    <3>4. CASE d \notin ToSet(T.avail[dst]["sched_domain"])
      <4>1. E = D
        BY <3>2, <3>4
      <4> QED
        BY <3>1, <3>4, <4>1 DEF D, E
    <3> QED
      BY <3>3, <3>4
  <2>2. T.domain = [d \in Domains |-> T.domain[d]]
    BY <1>14
  <2> HIDE DEF DomType
  <2> QED
    BY <2>1, <2>2
<1> QED
  BY <1>7, <1>8, <1>10, <1>11, <1>12, <1>13, <1>16 DEF GiveIs, SameFields, SameRest

MoveEffect(S, T, dst, src, k, m) ==
  /\ Shared(T, k)
  /\ Len(T.avail[dst][k]) = Len(S.avail[dst][k]) + m
  /\ Len(T.avail[src][k]) = Len(S.avail[src][k]) - m
  /\ ToSet(T.avail[dst][k]) \cup ToSet(T.avail[src][k])
       = ToSet(S.avail[dst][k]) \cup ToSet(S.avail[src][k])
  /\ ToSet(S.avail[dst][k]) \subseteq ToSet(T.avail[dst][k])
  /\ ToSet(T.avail[src][k]) \subseteq ToSet(S.avail[src][k])

(* Moving entries between available lists is an exchange.                  *)
LEMMA MoveShares ==
  ASSUME NEW S, NEW T, NEW dst \in Owners, NEW src \in Owners, dst # src,
         NEW k \in Kinds, NEW m, Shared(S, k),
         m \in 0 .. Len(S.avail[src][k]), Moved(S, T, dst, src, k, m)
  PROVE  MoveEffect(S, T, dst, src, k, m)
<1> DEFINE list == S.avail[src][k]
           old == S.avail[dst][k]
           a == SubSeq(list, 1, m)
           b == SubSeq(list, m + 1, Len(list))
           r == Reverse(a)
           c == r \o old
<1>1. /\ Listing(list, ToSet(list)) /\ Listing(old, ToSet(old))
      /\ ToSet(list) \cap ToSet(old) = {}
      /\ \A o \in Owners : /\ ToSet(list) \cap ToSet(S.used[o][k]) = {}
                           /\ ToSet(old) \cap ToSet(S.used[o][k]) = {}
  BY DEF Shared, Distinct
<1>2. /\ Listing(a, ToSet(a)) /\ Listing(b, ToSet(b))
      /\ Len(a) = m /\ Len(b) = Len(list) - m
      /\ ToSet(a) \cup ToSet(b) = ToSet(list) /\ ToSet(a) \cap ToSet(b) = {}
  BY <1>1, ListingParts
<1> HIDE DEF list, old, a, b
<1>3. Listing(r, ToSet(a)) /\ Len(r) = Len(a)
  BY <1>2, ListingReverse
<1> HIDE DEF r
<1>4. Listing(c, ToSet(a) \cup ToSet(old)) /\ Len(c) = Len(r) + Len(old)
  <2>1. ToSet(a) \cap ToSet(old) = {}
    BY <1>1, <1>2
  <2> QED
    BY <2>1, <1>1, <1>3, ListingConcat
<1> HIDE DEF c
<1>5. ToSet(c) = ToSet(a) \cup ToSet(old) /\ Distinct(c) /\ Distinct(b)
  BY <1>2, <1>4 DEF Distinct, Listing
<1>6. /\ T.avail[dst][k] = c /\ T.avail[src][k] = b
      /\ S.avail[dst][k] = old /\ S.avail[src][k] = list
      /\ T.used[dst][k] = S.used[dst][k] /\ T.used[src][k] = S.used[src][k]
      /\ \A o \in Owners \ {dst, src} :
           T.avail[o][k] = S.avail[o][k] /\ T.used[o][k] = S.used[o][k]
  BY DEF Moved, list, old, a, b, r, c
<1>7. /\ ToSet(c) \cup ToSet(b) = ToSet(old) \cup ToSet(list)
      /\ ToSet(c) \cap ToSet(b) = {}
      /\ ToSet(old) \subseteq ToSet(c) /\ ToSet(b) \subseteq ToSet(list)
  BY <1>1, <1>2, <1>5
<1>8. Exchanged(S, T, k, dst, src)
  <2>1. \A o \in {dst, src} : Distinct(T.avail[o][k]) /\ Distinct(T.used[o][k])
    BY <1>5, <1>6 DEF Shared
  <2>2. ASSUME NEW o \in {dst, src}, NEW p \in {dst, src}
        PROVE  /\ ToSet(T.avail[o][k]) \cap ToSet(T.used[p][k]) = {}
               /\ o # p => /\ ToSet(T.avail[o][k]) \cap ToSet(T.avail[p][k]) = {}
                           /\ ToSet(T.used[o][k]) \cap ToSet(T.used[p][k]) = {}
    <3>1. ToSet(T.avail[o][k]) \subseteq ToSet(old) \cup ToSet(list)
      BY <1>6, <1>7
    <3>2. ToSet(T.avail[o][k]) \cap ToSet(T.used[p][k]) = {}
      BY <3>1, <1>1, <1>6
    <3>3. o # p => ToSet(T.avail[o][k]) \cap ToSet(T.avail[p][k]) = {}
      BY <1>6, <1>7
    <3>4. o # p => ToSet(T.used[o][k]) \cap ToSet(T.used[p][k]) = {}
      <4>1. /\ o \in Owners /\ p \in Owners
            /\ T.used[o][k] = S.used[o][k] /\ T.used[p][k] = S.used[p][k]
        BY <1>6
      <4> QED
        BY <4>1 DEF Shared
    <3> QED
      BY <3>2, <3>3, <3>4
  <2>3. ASSUME NEW z
        PROVE  (\E o \in {dst, src} : z \in ToSet(T.avail[o][k]) \/ z \in ToSet(T.used[o][k])) <=>
               (\E o \in {dst, src} : z \in ToSet(S.avail[o][k]) \/ z \in ToSet(S.used[o][k]))
    <3>1. z \in ToSet(c) \/ z \in ToSet(b) <=> z \in ToSet(old) \/ z \in ToSet(list)
      BY <1>7
    <3> QED
      BY <3>1, <1>6
  <2> QED
    BY <2>1, <2>2, <2>3, <1>6 DEF Exchanged
<1>9. Shared(T, k)
  BY <1>8, StillShared
<1>10. Len(c) = Len(old) + m /\ Len(b) = Len(list) - m
  <2>1. Len(old) \in Nat /\ m \in Int
    BY <1>1, ListingEmpty
  <2> QED
    BY <2>1, <1>2, <1>3, <1>4
<1> QED
  BY <1>6, <1>7, <1>9, <1>10 DEF MoveEffect

(* Sharing depends on the lists only.                                      *)
LEMMA SameShared ==
  ASSUME NEW S, NEW T, NEW k, Shared(S, k),
         \A o \in Owners : T.avail[o][k] = S.avail[o][k] /\ T.used[o][k] = S.used[o][k]
  PROVE  Shared(T, k)
BY DEF Shared

(* What the lists say of a domain.                                         *)
LEMMA DomainPlace ==
  ASSUME NEW S, Shared(S, "sched_domain")
  PROVE  /\ \A o \in Owners : /\ ToSet(S.avail[o]["sched_domain"]) \subseteq Domains
                              /\ ToSet(UsedDomains(S, o)) \subseteq Domains
         /\ \A o, p \in Owners : \A d \in ToSet(S.avail[o]["sched_domain"]) :
              /\ d \notin ToSet(UsedDomains(S, p))
              /\ d \in ToSet(S.avail[p]["sched_domain"]) => o = p
         /\ \A o, p \in Owners : \A d \in ToSet(UsedDomains(S, o)) :
              d \in ToSet(UsedDomains(S, p)) => o = p
BY DEF Shared, UsedDomains, Domains

(* History lists only depend on these.                                     *)
LEMMA SameHistGood ==
  ASSUME NEW S, NEW T, HistGood(S), SameHist(S, T), T.used = S.used
  PROVE  HistGood(T) /\ \A o \in Owners : HistOf(T, o) = HistOf(S, o)
<1>1. \A o \in Owners : HistOf(T, o) = HistOf(S, o)
  BY DEF SameHist, HistOf, DomainHist, Owners
<1>2. \A d \in Domains : /\ HandedOut(T, d) = HandedOut(S, d)
                         /\ PortsInUse(T, d) = PortsInUse(S, d)
                         /\ T.domain[d].hist = S.domain[d].hist
  BY DEF SameHist, HandedOut, PortsInUse
<1>3. T.port_hist = S.port_hist
  BY DEF SameHist
<1> QED
  BY <1>1, <1>2, <1>3 DEF HistGood

(* What a function has.                                                    *)
SameHolds(S, T, f) ==
  /\ \A k \in Kinds : Holds(T, f, k) = Holds(S, f, k)
  /\ HoldsHist(T, f) = HoldsHist(S, f)

(* A function whose lists and domains are not touched keeps what it has.   *)
LEMMA UntouchedHolds ==
  ASSUME NEW S, NEW T, NEW f \in Functions,
         ToSet(UsedDomains(S, f)) \subseteq Domains,
         T.avail[f] = S.avail[f], T.used[f] = S.used[f], T.hist[f] = S.hist[f],
         \A d \in ToSet(UsedDomains(S, f)) :
           T.avail[d] = S.avail[d] /\ T.used[d] = S.used[d]
             /\ T.domain[d].hist = S.domain[d].hist
  PROVE  SameHolds(S, T, f)
<1>1. UsedDomains(T, f) = UsedDomains(S, f)
  BY DEF UsedDomains
<1>2. ASSUME NEW k \in Kinds PROVE Holds(T, f, k) = Holds(S, f, k)
  <2>1. UNION {ToSet(T.avail[d][k]) \cup ToSet(T.used[d][k]) : d \in ToSet(UsedDomains(S, f))}
          = UNION {ToSet(S.avail[d][k]) \cup ToSet(S.used[d][k]) :
                    d \in ToSet(UsedDomains(S, f))}
    OBVIOUS
  <2> QED
    BY <2>1, <1>1 DEF Holds
<1>3. HoldsHist(T, f) = HoldsHist(S, f)
  <2>1. UNION {DomainHist(T, d) : d \in ToSet(UsedDomains(S, f))}
          = UNION {DomainHist(S, d) : d \in ToSet(UsedDomains(S, f))}
    BY DEF DomainHist
  <2> QED
    BY <2>1, <1>1 DEF HoldsHist
<1> QED
  BY <1>2, <1>3 DEF SameHolds

(* A transfer between two functions leaves the books in order.             *)
LEMMA GiveGood ==
  ASSUME NEW S, Good(S), NEW dst \in Functions, NEW src \in Functions, dst # src,
         NEW k \in Kinds, NEW n \in Nat, NEW T, T = Give(S, dst, src, k, n)
  PROVE  /\ Good(T) /\ T.virt_id = S.virt_id /\ SameRest(S, T)
         /\ \A f \in Functions \ {dst, src} : SameHolds(S, T, f)
<1> DEFINE m == Least(n, Len(S.avail[src][k]))
<1>1. S \in HwType /\ ListsGood(S) /\ DomainsGood(S) /\ HistGood(S)
  BY DEF Good
<1>2. S.avail[src][k] \in Seq(Things) /\ S.avail[dst][k] \in Seq(Things)
  BY <1>1, Constants DEF HwType
<1>3. m \in 0 .. Len(S.avail[src][k])
  BY <1>2 DEF Least
<1> HIDE DEF m
<1>4. GiveIs(S, T, dst, src, k, m) /\ HwRecord(T)
  BY <1>1, GiveFields DEF m
<1>5. dst \in Owners /\ src \in Owners
  BY Constants
<1>6. Moved(S, T, dst, src, k, m)
  BY <1>4 DEF GiveIs
<1>7. Shared(S, k)
  BY <1>1 DEF ListsGood
<1>8. MoveEffect(S, T, dst, src, k, m)
  BY <1>3, <1>5, <1>6, <1>7, MoveShares
<1>9. \A o \in Owners : \A x \in Kinds :
        x # k \/ o \notin {dst, src} => T.avail[o][x] = S.avail[o][x]
  BY <1>4 DEF GiveIs
<1>10. T.used = S.used /\ T.virt_id = S.virt_id /\ SameRest(S, T) /\ SameHist(S, T)
  BY <1>4 DEF GiveIs, SameHist
<1>11. ListsGood(T)
  <2>1. ASSUME NEW x \in Kinds PROVE Shared(T, x)
    <3>1. CASE x = k
      BY <3>1, <1>8 DEF MoveEffect
    <3>2. CASE x # k
      <4>1. Shared(S, x)
        BY <1>1 DEF ListsGood
      <4> QED
        BY <3>2, <4>1, <1>9, <1>10, SameShared
    <3> QED
      BY <3>1, <3>2
  <2>2. ASSUME NEW f \in Functions, NEW x \in Kinds
        PROVE  T.num[f][x] = Len(T.avail[f][x])
    <3>1. S.num[f][x] = Len(S.avail[f][x]) /\ f \in Owners
      BY <1>1, Constants DEF ListsGood
    <3>2. S.num[src][k] = Len(S.avail[src][k]) /\ S.num[dst][k] = Len(S.avail[dst][k])
      BY <1>1, Constants DEF ListsGood
    <3>3. CASE x = k /\ f = dst
      BY <3>2, <3>3, <1>4, <1>8 DEF GiveIs, MoveEffect
    <3>4. CASE x = k /\ f = src
      BY <3>2, <3>4, <1>4, <1>8 DEF GiveIs, MoveEffect
    <3>5. CASE x # k \/ f \notin {dst, src}
      BY <3>1, <3>5, <1>4, <1>9 DEF GiveIs
    <3> QED
      BY <3>3, <3>4, <3>5
  <2> QED
    BY <2>1, <2>2 DEF ListsGood
<1>12. HistGood(T)
  BY <1>1, <1>10, SameHistGood
<1> DEFINE av(U, f) == ToSet(U.avail[f]["sched_domain"])
<1>13. /\ \A f \in Functions \ {dst, src} : av(T, f) = av(S, f)
       /\ av(T, dst) \cup av(T, src) = av(S, dst) \cup av(S, src)
       /\ av(T, src) \subseteq av(S, src)
  BY <1>5, <1>8, <1>9, Constants DEF MoveEffect
<1>14. Shared(S, "sched_domain") /\ Shared(T, "sched_domain")
  BY <1>1, <1>11, Constants DEF ListsGood
<1>15. \A f \in Functions : \A d \in av(T, f) : d \in Domains /\ (d \in av(T, dst) <=> f = dst)
  BY <1>14, DomainPlace, Constants
<1>16. \A d \in Domains : Idle(S, d) => Idle(T, d)
  <2> SUFFICES ASSUME NEW d \in Domains, Idle(S, d) PROVE Idle(T, d)
    OBVIOUS
  <2>1. d \in Owners /\ d \notin {dst, src}
    BY Constants
  <2>2. T.avail[d] = S.avail[d]
    BY <2>1, <1>4 DEF GiveIs
  <2>3. T.domain[d].configured = S.domain[d].configured /\ T.domain[d].hist = S.domain[d].hist
    BY <1>4 DEF GiveIs
  <2> QED
    BY <2>2, <2>3, <1>10 DEF Idle
<1>17. DomainsGood(T)
  <2>1. ASSUME NEW f \in Functions, NEW d \in av(T, f)
        PROVE  T.domain[d].parent = f /\ Idle(T, d)
    <3>1. d \in Domains /\ Idle(S, d) /\ (f \notin {dst} => S.domain[d].parent = f)
      BY <1>1, <1>13, <1>15 DEF DomainsGood
    <3>2. Idle(T, d)
      BY <3>1, <1>16
    <3>3. T.domain[d].parent = IF d \in av(T, dst) THEN dst ELSE S.domain[d].parent
      BY <3>1, <1>4 DEF GiveIs
    <3> QED
      BY <3>1, <3>2, <3>3, <1>15
  <2>2. ASSUME NEW f \in Functions, NEW d \in ToSet(UsedDomains(T, f))
        PROVE  T.domain[d].parent = f /\ T.domain[d].configured
    <3>1. d \in Domains /\ d \notin av(T, dst) /\ d \in ToSet(UsedDomains(S, f))
      BY <1>10, <1>14, <1>5, DomainPlace, Constants DEF UsedDomains
    <3>2. /\ T.domain[d].parent = S.domain[d].parent
          /\ T.domain[d].configured = S.domain[d].configured
      BY <3>1, <1>4 DEF GiveIs
    <3> QED
      BY <3>1, <3>2, <1>1 DEF DomainsGood
  <2>3. ASSUME NEW d \in Domains
        PROVE  T.avail[d]["sched_domain"] = << >> /\ T.used[d]["sched_domain"] = << >>
    <3>1. d \in Owners /\ d \notin {dst, src}
      BY Constants
    <3> QED
      BY <3>1, <1>1, <1>9, <1>10, Constants DEF DomainsGood
  <2>4. \A f \in Functions : \A x \in Kinds \ {"sched_domain"} : T.used[f][x] = << >>
    BY <1>1, <1>10 DEF DomainsGood
  <2> QED
    BY <2>1, <2>2, <2>3, <2>4 DEF DomainsGood
<1>18. T \in HwType
  <2>1. T.avail \in [Owners -> [Kinds -> Seq(Things)]]
    <3>1. ASSUME NEW o \in Owners, NEW x \in Kinds PROVE T.avail[o][x] \in Seq(Things)
      <4>1. Shared(T, x) /\ Members[x] \subseteq Things
        BY <1>11, Constants DEF ListsGood
      <4>2. T.avail[o][x] \in Seq(ToSet(T.avail[o][x])) /\ ToSet(T.avail[o][x]) \subseteq Things
        BY <4>1 DEF Shared, Distinct, Listing
      <4> QED
        BY <4>2
    <3> QED
      BY <3>1, <1>4 DEF GiveIs, Families
  <2>2. T.num \in [Functions -> [Kinds -> Nat]]
    <3>1. ASSUME NEW f \in Functions, NEW x \in Kinds PROVE T.num[f][x] \in Nat
      <4>1. T.avail[f][x] \in Seq(Things)
        BY <2>1, Constants
      <4>2. T.num[f][x] = Len(T.avail[f][x])
        BY <1>11 DEF ListsGood
      <4> QED
        BY <4>1, <4>2
    <3> QED
      BY <3>1, <1>4 DEF GiveIs, Families
  <2>3. T.domain \in [Domains ->
                [parent : Functions, configured : BOOLEAN,
                 hist : [base : Nat, total : Nat, offset : Nat],
                 count : [Counted -> Nat], used_count : [Counted -> Nat]]]
    BY <1>4 DEF GiveIs
  <2>4. /\ S.used \in [Owners -> [Kinds -> Seq(Things)]]
        /\ S.hist \in [Functions -> SUBSET HistEntries]
        /\ S.count \in [Functions -> [Counted -> Nat]]
        /\ S.locked \in [Vdevs -> BOOLEAN]
        /\ S.virt_id \in [Things -> Int]
        /\ S.group \in [SnGroups -> GroupType]
        /\ S.sn \in [Members["ldb_queue"] -> [group : SnGroups \cup {"none"}, slot : Nat]]
        /\ S.port_hist \in [UNION {Members[c] : c \in Cos} -> SUBSET HistEntries]
    BY <1>1, Typed
  <2>5. HwRecord(T)
    BY <1>4
  <2>6. /\ T.used = S.used /\ T.hist = S.hist /\ T.count = S.count /\ T.locked = S.locked
        /\ T.virt_id = S.virt_id /\ T.group = S.group /\ T.sn = S.sn
        /\ T.port_hist = S.port_hist
    BY <1>10 DEF SameRest, SameFields, SameHist
  <2> QED
    BY <2>1, <2>2, <2>3, <2>4, <2>5, <2>6, Typed
<1>19. ASSUME NEW f \in Functions \ {dst, src} PROVE SameHolds(S, T, f)
  <2>1. f \in Owners /\ T.avail[f] = S.avail[f]
    BY <1>4, Constants DEF GiveIs
  <2>2. ToSet(UsedDomains(S, f)) \subseteq Domains
    BY <1>14, DomainPlace, Constants
  <2>3. \A d \in Domains : T.avail[d] = S.avail[d]
    BY <1>4, Constants DEF GiveIs
  <2> QED
    BY <2>1, <2>2, <2>3, <1>10, UntouchedHolds DEF SameHist
<1> QED
  BY <1>10, <1>11, <1>12, <1>17, <1>18, <1>19 DEF Good

(* A function keeps what it has and the ids of that.                       *)
Keeps(S, T, f) ==
  /\ SameHolds(S, T, f)
  /\ \A k \in Kinds : \A r \in Holds(S, f, k) : T.virt_id[r] = S.virt_id[r]

(* Two steps that keep something keep it together.                         *)
LEMMA KeepsTwice ==
  ASSUME NEW S, NEW T, NEW U, NEW f, Keeps(S, T, f), Keeps(T, U, f)
  PROVE  Keeps(S, U, f)
BY DEF Keeps, SameHolds

(* A step of the administrator for v.                                      *)
Changed(S, T, v) ==
  /\ Good(T) /\ T.locked = S.locked
  /\ \A f \in Functions \ {PF, v} : Keeps(S, T, f)

(* Two steps of the administrator for v are one.                           *)
LEMMA ChangedTwice ==
  ASSUME NEW S, NEW T, NEW U, NEW v, Changed(S, T, v), Changed(T, U, v)
  PROVE  Changed(S, U, v)
<1>1. ASSUME NEW f \in Functions \ {PF, v} PROVE Keeps(S, U, f)
  <2>1. Keeps(S, T, f) /\ Keeps(T, U, f)
    BY DEF Changed
  <2> QED
    BY <2>1, KeepsTwice
<1> QED
  BY <1>1 DEF Changed

(* Doing nothing is a step of the administrator.                           *)
LEMMA UnchangedGood ==
  ASSUME NEW S, NEW v, Good(S)
  PROVE  Changed(S, S, v) /\ SameRest(S, S)
BY DEF Changed, Keeps, SameHolds, SameRest, SameFields

SameRestTwice(S, T, U) == SameRest(S, T) /\ SameRest(T, U) => SameRest(S, U)
(* What two steps leave alone they leave alone together.                   *)
LEMMA RestTwice == ASSUME NEW S, NEW T, NEW U PROVE SameRestTwice(S, T, U)
BY DEF SameRestTwice, SameRest, SameFields

(* What is said of lists, domains and history lists depends on these only. *)
SameBooks(S, T) ==
  /\ T.avail = S.avail /\ T.used = S.used /\ T.num = S.num
  /\ T.hist = S.hist /\ T.port_hist = S.port_hist
  /\ \A d \in Domains : /\ T.domain[d].parent = S.domain[d].parent
                        /\ T.domain[d].configured = S.domain[d].configured
                        /\ T.domain[d].hist = S.domain[d].hist

(* The same books are in order as before, and everyone has the same.       *)
LEMMA SameBooksGood ==
  ASSUME NEW S, NEW T, Good(S), T \in HwType, SameBooks(S, T)
  PROVE  Good(T) /\ \A f \in Functions : SameHolds(S, T, f)
<1>1. S \in HwType /\ ListsGood(S) /\ DomainsGood(S) /\ HistGood(S)
  BY DEF Good
<1>2. Shared(S, "sched_domain")
  BY <1>1, Constants DEF ListsGood
<1>3. ListsGood(T)
  <2>1. \A k \in Kinds : Shared(T, k)
    BY <1>1, SameShared DEF ListsGood, SameBooks
  <2>2. \A f \in Functions, k \in Kinds : T.num[f][k] = Len(T.avail[f][k])
    BY <1>1 DEF ListsGood, SameBooks
  <2> QED
    BY <2>1, <2>2 DEF ListsGood
<1>4. \A f \in Functions : /\ ToSet(S.avail[f]["sched_domain"]) \subseteq Domains
                           /\ ToSet(UsedDomains(S, f)) \subseteq Domains
                           /\ UsedDomains(T, f) = UsedDomains(S, f)
  BY <1>2, DomainPlace, Constants DEF UsedDomains, SameBooks
<1>5. DomainsGood(T)
  <2>1. \A d \in Domains : Idle(S, d) => Idle(T, d)
    BY DEF Idle, SameBooks
  <2>2. ASSUME NEW f \in Functions
        PROVE  /\ \A d \in ToSet(T.avail[f]["sched_domain"]) :
                    T.domain[d].parent = f /\ Idle(T, d)
               /\ \A d \in ToSet(UsedDomains(T, f)) :
                    T.domain[d].parent = f /\ T.domain[d].configured
               /\ \A k \in Kinds \ {"sched_domain"} : T.used[f][k] = << >>
    BY <2>1, <1>1, <1>4 DEF DomainsGood, SameBooks
  <2> QED
    BY <2>2, <1>1 DEF DomainsGood, SameBooks
<1>6. HistGood(T)
  BY <1>1, SameHistGood DEF SameBooks, SameHist
<1>7. ASSUME NEW f \in Functions PROVE SameHolds(S, T, f)
  BY <1>4, UntouchedHolds DEF SameBooks
<1> QED
  BY <1>3, <1>5, <1>6, <1>7 DEF Good

(* Other virtual ids: still a device.                                      *)
LEMMA SameTyped ==
  ASSUME NEW S \in HwType, NEW T, HwRecord(T), SameBooks(S, T), SameFields(S, T),
         T.domain = S.domain, T.virt_id \in [Things -> Int]
  PROVE  T \in HwType
BY Typed DEF SameBooks, SameFields

(* What different functions have is different.                             *)
LEMMA HoldsApart ==
  ASSUME NEW S, Good(S), NEW f \in Functions, NEW g \in Functions, f # g,
         NEW k \in Kinds, NEW l \in Kinds, NEW r \in Holds(S, f, k)
  PROVE  r \notin Holds(S, g, l) /\ r \in Members[k]
<1>1. ListsGood(S)
  BY DEF Good
<1>2. Shared(S, k) /\ Shared(S, l) /\ Shared(S, "sched_domain")
  BY <1>1, Constants DEF ListsGood
<1> DEFINE owners(h) == {h} \cup ToSet(UsedDomains(S, h))
           has(h, x, y) == \E o \in owners(h) :
                              y \in ToSet(S.avail[o][x]) \/ y \in ToSet(S.used[o][x])
<1>3. \A h \in Functions : owners(h) \subseteq Owners
  BY <1>2, DomainPlace, Constants
<1>4. owners(f) \cap owners(g) = {}
  <2>1. ToSet(UsedDomains(S, f)) \cap ToSet(UsedDomains(S, g)) = {}
    BY <1>2, DomainPlace, Constants
  <2>2. f \notin Domains /\ g \notin Domains
    BY Constants
  <2>3. ToSet(UsedDomains(S, f)) \subseteq Domains /\ ToSet(UsedDomains(S, g)) \subseteq Domains
    BY <1>2, DomainPlace, Constants
  <2> QED
    BY <2>1, <2>2, <2>3
<1>5. \A h \in Functions : \A x \in Kinds : \A y : y \in Holds(S, h, x) <=> has(h, x, y)
  BY DEF Holds
<1> HIDE DEF owners
<1>6. has(f, k, r) /\ r \in Members[k]
  <2>1. has(f, k, r)
    BY <1>5
  <2> QED
    BY <2>1, <1>2, <1>3 DEF Shared
<1>7. ASSUME r \in Holds(S, g, l) PROVE FALSE
  <2>1. has(g, l, r) /\ r \in Members[l]
    <3>1. has(g, l, r)
      BY <1>5, <1>7
    <3> QED
      BY <3>1, <1>2, <1>3 DEF Shared
  <2>2. k = l
    BY <2>1, <1>6, Constants
  <2>3. PICK o \in owners(f) : r \in ToSet(S.avail[o][k]) \/ r \in ToSet(S.used[o][k])
    BY <1>6
  <2>4. PICK p \in owners(g) : r \in ToSet(S.avail[p][k]) \/ r \in ToSet(S.used[p][k])
    BY <2>1, <2>2
  <2>5. o # p /\ o \in Owners /\ p \in Owners
    BY <1>3, <1>4
  <2> QED
    BY <2>3, <2>4, <2>5, <1>2 DEF Shared
<1> QED
  BY <1>6, <1>7

(* Clearing the ids of what is available to v.                             *)
LEMMA ClearGood ==
  ASSUME NEW S, Good(S), NEW v \in Vdevs, NEW k \in Kinds, NEW T, T = ClearIds(S, v, k)
  PROVE  /\ Changed(S, T, v) /\ SameRest(S, T) /\ T.num = S.num
<1>1. S \in HwType /\ HwRecord(S)
  BY Typed DEF Good
<1>2. T = [S EXCEPT !.virt_id = T.virt_id]
      /\ T.virt_id = [r \in Things |-> IF r \in ToSet(S.avail[v][k]) THEN NoId
                                        ELSE S.virt_id[r]]
  BY <1>1 DEF ClearIds, HwRecord
<1>3. SameBooks(S, T) /\ SameFields(S, T) /\ T.domain = S.domain /\ HwRecord(T)
  BY <1>1, <1>2 DEF SameBooks, SameFields, HwRecord
<1>4. T.virt_id \in [Things -> Int]
  <2>1. S.virt_id \in [Things -> Int]
    BY <1>1, Typed
  <2> QED
    BY <2>1, <1>2 DEF NoId
<1>5. T \in HwType
  BY <1>1, <1>3, <1>4, SameTyped
<1>6. Good(T) /\ \A f \in Functions : SameHolds(S, T, f)
  BY <1>3, <1>5, SameBooksGood
<1>7. ASSUME NEW f \in Functions \ {PF, v}, NEW l \in Kinds, NEW r \in Holds(S, f, l)
      PROVE  T.virt_id[r] = S.virt_id[r]
  <2>1. r \notin Holds(S, v, k) /\ r \in Things
    BY HoldsApart, Constants
  <2>2. r \notin ToSet(S.avail[v][k])
    BY <2>1 DEF Holds
  <2> QED
    BY <2>1, <2>2, <1>2
<1> QED
  BY <1>3, <1>6, <1>7 DEF Changed, Keeps, SameRest, SameFields, SameBooks

(* A transfer between the PF and v, as a step of the administrator.        *)
LEMMA GiveChanged ==
  ASSUME NEW S, Good(S), NEW v \in Vdevs, NEW dst \in {PF, v}, NEW src \in {PF, v}, dst # src,
         NEW k \in Kinds, NEW n \in Nat, NEW T, T = Give(S, dst, src, k, n)
  PROVE  Changed(S, T, v) /\ SameRest(S, T)
<1>1. dst \in Functions /\ src \in Functions /\ {dst, src} = {PF, v}
  BY Constants
<1>2. /\ Good(T) /\ T.virt_id = S.virt_id /\ SameRest(S, T)
      /\ \A f \in Functions \ {dst, src} : SameHolds(S, T, f)
  BY <1>1, GiveGood
<1> QED
  BY <1>1, <1>2 DEF Changed, Keeps, SameRest, SameFields

(* dlb2_update_vdev_*: the books stay in order, no one else is concerned.  *)
LEMMA UpdateGood ==
  ASSUME NEW S, Good(S), NEW v \in Vdevs, NEW k \in Kinds, NEW n \in Nat,
         NEW T, T = update_vdev_list(S, v, k, n)
  PROVE  /\ Changed(S, T, v) /\ SameRest(S, T)
         /\ S.locked[v] => T = S
<1>1. CASE S.locked[v]
  BY <1>1, UnchangedGood DEF update_vdev_list
<1>2. CASE ~S.locked[v]
  <2>1. PICK A : A = ClearIds(S, v, k)
    OBVIOUS
  <2>2. Changed(S, A, v) /\ SameRest(S, A) /\ A.num = S.num
    BY <2>1, ClearGood
  <2>3. PICK orig \in Nat : orig = S.num[v][k]
    <3>1. S.num \in [Functions -> [Kinds -> Nat]]
      BY Typed DEF Good
    <3> QED
      BY <3>1, Constants
  <2>4. PICK B : B = Give(A, PF, v, k, orig)
    OBVIOUS
  <2>5. PF # v /\ Good(A)
    BY <2>2, Constants DEF Changed
  <2>6. Changed(A, B, v) /\ SameRest(A, B)
    BY <2>4, <2>5, GiveChanged
  <2>7. PICK m \in Nat : m = IF n <= B.num[PF][k] THEN n ELSE orig
    OBVIOUS
  <2>8. T = Give(B, v, PF, k, m)
    BY <1>2, <2>1, <2>3, <2>4, <2>7 DEF update_vdev_list, Give
  <2>9. Good(B)
    BY <2>6 DEF Changed
  <2>10. Changed(B, T, v) /\ SameRest(B, T)
    BY <2>5, <2>8, <2>9, GiveChanged
  <2>11. Changed(S, B, v) /\ SameRest(S, B)
    BY <2>2, <2>6, ChangedTwice, RestTwice DEF SameRestTwice
  <2> QED
    BY <1>2, <2>10, <2>11, ChangedTwice, RestTwice DEF SameRestTwice
<1> QED
  BY <1>1, <1>2

(* The classes of ports are those of CosOrder.                             *)
LEMMA CosFinite == IsFiniteSet(Cos) /\ NumCos \in Nat /\ \A i \in 1 .. NumCos : CosOrder[i] \in Cos
<1>1. Numbered(CosOrder, NumCos, Cos)
  BY Constants, ListingNumbered DEF NumCos
<1>2. NumCos \in Nat /\ CosOrder \in Surjection(1 .. NumCos, Cos)
  BY <1>1 DEF Numbered, Surjection
<1>3. IsFiniteSet(1 .. NumCos)
  BY <1>2, FS_Interval
<1> QED
  BY <1>1, <1>2, <1>3, FS_Surjection DEF Numbered

(* The number of a function's ports is a number.                           *)
LEMMA PortsOfInt ==
  ASSUME NEW S \in HwType, NEW f \in Functions
  PROVE  PortsOf(S, f) \in Int
<1>1. S.num \in [Functions -> [Kinds -> Nat]]
  BY Typed
<1>2. [c \in Cos |-> S.num[f][c]] \in [Cos -> Int]
  BY <1>1, Constants
<1> QED
  BY <1>2, CosFinite, SumIsInt DEF PortsOf

Accs(S, v) ==
  {a \in [S : HwType, left : Nat] : Changed(S, a.S, v) /\ SameRest(S, a.S)}

(* One class of ports is added to.                                         *)
LEMMA AddStep ==
  ASSUME NEW S, NEW v \in Vdevs, NEW a \in Accs(S, v), NEW c \in Cos
  PROVE  add_class(a, v, c) \in Accs(S, v)
<1>1. /\ a.S \in HwType /\ a.left \in Nat /\ Changed(S, a.S, v) /\ SameRest(S, a.S)
      /\ Good(a.S)
  BY DEF Accs, Changed
<1>2. PICK U : U = a.S
  OBVIOUS
<1>3. U.num[PF][c] \in Nat /\ U.num[v][c] \in Nat
  <2>1. U.num \in [Functions -> [Kinds -> Nat]]
    BY <1>1, <1>2, Typed
  <2> QED
    BY <2>1, Constants
<1>4. PICK more : more = Least(a.left, U.num[PF][c])
  OBVIOUS
<1>5. more \in Nat /\ a.left - more \in Nat /\ U.num[v][c] + more \in Nat
  BY <1>1, <1>3, <1>4 DEF Least
<1>6. PICK T : T = update_vdev_list(U, v, c, U.num[v][c] + more)
  OBVIOUS
<1>7. Changed(U, T, v) /\ SameRest(U, T)
  BY <1>1, <1>2, <1>5, <1>6, UpdateGood, Constants
<1>8. Changed(S, T, v) /\ SameRest(S, T) /\ T \in HwType
  BY <1>1, <1>2, <1>7, ChangedTwice, RestTwice DEF SameRestTwice, Changed, Good
<1>9. add_class(a, v, c) = IF a.left = 0 THEN a ELSE [S |-> T, left |-> a.left - more]
  BY <1>2, <1>4, <1>6 DEF add_class
<1>10. [S |-> T, left |-> a.left - more] \in Accs(S, v)
  BY <1>5, <1>8 DEF Accs
<1> QED
  BY <1>9, <1>10

(* dlb2_add_vdev_ldb_ports, by recursion over the classes.                 *)
LEMMA AddGood ==
  ASSUME NEW S, Good(S), NEW v \in Vdevs, NEW n \in Nat,
         NEW T, T = add_vdev_ldb_ports(S, v, n)
  PROVE  Changed(S, T, v) /\ SameRest(S, T)
<1> DEFINE start == [S |-> S, left |-> n]
           after[i \in 0 .. NumCos] ==
             IF i = 0 THEN start ELSE add_class(after[i - 1], v, CosOrder[i])
           H == [i \in 0 .. NumCos |-> Accs(S, v)]
           F == [i \in 1 .. NumCos |-> [a \in Accs(S, v) |-> add_class(a, v, CosOrder[i])]]
<1>1. NumCos \in Nat /\ \A i \in 1 .. NumCos : CosOrder[i] \in Cos
  BY CosFinite
<1>2. start \in Accs(S, v)
  BY UnchangedGood DEF Accs, Good
<1>3. \A i \in 1 .. NumCos : \A a \in Accs(S, v) : add_class(a, v, CosOrder[i]) \in Accs(S, v)
  BY <1>1, AddStep
<1>4. \E g : g = [i \in 0 .. NumCos |-> IF i = 0 THEN start
                                         ELSE add_class(g[i - 1], v, CosOrder[i])]
  <2>1. Leads(NumCos, H, F, start)
    BY <1>1, <1>2, <1>3 DEF Leads
  <2>2. PICK g : Follows(NumCos, H, F, start, g)
    <3> HIDE DEF start, H, F, after
    <3> QED
      BY <1>1, <2>1, Recursion
  <2>3. ASSUME NEW i \in 1 .. NumCos PROVE g[i] = add_class(g[i - 1], v, CosOrder[i])
    <3>1. i - 1 \in 0 .. NumCos
      BY <1>1
    <3>2. g[i - 1] \in Accs(S, v)
      BY <3>1, <2>2 DEF Follows
    <3> QED
      BY <3>2, <2>2 DEF Follows
  <2> HIDE DEF start, after, H, F
  <2>4. ASSUME NEW i \in 0 .. NumCos
        PROVE  g[i] = IF i = 0 THEN start ELSE add_class(g[i - 1], v, CosOrder[i])
    <3>1. CASE i = 0
      BY <3>1, <2>2 DEF Follows
    <3>2. CASE i # 0
      BY <1>1, <3>2, <2>3
    <3> QED
      BY <3>1, <3>2
  <2> QED
    BY <2>2, <2>4 DEF Follows
<1>5. after = [i \in 0 .. NumCos |-> IF i = 0 THEN start
                                     ELSE add_class(after[i - 1], v, CosOrder[i])]
  <2> HIDE DEF start
  <2> QED
    BY <1>4 DEF after
<1>6. T = IF PortsOf(S, PF) < n THEN S ELSE after[NumCos].S
  BY DEF add_vdev_ldb_ports
<1> HIDE DEF start, after
<1>7. \A i \in 0 .. NumCos : after[i] \in H[i]
  <2>1. after[0] \in H[0]
    BY <1>1, <1>2, <1>5
  <2>2. \A i \in 1 .. NumCos : after[i - 1] \in H[i - 1] => after[i] \in H[i]
    <3> SUFFICES ASSUME NEW i \in 1 .. NumCos, after[i - 1] \in H[i - 1]
                 PROVE  after[i] \in H[i]
      OBVIOUS
    <3>1. after[i] = add_class(after[i - 1], v, CosOrder[i]) /\ after[i - 1] \in Accs(S, v)
      BY <1>1, <1>5
    <3> QED
      BY <1>1, <1>3, <3>1
  <2> HIDE DEF H
  <2> QED
    BY <1>1, <2>1, <2>2, Steps
<1>8. after[NumCos] \in Accs(S, v)
  BY <1>1, <1>7
<1> QED
  BY <1>6, <1>8, UnchangedGood DEF Accs
(* One class of ports is taken from.                                       *)
LEMMA DelStep ==
  ASSUME NEW S, NEW v \in Vdevs, NEW a \in Accs(S, v), NEW c \in Cos
  PROVE  del_class(a, v, c) \in Accs(S, v)
<1>1. /\ a.S \in HwType /\ a.left \in Nat /\ Changed(S, a.S, v) /\ SameRest(S, a.S)
      /\ Good(a.S)
  BY DEF Accs, Changed
<1>2. PICK U : U = a.S
  OBVIOUS
<1>3. U.num[v][c] \in Nat
  <2>1. U.num \in [Functions -> [Kinds -> Nat]]
    BY <1>1, <1>2, Typed
  <2> QED
    BY <2>1, Constants
<1>4. PICK curr : curr = U.num[v][c]
  OBVIOUS
<1>5. curr - Least(a.left, curr) \in Nat /\ (a.left - curr) % U32 \in Nat
  <2>1. U32 \in Nat \ {0}
    BY NumbersAssumption
  <2> QED
    BY <1>1, <1>3, <1>4, <2>1 DEF Least
<1>6. PICK T : T = update_vdev_list(U, v, c, curr - Least(a.left, curr))
  OBVIOUS
<1>7. Changed(U, T, v) /\ SameRest(U, T)
  BY <1>1, <1>2, <1>5, <1>6, UpdateGood, Constants
<1>8. Changed(S, T, v) /\ SameRest(S, T) /\ T \in HwType
  BY <1>1, <1>2, <1>7, ChangedTwice, RestTwice DEF SameRestTwice, Changed, Good
<1>9. del_class(a, v, c) = IF a.left = 0 THEN a ELSE [S |-> T, left |-> (a.left - curr) % U32]
  BY <1>2, <1>4, <1>6 DEF del_class
<1>10. [S |-> T, left |-> (a.left - curr) % U32] \in Accs(S, v)
  BY <1>5, <1>8 DEF Accs
<1> QED
  BY <1>9, <1>10

(* dlb2_del_vdev_ldb_ports; what is left is a number below U32.            *)
LEMMA DelGood ==
  ASSUME NEW S, Good(S), NEW v \in Vdevs, NEW n \in Nat,
         NEW T, T = del_vdev_ldb_ports(S, v, n)
  PROVE  Changed(S, T, v) /\ SameRest(S, T)
<1> DEFINE start == [S |-> S, left |-> n]
           after[i \in 0 .. NumCos] ==
             IF i = 0 THEN start ELSE del_class(after[i - 1], v, CosOrder[i])
           H == [i \in 0 .. NumCos |-> Accs(S, v)]
           F == [i \in 1 .. NumCos |-> [a \in Accs(S, v) |-> del_class(a, v, CosOrder[i])]]
<1>1. NumCos \in Nat /\ \A i \in 1 .. NumCos : CosOrder[i] \in Cos
  BY CosFinite
<1>2. start \in Accs(S, v)
  BY UnchangedGood DEF Accs, Good
<1>3. \A i \in 1 .. NumCos : \A a \in Accs(S, v) : del_class(a, v, CosOrder[i]) \in Accs(S, v)
  BY <1>1, DelStep
<1>4. \E g : g = [i \in 0 .. NumCos |-> IF i = 0 THEN start
                                         ELSE del_class(g[i - 1], v, CosOrder[i])]
  <2>1. Leads(NumCos, H, F, start)
    BY <1>1, <1>2, <1>3 DEF Leads
  <2>2. PICK g : Follows(NumCos, H, F, start, g)
    <3> HIDE DEF start, H, F, after
    <3> QED
      BY <1>1, <2>1, Recursion
  <2>3. ASSUME NEW i \in 1 .. NumCos PROVE g[i] = del_class(g[i - 1], v, CosOrder[i])
    <3>1. i - 1 \in 0 .. NumCos
      BY <1>1
    <3>2. g[i - 1] \in Accs(S, v)
      BY <3>1, <2>2 DEF Follows
    <3> QED
      BY <3>2, <2>2 DEF Follows
  <2> HIDE DEF start, after, H, F
  <2>4. ASSUME NEW i \in 0 .. NumCos
        PROVE  g[i] = IF i = 0 THEN start ELSE del_class(g[i - 1], v, CosOrder[i])
    <3>1. CASE i = 0
      BY <3>1, <2>2 DEF Follows
    <3>2. CASE i # 0
      BY <1>1, <3>2, <2>3
    <3> QED
      BY <3>1, <3>2
  <2> QED
    BY <2>2, <2>4 DEF Follows
<1>5. after = [i \in 0 .. NumCos |-> IF i = 0 THEN start
                                     ELSE del_class(after[i - 1], v, CosOrder[i])]
  <2> HIDE DEF start
  <2> QED
    BY <1>4 DEF after
<1>6. T = after[NumCos].S
  BY DEF del_vdev_ldb_ports
<1> HIDE DEF start, after
<1>7. \A i \in 0 .. NumCos : after[i] \in H[i]
  <2>1. after[0] \in H[0]
    BY <1>1, <1>2, <1>5
  <2>2. \A i \in 1 .. NumCos : after[i - 1] \in H[i - 1] => after[i] \in H[i]
    <3> SUFFICES ASSUME NEW i \in 1 .. NumCos, after[i - 1] \in H[i - 1]
                 PROVE  after[i] \in H[i]
      OBVIOUS
    <3>1. after[i] = del_class(after[i - 1], v, CosOrder[i]) /\ after[i - 1] \in Accs(S, v)
      BY <1>1, <1>5
    <3> QED
      BY <1>1, <1>3, <3>1
  <2> HIDE DEF H
  <2> QED
    BY <1>1, <2>1, <2>2, Steps
<1>8. after[NumCos] \in Accs(S, v)
  BY <1>1, <1>7
<1> QED
  BY <1>6, <1>8, UnchangedGood DEF Accs

(* dlb2_update_vdev_ldb_ports.                                             *)
LEMMA PortsGood ==
  ASSUME NEW S, Good(S), NEW v \in Vdevs, NEW n \in Nat,
         NEW T, T = update_vdev_ldb_ports(S, v, n)
  PROVE  Changed(S, T, v) /\ SameRest(S, T) /\ (S.locked[v] => T = S)
<1>1. PICK orig \in Int : orig = PortsOf(S, v)
  BY PortsOfInt, Constants DEF Good
<1>2. CASE S.locked[v] \/ orig = n
  BY <1>1, <1>2, UnchangedGood DEF update_vdev_ldb_ports
<1>3. CASE ~S.locked[v] /\ orig < n
  <2>1. n - orig \in Nat
    BY <1>3
  <2>2. T = add_vdev_ldb_ports(S, v, n - orig)
    BY <1>1, <1>3 DEF update_vdev_ldb_ports
  <2> QED
    BY <1>3, <2>1, <2>2, AddGood
<1>4. CASE ~S.locked[v] /\ ~(orig < n) /\ orig # n
  <2>1. orig - n \in Nat
    BY <1>4
  <2>2. T = del_vdev_ldb_ports(S, v, orig - n)
    BY <1>1, <1>4 DEF update_vdev_ldb_ports
  <2> QED
    BY <1>4, <2>1, <2>2, DelGood
<1> QED
  BY <1>2, <1>3, <1>4

(* The least number of an interval is its first.                           *)
LEMMA IntervalMin ==
  ASSUME NEW b \in Nat, NEW n \in Nat, n > 0
  PROVE  Min(b .. b + n - 1) = b
<1> DEFINE I == b .. b + n - 1
<1>1. I \in SUBSET Nat /\ b \in I /\ \A i \in I : b <= i
  OBVIOUS
<1> HIDE DEF I
<1>2. Min(I) \in I /\ \A i \in I : Min(I) <= i
  BY <1>1, LeastNumber
<1>3. Min(I) = b
  <2>1. PICK m \in Nat : m = Min(I)
    BY <1>1, <1>2
  <2>2. m <= b /\ b <= m
    BY <1>1, <1>2, <2>1
  <2> QED
    BY <2>1, <2>2
<1> QED
  BY <1>3 DEF I

RangeIs(bits, n, range) ==
  /\ range \subseteq bits
  /\ Ranges(bits, n) = {} => range = {}
  /\ Ranges(bits, n) # {} =>
       n > 0 /\ Min(range) \in Nat /\ range = Min(range) .. Min(range) + n - 1

(* The range that is found is in the bitmap and has the length asked for.  *)
LEMMA RangeFound ==
  ASSUME NEW bits \in SUBSET Nat, NEW n \in Nat,
         NEW range, range = find_set_bit_range(bits, n)
  PROVE  RangeIs(bits, n, range)
<1> USE DEF RangeIs
<1> DEFINE B == {e \in bits : n > 0 /\ e .. e + n - 1 \subseteq bits}
<1>1. Ranges(bits, n) = {b .. b + n - 1 : b \in B}
  BY DEF Ranges
<1>2. CASE Ranges(bits, n) = {}
  BY <1>2 DEF find_set_bit_range
<1>3. CASE Ranges(bits, n) # {}
  <2>1. B # {} /\ B \in SUBSET Nat /\ n > 0
    BY <1>1, <1>3
  <2>2. \A b \in B : b \in Nat /\ b .. b + n - 1 \subseteq bits
    OBVIOUS
  <2> HIDE DEF B
  <2>3. Min(B) \in B /\ \A b \in B : Min(B) <= b
    BY <2>1, LeastNumber
  <2>4. \A b \in B : Min(b .. b + n - 1) = b
    BY <2>1, <2>2, IntervalMin
  <2>5. \E r \in Ranges(bits, n) : \A s \in Ranges(bits, n) : Min(r) <= Min(s)
    <3>1. PICK b : b = Min(B)
      OBVIOUS
    <3>2. b \in B /\ b .. b + n - 1 \in Ranges(bits, n) /\ Min(b .. b + n - 1) = b
      BY <3>1, <2>3, <2>4, <1>1
    <3>3. \A s \in Ranges(bits, n) : b <= Min(s)
      BY <3>1, <2>3, <2>4, <1>1
    <3> QED
      BY <3>2, <3>3
  <2>6. range \in Ranges(bits, n)
    BY <1>3, <2>5 DEF find_set_bit_range
  <2>7. PICK b \in B : range = b .. b + n - 1
    BY <2>6, <1>1
  <2>8. Min(range) = b
    BY <2>7, <2>4
  <2> QED
    BY <1>3, <2>1, <2>2, <2>7, <2>8
<1> QED
  BY <1>2, <1>3

(* dlb2_update_vdev_hist_list_entries.                                     *)
LEMMA UpdateHistGood ==
  ASSUME NEW S, Good(S), NEW v \in Vdevs, NEW n \in Nat,
         NEW T, T = update_vdev_hist_list_entries(S, v, n)
  PROVE  Changed(S, T, v) /\ SameRest(S, T) /\ (S.locked[v] => T = S)
<1>1. CASE S.locked[v]
  BY <1>1, UnchangedGood DEF update_vdev_hist_list_entries
<1>2. CASE ~S.locked[v]
  <2>1. S \in HwType /\ HwRecord(S) /\ ListsGood(S) /\ DomainsGood(S) /\ HistGood(S)
    BY Typed DEF Good
  <2>2. PF \in Functions /\ v \in Functions /\ PF # v /\ PF \in Owners /\ v \in Owners
    BY Constants
  <2>3. S.hist \in [Functions -> SUBSET HistEntries] /\ HistEntries \subseteq Nat
    <3>1. S.hist \in [Functions -> SUBSET HistEntries]
      BY <2>1, Typed
    <3>2. HistEntries \subseteq Nat
      BY NumbersAssumption DEF HistEntries
    <3> QED
      BY <3>1, <3>2
  <2>4. PICK bits \in SUBSET HistEntries : bits = S.hist[PF] \cup S.hist[v]
    BY <2>2, <2>3
  <2>5. PICK range \in SUBSET bits :
          T = [S EXCEPT !.hist = [S.hist EXCEPT ![PF] = bits \ range, ![v] = range]]
    <3>1. PICK found \in BOOLEAN : found = (n = 0 \/ Ranges(bits, n) # {})
      OBVIOUS
    <3>2. PICK m : m = IF found THEN n ELSE Cardinality(S.hist[v])
      OBVIOUS
    <3>3. m \in Nat
      <4>1. IsFiniteSet(HistEntries)
        BY NumbersAssumption, FS_Interval DEF HistEntries
      <4>2. IsFiniteSet(S.hist[v])
        BY <4>1, <2>2, <2>3, FS_Subset
      <4>3. Cardinality(S.hist[v]) \in Nat
        BY <4>2, FS_CardinalityType
      <4> QED
        BY <3>2, <4>3
    <3>4. PICK range : range = find_set_bit_range(bits, m)
      OBVIOUS
    <3>5. range \subseteq bits
      <4>1. bits \in SUBSET Nat
        BY <2>3
      <4> QED
        BY <4>1, <3>3, <3>4, RangeFound DEF RangeIs
    <3>6. T = [S EXCEPT !.hist = [S.hist EXCEPT ![PF] = bits \ range, ![v] = range]]
      BY <1>2, <2>4, <3>1, <3>2, <3>4 DEF update_vdev_hist_list_entries
    <3> QED
      BY <3>5, <3>6
  <2>6. /\ HwRecord(T) /\ SameFields(S, T) /\ T.domain = S.domain
        /\ T.avail = S.avail /\ T.num = S.num /\ T.virt_id = S.virt_id
        /\ T.port_hist = S.port_hist
        /\ T.hist = [S.hist EXCEPT ![PF] = bits \ range, ![v] = range]
    BY <2>1, <2>5 DEF HwRecord, SameFields
  <2>7. /\ T.hist \in [Functions -> SUBSET HistEntries]
        /\ T.hist[PF] = bits \ range /\ T.hist[v] = range
        /\ \A f \in Functions \ {PF, v} : T.hist[f] = S.hist[f]
    BY <2>2, <2>3, <2>4, <2>5, <2>6
  <2>8. T \in HwType
    BY <2>1, <2>6, <2>7, Typed DEF SameFields
  <2>9. Shared(S, "sched_domain") /\ \A k \in Kinds : Shared(S, k)
    BY <2>1, Constants DEF ListsGood
  <2>10. ListsGood(T)
    BY <2>1, <2>6, SameShared DEF ListsGood, SameFields
  <2>11. DomainsGood(T)
    <3>1. \A d \in Domains : Idle(S, d) => Idle(T, d)
      BY <2>6 DEF Idle, SameFields
    <3>2. \A f \in Functions : /\ ToSet(S.avail[f]["sched_domain"]) \subseteq Domains
                               /\ UsedDomains(T, f) = UsedDomains(S, f)
      BY <2>6, <2>9, DomainPlace, Constants DEF UsedDomains, SameFields
    <3> QED
      BY <2>1, <2>6, <3>1, <3>2 DEF DomainsGood, SameFields
  <2>12. /\ HistOf(S, PF) \cup HistOf(S, v) = bits
         /\ HistOf(T, PF) = bits \ range /\ HistOf(T, v) = range
         /\ \A o \in Owners \ {PF, v} : HistOf(T, o) = HistOf(S, o)
    BY <2>2, <2>4, <2>6, <2>7 DEF HistOf, DomainHist
  <2>13. HistGood(T)
    <3>1. \A o \in Owners : HistOf(T, o) \subseteq HistEntries
      BY <2>1, <2>4, <2>5, <2>12 DEF HistGood
    <3>2. ASSUME NEW o \in Owners, NEW p \in Owners, o # p
          PROVE  HistOf(T, o) \cap HistOf(T, p) = {}
      <4>1. \A q \in Owners \ {PF, v} : HistOf(S, q) \cap bits = {}
        BY <2>1, <2>2, <2>12 DEF HistGood
      <4>2. CASE o \in {PF, v} /\ p \in {PF, v}
        BY <4>2, <3>2, <2>2, <2>12
      <4>3. CASE o \in {PF, v} /\ p \notin {PF, v}
        BY <4>1, <4>3, <2>12
      <4>4. CASE o \notin {PF, v} /\ p \in {PF, v}
        BY <4>1, <4>4, <2>12
      <4>5. CASE o \notin {PF, v} /\ p \notin {PF, v}
        BY <4>5, <3>2, <2>1, <2>12 DEF HistGood
      <4> QED
        BY <4>2, <4>3, <4>4, <4>5
    <3>3. ASSUME NEW e \in HistEntries PROVE \E o \in Owners : e \in HistOf(T, o)
      <4>1. PICK o \in Owners : e \in HistOf(S, o)
        BY <2>1 DEF HistGood
      <4>2. CASE o \in {PF, v}
        BY <4>1, <4>2, <2>2, <2>12
      <4>3. CASE o \notin {PF, v}
        BY <4>1, <4>3, <2>12
      <4> QED
        BY <4>2, <4>3
    <3>4. \A d \in Domains : /\ HandedOut(T, d) = HandedOut(S, d)
                             /\ PortsInUse(T, d) = PortsInUse(S, d)
      BY <2>6 DEF HandedOut, PortsInUse, SameFields
    <3> QED
      BY <2>1, <2>6, <3>1, <3>2, <3>3, <3>4 DEF HistGood
  <2>14. ASSUME NEW f \in Functions \ {PF, v} PROVE Keeps(S, T, f)
    <3>1. ToSet(UsedDomains(S, f)) \subseteq Domains
      BY <2>9, DomainPlace, Constants
    <3>2. SameHolds(S, T, f)
      BY <3>1, <2>6, <2>7, UntouchedHolds DEF SameFields
    <3> QED
      BY <3>2, <2>6 DEF Keeps
  <2> QED
    BY <1>2, <2>6, <2>8, <2>10, <2>11, <2>13, <2>14
       DEF Good, Changed, SameFields, SameRest
<1> QED
  BY <1>1, <1>2

(* The same books and the same ids.                                        *)
LEMMA BooksKept ==
  ASSUME NEW S, NEW T, Good(S), T \in HwType, SameBooks(S, T), T.virt_id = S.virt_id
  PROVE  Good(T) /\ \A f \in Functions : Keeps(S, T, f)
BY SameBooksGood DEF Keeps

(* The PF and v exchange counts.                                           *)
MovedCounts(S, T, v) ==
  /\ T.group = S.group /\ T.sn = S.sn /\ T.used = S.used
  /\ \A d \in Domains : /\ T.domain[d].count = S.domain[d].count
                        /\ T.domain[d].used_count = S.domain[d].used_count
  /\ \A f \in Functions \ {PF, v} : T.count[f] = S.count[f]
  /\ \A k \in Counted : T.count[PF][k] + T.count[v][k] = S.count[PF][k] + S.count[v][k]

(* If no count changes nothing is exchanged.                               *)
LEMMA SameRestMoved ==
  ASSUME NEW S, NEW T, NEW v, SameRest(S, T)
  PROVE  MovedCounts(S, T, v)
BY DEF SameRest, SameFields, MovedCounts

(* dlb2_update_vdev_*_credits, _atomic_inflights, _sn_slots.               *)
LEMMA UpdateCountGood ==
  ASSUME NEW S, Good(S), NEW v \in Vdevs, NEW k \in Counted, NEW n \in Nat,
         NEW T, T = update_vdev_count(S, v, k, n)
  PROVE  Changed(S, T, v) /\ MovedCounts(S, T, v) /\ (S.locked[v] => T = S)
<1>1. CASE S.locked[v] \/ S.count[PF][k] + S.count[v][k] < n
  <2>1. T = S
    BY <1>1 DEF update_vdev_count
  <2> QED
    BY <2>1, UnchangedGood, SameRestMoved
<1>2. CASE ~S.locked[v] /\ ~(S.count[PF][k] + S.count[v][k] < n)
  <2>1. S \in HwType /\ HwRecord(S)
    BY Typed DEF Good
  <2>2. S.count \in [Functions -> [Counted -> Nat]]
    BY <2>1, Typed
  <2>3. PICK m \in Nat : m = S.count[PF][k] + S.count[v][k] - n
    BY <1>2, <2>2, Constants
  <2>4. T = [S EXCEPT !.count = [S.count EXCEPT ![PF][k] = m, ![v][k] = n]]
    <3>1. PICK all : all = S.count[PF][k] + S.count[v][k]
      OBVIOUS
    <3>2. PICK U : U = [S EXCEPT !.count = [S.count EXCEPT ![PF][k] = all - n, ![v][k] = n]]
      OBVIOUS
    <3>3. T = IF S.locked[v] \/ all < n THEN S ELSE U
      BY <3>1, <3>2 DEF update_vdev_count
    <3>4. m = all - n
      BY <2>2, <2>3, <3>1, Constants
    <3>5. T = U
      BY <1>2, <3>1, <3>3
    <3> QED
      BY <3>2, <3>4, <3>5
  <2>5. /\ HwRecord(T) /\ SameBooks(S, T) /\ T.domain = S.domain
        /\ T.virt_id = S.virt_id /\ T.locked = S.locked /\ T.group = S.group /\ T.sn = S.sn
        /\ T.count = [S.count EXCEPT ![PF][k] = m, ![v][k] = n]
    BY <2>1, <2>4 DEF HwRecord, SameBooks
  <2>6. T.count \in [Functions -> [Counted -> Nat]]
    <3>1. PICK C : C = [S.count EXCEPT ![PF][k] = m]
      OBVIOUS
    <3>2. C \in [Functions -> [Counted -> Nat]] /\ T.count = [C EXCEPT ![v][k] = n]
      BY <2>2, <2>5, <3>1, Constants
    <3> QED
      BY <3>2, Constants
  <2>7. T \in HwType
    BY <2>1, <2>5, <2>6, Typed DEF SameBooks
  <2>8. /\ \A f \in Functions \ {PF, v} : T.count[f] = S.count[f]
        /\ \A x \in Counted : T.count[PF][x] + T.count[v][x] = S.count[PF][x] + S.count[v][x]
    <3>1. PICK C \in [Functions -> [Counted -> Nat]] : C = [S.count EXCEPT ![PF][k] = m]
      <4>1. [S.count EXCEPT ![PF][k] = m] \in [Functions -> [Counted -> Nat]]
        BY <2>2
      <4> QED
        BY <4>1, Zenon
    <3>2. T.count = [C EXCEPT ![v][k] = n]
      BY <2>5, <3>1
    <3>3. /\ PF \in Functions /\ v \in Functions /\ PF # v
          /\ S.count[PF][k] \in Nat /\ S.count[v][k] \in Nat
      BY <2>2, Constants
    <3>4. \A f \in Functions \ {PF, v} : T.count[f] = S.count[f]
      BY <2>2, <3>1, <3>2
    <3>5. /\ T.count[PF][k] = m /\ T.count[v][k] = n
          /\ \A x \in Counted \ {k} : T.count[PF][x] = S.count[PF][x] /\ T.count[v][x] = S.count[v][x]
      BY <2>2, <3>1, <3>2, <3>3
    <3>6. \A x \in Counted : T.count[PF][x] + T.count[v][x] = S.count[PF][x] + S.count[v][x]
      BY <2>3, <3>3, <3>5
    <3> QED
      BY <3>4, <3>6
  <2>9. MovedCounts(S, T, v)
    BY <2>5, <2>8 DEF MovedCounts, SameBooks
  <2> QED
    BY <1>2, <2>5, <2>7, <2>9, BooksKept DEF Changed
<1> QED
  BY <1>1, <1>2

(* dlb2_reset_vdev_resources: all of what precedes in a row.               *)
LEMMA GiveBackGood ==
  ASSUME NEW S, Good(S), NEW v \in Vdevs, NEW T, T = reset_vdev_resources(S, v)
  PROVE  Changed(S, T, v) /\ MovedCounts(S, T, v) /\ (S.locked[v] => T = S)
<1>1. CASE S.locked[v]
  <2>1. T = S
    BY <1>1 DEF reset_vdev_resources
  <2> QED
    BY <2>1, UnchangedGood, SameRestMoved
<1>2. CASE ~S.locked[v]
  <2>1. PICK A : A = update_vdev_list(S, v, "sched_domain", 0)
    OBVIOUS
  <2>2. PICK B : B = update_vdev_list(A, v, "ldb_queue", 0)
    OBVIOUS
  <2>3. PICK C : C = update_vdev_ldb_ports(B, v, 0)
    OBVIOUS
  <2>4. PICK D : D = update_vdev_list(C, v, "dir_port", 0)
    OBVIOUS
  <2>5. PICK E : E = update_vdev_hist_list_entries(D, v, 0)
    OBVIOUS
  <2>6. PICK given : given = [S.count EXCEPT
             ![PF] = [k \in Counted |-> S.count[PF][k] + S.count[v][k]],
             ![v] = [k \in Counted |-> 0]]
    OBVIOUS
  <2>7. T = [E EXCEPT !.count = given]
    BY <1>2, <2>1, <2>2, <2>3, <2>4, <2>5, <2>6 DEF reset_vdev_resources
  <2>8. Changed(S, A, v) /\ SameRest(S, A)
    BY <2>1, UpdateGood, Constants
  <2>9. Changed(A, B, v) /\ SameRest(A, B)
    BY <2>2, <2>8, UpdateGood, Constants DEF Changed
  <2>10. Changed(B, C, v) /\ SameRest(B, C)
    BY <2>3, <2>9, PortsGood DEF Changed
  <2>11. Changed(C, D, v) /\ SameRest(C, D)
    BY <2>4, <2>10, UpdateGood, Constants DEF Changed
  <2>12. Changed(D, E, v) /\ SameRest(D, E)
    BY <2>5, <2>11, UpdateHistGood DEF Changed
  <2>13. Changed(S, E, v) /\ SameRest(S, E)
    BY <2>8, <2>9, <2>10, <2>11, <2>12, ChangedTwice, RestTwice DEF SameRestTwice
  <2>14. E \in HwType /\ HwRecord(E)
    BY <2>12, Typed DEF Changed, Good
  <2>15. given \in [Functions -> [Counted -> Nat]]
    <3>1. S.count \in [Functions -> [Counted -> Nat]]
      BY Typed DEF Good
    <3>2. [k \in Counted |-> S.count[PF][k] + S.count[v][k]] \in [Counted -> Nat]
      BY <3>1, Constants
    <3> QED
      BY <2>6, <3>1, <3>2
  <2>16. /\ HwRecord(T) /\ SameBooks(E, T) /\ T.domain = E.domain
         /\ T.virt_id = E.virt_id /\ T.locked = E.locked /\ T.group = E.group /\ T.sn = E.sn
         /\ T.count = given
    BY <2>7, <2>14 DEF HwRecord, SameBooks
  <2>17. T \in HwType
    BY <2>14, <2>15, <2>16, Typed DEF SameBooks
  <2>18. Changed(E, T, v)
    BY <2>12, <2>16, <2>17, BooksKept DEF Changed
  <2>19. MovedCounts(S, T, v)
    <3>1. /\ PF \in Functions /\ v \in Functions /\ PF # v
          /\ S.count \in [Functions -> [Counted -> Nat]]
      BY Constants, Typed DEF Good
    <3>2. \A f \in Functions \ {PF, v} : T.count[f] = S.count[f]
      BY <2>6, <2>16, <3>1
    <3>3. /\ T.count[PF] = [k \in Counted |-> S.count[PF][k] + S.count[v][k]]
          /\ T.count[v] = [k \in Counted |-> 0]
      BY <2>6, <2>16, <3>1
    <3>4. \A k \in Counted : T.count[PF][k] + T.count[v][k] = S.count[PF][k] + S.count[v][k]
      <4> TAKE k \in Counted
      <4>1. S.count[PF][k] \in Nat /\ S.count[v][k] \in Nat
        BY <3>1
      <4> QED
        BY <3>3, <4>1
    <3> QED
      BY <2>13, <2>16, <3>2, <3>4 DEF MovedCounts, SameBooks, SameRest, SameFields
  <2> QED
    BY <1>2, <2>13, <2>18, <2>19, ChangedTwice
<1> QED
  BY <1>1, <1>2

(* A vdev is locked or unlocked.                                           *)
Turned(S, T, v, b) ==
  /\ Good(T) /\ T.locked = [S.locked EXCEPT ![v] = b]
  /\ SameBooks(S, T)
  /\ T.domain = S.domain /\ T.count = S.count /\ T.group = S.group /\ T.sn = S.sn

(* A vdev is unlocked: only its flag changes.                              *)
LEMMA UnlockGood ==
  ASSUME NEW S, Good(S), NEW v \in Vdevs, NEW T, T = [S EXCEPT !.locked[v] = FALSE]
  PROVE  Turned(S, T, v, FALSE) /\ \A f \in Functions : Keeps(S, T, f)
<1>1. S \in HwType /\ HwRecord(S) /\ S.locked \in [Vdevs -> BOOLEAN]
  BY Typed DEF Good
<1>2. /\ HwRecord(T) /\ SameBooks(S, T) /\ T.domain = S.domain
      /\ T.virt_id = S.virt_id /\ T.locked = [S.locked EXCEPT ![v] = FALSE]
      /\ T.group = S.group /\ T.sn = S.sn /\ T.count = S.count
  BY <1>1 DEF HwRecord, SameBooks
<1>3. T.locked \in [Vdevs -> BOOLEAN]
  BY <1>1, <1>2
<1>4. T \in HwType
  BY <1>1, <1>2, <1>3, Typed DEF SameBooks
<1> QED
  BY <1>2, <1>4, BooksKept DEF Turned

(* The first id of a class is a number.                                    *)
LEMMA BeforeInt ==
  ASSUME NEW S \in HwType, NEW v \in Vdevs, NEW k \in Kinds
  PROVE  Before(S, v, k) \in Int
<1>1. CASE k \in Cos
  <2>1. NumCos \in Nat /\ \A i \in 1 .. NumCos : CosOrder[i] \in Cos
    BY CosFinite
  <2>2. Numbered(CosOrder, NumCos, Cos)
    BY Constants, ListingNumbered DEF NumCos
  <2>3. Place(k) \in 1 .. NumCos
    <3>1. \E i \in 1 .. NumCos : CosOrder[i] = k
      BY <1>1, <2>2 DEF Numbered
    <3> QED
      BY <3>1 DEF Place
  <2>4. PICK n \in Nat : n = Place(k) - 1 /\ 1 .. n \subseteq 1 .. NumCos
    BY <2>1, <2>3
  <2>5. S.avail \in [Owners -> [Kinds -> Seq(Things)]]
    BY Typed
  <2>6. \A i \in 1 .. n : Len(S.avail[v][CosOrder[i]]) \in Int
    BY <2>1, <2>4, <2>5, Constants
  <2>7. IsFiniteSet(1 .. n)
    BY FS_Interval
  <2>8. [i \in 1 .. n |-> Len(S.avail[v][CosOrder[i]])] \in [1 .. n -> Int]
    BY <2>6
  <2>9. Before(S, v, k) = SumFunction([i \in 1 .. n |-> Len(S.avail[v][CosOrder[i]])])
    BY <1>1, <2>4 DEF Before
  <2> QED
    BY <2>7, <2>8, <2>9, SumIsInt
<1>2. CASE k \notin Cos
  BY <1>2 DEF Before
<1> QED
  BY <1>1, <1>2

(* The kind of a resource that is available to v.                          *)
KindOf(S, v, r) == CHOOSE k \in Kinds : r \in ToSet(S.avail[v][k])
Available(S, v) == {r \in Things : \E k \in Kinds : r \in ToSet(S.avail[v][k])}

(* The ids that are given out.                                             *)
LockedIds(S, v) ==
  [r \in Things |->
     IF r \in Available(S, v)
     THEN Before(S, v, KindOf(S, v, r)) + (Index(S.avail[v][KindOf(S, v, r)], r) - 1)
     ELSE S.virt_id[r]]

(* A vdev is locked: its flag, and the ids of what is available to it.     *)
LEMMA LockGood ==
  ASSUME NEW S, Good(S), NEW v \in Vdevs, NEW T, T = lock_vdev(S, v)
  PROVE  /\ Turned(S, T, v, TRUE)
         /\ T.virt_id = LockedIds(S, v)
         /\ \A f \in Functions \ {v} : Keeps(S, T, f)
<1>1. S \in HwType /\ HwRecord(S) /\ S.locked \in [Vdevs -> BOOLEAN]
      /\ S.virt_id \in [Things -> Int]
  BY Typed DEF Good
<1> DEFINE ids == [r \in Things |->
              IF r \in Available(S, v)
              THEN Before(S, v, KindOf(S, v, r))
                     + (Index(S.avail[v][KindOf(S, v, r)], r) - 1)
              ELSE S.virt_id[r]]
<1>2. T = [S EXCEPT !.locked[v] = TRUE, !.virt_id = ids]
  BY DEF lock_vdev, KindOf, Available
<1>3. ids \in [Things -> Int]
  <2>1. ASSUME NEW r \in Available(S, v)
        PROVE  Before(S, v, KindOf(S, v, r))
                 + (Index(S.avail[v][KindOf(S, v, r)], r) - 1) \in Int
    <3>1. PICK k : k = KindOf(S, v, r)
      OBVIOUS
    <3>2. k \in Kinds /\ r \in ToSet(S.avail[v][k])
      BY <3>1 DEF KindOf, Available
    <3>3. Listing(S.avail[v][k], ToSet(S.avail[v][k]))
      BY <3>2, Constants DEF Good, ListsGood, Shared, Distinct
    <3>4. Index(S.avail[v][k], r) \in Nat
      BY <3>2, <3>3, IndexIn
    <3>5. Before(S, v, k) \in Int
      BY <1>1, <3>2, BeforeInt
    <3> QED
      BY <3>1, <3>4, <3>5
  <2>2. \A r \in Things : S.virt_id[r] \in Int
    BY <1>1
  <2> QED
    BY <2>1, <2>2
<1> HIDE DEF ids
<1>4. /\ HwRecord(T) /\ SameBooks(S, T) /\ T.domain = S.domain
      /\ T.virt_id = ids /\ T.locked = [S.locked EXCEPT ![v] = TRUE]
      /\ T.group = S.group /\ T.sn = S.sn /\ T.count = S.count
  BY <1>1, <1>2 DEF HwRecord, SameBooks
<1>5. T.locked \in [Vdevs -> BOOLEAN]
  BY <1>1, <1>4
<1>6. T \in HwType
  BY <1>1, <1>3, <1>4, <1>5, Typed DEF SameBooks
<1>7. Good(T) /\ \A f \in Functions : SameHolds(S, T, f)
  BY <1>4, <1>6, SameBooksGood
<1>8. ASSUME NEW f \in Functions \ {v}, NEW k \in Kinds, NEW r \in Holds(S, f, k)
      PROVE  T.virt_id[r] = S.virt_id[r]
  <2>1. \A l \in Kinds : r \notin ToSet(S.avail[v][l])
    <3>1. ASSUME NEW l \in Kinds PROVE r \notin Holds(S, v, l)
      BY HoldsApart, Constants
    <3> QED
      BY <3>1 DEF Holds
  <2>2. r \in Things
    <3>1. v \in Functions /\ f # v
      BY Constants
    <3>2. r \in Members[k]
      BY <3>1, HoldsApart
    <3> QED
      BY <3>2, Constants
  <2> QED
    BY <1>4, <2>1, <2>2 DEF ids, Available
<1> QED
  BY <1>4, <1>7, <1>8 DEF Turned, Keeps, ids, LockedIds

(* A configured domain is in the list of its function.                     *)
LEMMA ConfiguredIn ==
  ASSUME NEW S, Good(S), NEW d \in Domains, S.domain[d].configured
  PROVE  S.domain[d].parent \in Functions /\ d \in ToSet(UsedDomains(S, S.domain[d].parent))
<1>1. /\ S \in HwType /\ ListsGood(S) /\ DomainsGood(S)
  BY DEF Good
<1>2. Shared(S, "sched_domain") /\ d \in Members["sched_domain"]
  BY <1>1, Constants DEF ListsGood
<1>3. PICK o \in Owners : \/ d \in ToSet(S.avail[o]["sched_domain"])
                          \/ d \in ToSet(S.used[o]["sched_domain"])
  BY <1>2 DEF Shared
<1>4. o \in Functions
  <2> SUFFICES ASSUME o \in Domains PROVE FALSE
    BY DEF Owners
  <2>1. S.avail[o]["sched_domain"] = << >> /\ S.used[o]["sched_domain"] = << >>
    BY <1>1 DEF DomainsGood
  <2>2. ToSet(<< >>) = {}
    BY DEF ToSet
  <2> QED
    BY <1>3, <2>1, <2>2
<1>5. d \in ToSet(UsedDomains(S, o))
  BY <1>1, <1>3, <1>4 DEF DomainsGood, Idle, UsedDomains
<1> QED
  BY <1>1, <1>4, <1>5 DEF DomainsGood

(* Owner o puts the first entry of a list to use.                          *)
UsedBy(S, T, o, k) ==
  /\ T.avail[o][k] = Tail(S.avail[o][k])
  /\ T.used[o][k] = <<Head(S.avail[o][k])>> \o S.used[o][k]
  /\ \A p \in Owners \ {o} : T.avail[p][k] = S.avail[p][k] /\ T.used[p][k] = S.used[p][k]

UseEffect(S, T, o, k) ==
  LET e == Head(S.avail[o][k])
  IN /\ Shared(T, k)
     /\ e \in ToSet(S.avail[o][k]) /\ e \in Members[k]
     /\ ToSet(T.avail[o][k]) = ToSet(S.avail[o][k]) \ {e}
     /\ ToSet(T.used[o][k]) = ToSet(S.used[o][k]) \cup {e}
     /\ Len(T.avail[o][k]) = Len(S.avail[o][k]) - 1

(* Putting an entry to use leaves the kind shared.                         *)
LEMMA UseShares ==
  ASSUME NEW S, NEW T, NEW o \in Owners, NEW k \in Kinds,
         Shared(S, k), S.avail[o][k] # << >>, UsedBy(S, T, o, k)
  PROVE  UseEffect(S, T, o, k)
<1> DEFINE e == Head(S.avail[o][k])
           a == S.avail[o][k]
           u == S.used[o][k]
<1>1. /\ Listing(a, ToSet(a)) /\ Listing(u, ToSet(u)) /\ ToSet(a) \cap ToSet(u) = {}
      /\ a # << >> /\ \A r \in ToSet(a) : r \in Members[k]
  BY DEF Shared, Distinct
<1>2. /\ T.avail[o][k] = Tail(a) /\ T.used[o][k] = <<e>> \o u
      /\ \A p \in Owners \ {o} : T.avail[p][k] = S.avail[p][k] /\ T.used[p][k] = S.used[p][k]
      /\ S.avail[o][k] = a /\ S.used[o][k] = u /\ e = Head(a)
  BY DEF UsedBy
<1> HIDE DEF a, u, e
<1>3. /\ e \in ToSet(a) /\ Listing(Tail(a), ToSet(a) \ {e}) /\ Len(Tail(a)) = Len(a) - 1
  BY <1>1, <1>2, ListingHead
<1>4. Listing(<<e>> \o u, {e} \cup ToSet(u))
  <2>1. Listing(<<e>>, {e}) /\ {e} \cap ToSet(u) = {}
    BY <1>1, <1>3, ListingOne
  <2>2. PICK s : s = <<e>>
    OBVIOUS
  <2> QED
    BY <1>1, <2>1, <2>2, ListingConcat
<1>5. PICK b, c : b = Tail(a) /\ c = <<e>> \o u
  OBVIOUS
<1>6. /\ ToSet(b) = ToSet(a) \ {e} /\ ToSet(c) = {e} \cup ToSet(u)
      /\ Distinct(b) /\ Distinct(c) /\ Len(b) = Len(a) - 1
      /\ T.avail[o][k] = b /\ T.used[o][k] = c
  BY <1>2, <1>3, <1>4, <1>5 DEF Listing, Distinct
<1>7. Exchanged(S, T, k, o, o)
  <2>1. \A r : r \in ToSet(b) \/ r \in ToSet(c) <=> r \in ToSet(a) \/ r \in ToSet(u)
    BY <1>3, <1>6
  <2>2. ToSet(b) \cap ToSet(c) = {}
    BY <1>1, <1>6
  <2> QED
    BY <1>2, <1>6, <2>1, <2>2 DEF Exchanged
<1>8. Shared(T, k)
  BY <1>7, StillShared
<1> QED
  BY <1>1, <1>2, <1>3, <1>6, <1>8 DEF UseEffect

(* A domain puts something to use.                                         *)
UsedIn(S, T, d, k) ==
  /\ UsedBy(S, T, d, k)
  /\ \A o \in Owners \ {d} : T.avail[o] = S.avail[o] /\ T.used[o] = S.used[o]
  /\ \A x \in Kinds \ {k} : T.avail[d][x] = S.avail[d][x] /\ T.used[d][x] = S.used[d][x]
  /\ T.num = S.num /\ T.hist = S.hist /\ T.virt_id = S.virt_id /\ T.locked = S.locked
  /\ \A e \in Domains : /\ T.domain[e].parent = S.domain[e].parent
                        /\ T.domain[e].configured = S.domain[e].configured
                        /\ T.domain[e].hist.base = S.domain[e].hist.base
                        /\ T.domain[e].hist.total = S.domain[e].hist.total
                        /\ e # d => T.domain[e].hist = S.domain[e].hist

(* A domain that puts an entry of its own to use leaves the books in       *)
(* order.                                                                  *)
LEMMA UsedInGood ==
  ASSUME NEW S, Good(S), NEW d \in Domains, S.domain[d].configured,
         NEW k \in Kinds, k # "sched_domain", S.avail[d][k] # << >>,
         NEW T \in HwType, UsedIn(S, T, d, k), HistGood(T)
  PROVE  Good(T) /\ \A f \in Functions : Keeps(S, T, f)
<1>1. /\ S \in HwType /\ ListsGood(S) /\ DomainsGood(S) /\ HistGood(S)
  BY DEF Good
<1>2. d \in Owners /\ d \notin Functions /\ \A f \in Functions : f # d /\ f \in Owners
  BY Constants
<1>3. Shared(S, k)
  BY <1>1 DEF ListsGood
<1>4. UseEffect(S, T, d, k)
  BY <1>2, <1>3, UseShares DEF UsedIn
<1>5. ListsGood(T)
  <2>1. ASSUME NEW x \in Kinds PROVE Shared(T, x)
    <3>1. CASE x = k
      BY <3>1, <1>4 DEF UseEffect
    <3>2. CASE x # k
      <4>1. Shared(S, x)
        BY <1>1 DEF ListsGood
      <4>2. \A o \in Owners : T.avail[o][x] = S.avail[o][x] /\ T.used[o][x] = S.used[o][x]
        BY <3>2 DEF UsedIn
      <4> QED
        BY <4>1, <4>2, SameShared
    <3> QED
      BY <3>1, <3>2
  <2>2. \A f \in Functions, x \in Kinds : T.num[f][x] = Len(T.avail[f][x])
    BY <1>1, <1>2 DEF ListsGood, UsedIn
  <2> QED
    BY <2>1, <2>2 DEF ListsGood
<1>6. /\ \A f \in Functions : /\ T.avail[f] = S.avail[f] /\ T.used[f] = S.used[f]
                              /\ UsedDomains(T, f) = UsedDomains(S, f)
                              /\ ToSet(UsedDomains(S, f)) \subseteq Domains
                              /\ ToSet(S.avail[f]["sched_domain"]) \subseteq Domains
      /\ \A e \in Domains : e # d => T.avail[e] = S.avail[e] /\ T.used[e] = S.used[e]
  <2>1. Shared(S, "sched_domain")
    BY <1>1, Constants DEF ListsGood
  <2>2. \A e \in Domains : e \in Owners
    BY Constants
  <2> QED
    BY <1>2, <2>1, <2>2, DomainPlace DEF UsedIn, UsedDomains
<1>7. DomainsGood(T)
  <2>1. \A e \in Domains : Idle(S, e) => Idle(T, e)
    <3> SUFFICES ASSUME NEW e \in Domains, Idle(S, e) PROVE Idle(T, e)
      OBVIOUS
    <3>1. e # d
      BY DEF Idle
    <3> QED
      BY <3>1, <1>6 DEF Idle, UsedIn
  <2>2. \A e \in Domains : T.avail[e]["sched_domain"] = << >> /\ T.used[e]["sched_domain"] = << >>
    BY <1>1, <1>6, Constants DEF DomainsGood, UsedIn
  <2>3. ASSUME NEW f \in Functions
        PROVE  /\ \A e \in ToSet(T.avail[f]["sched_domain"]) :
                    T.domain[e].parent = f /\ Idle(T, e)
               /\ \A e \in ToSet(UsedDomains(T, f)) :
                    T.domain[e].parent = f /\ T.domain[e].configured
               /\ \A x \in Kinds \ {"sched_domain"} : T.used[f][x] = << >>
    <3>1. \A e \in Domains : /\ T.domain[e].parent = S.domain[e].parent
                             /\ T.domain[e].configured = S.domain[e].configured
      BY DEF UsedIn
    <3> QED
      BY <3>1, <2>1, <1>1, <1>6 DEF DomainsGood
  <2> QED
    BY <2>2, <2>3 DEF DomainsGood
<1>8. ASSUME NEW f \in Functions PROVE Keeps(S, T, f)
  <2>1. ASSUME NEW x \in Kinds PROVE Holds(T, f, x) = Holds(S, f, x)
    <3>1. \A e \in Domains : ToSet(T.avail[e][x]) \cup ToSet(T.used[e][x])
                               = ToSet(S.avail[e][x]) \cup ToSet(S.used[e][x])
      <4> SUFFICES ASSUME NEW e \in Domains
                   PROVE  ToSet(T.avail[e][x]) \cup ToSet(T.used[e][x])
                            = ToSet(S.avail[e][x]) \cup ToSet(S.used[e][x])
        OBVIOUS
      <4>1. CASE e # d
        BY <4>1, <1>6
      <4>2. CASE x # k
        BY <4>1, <4>2, <1>6 DEF UsedIn
      <4>3. CASE e = d /\ x = k
        BY <4>3, <1>4 DEF UseEffect
      <4> QED
        BY <4>1, <4>2, <4>3
    <3>2. UNION {ToSet(T.avail[e][x]) \cup ToSet(T.used[e][x]) : e \in ToSet(UsedDomains(S, f))}
            = UNION {ToSet(S.avail[e][x]) \cup ToSet(S.used[e][x]) :
                      e \in ToSet(UsedDomains(S, f))}
      BY <3>1, <1>6
    <3> QED
      BY <3>2, <1>6 DEF Holds
  <2>2. HoldsHist(T, f) = HoldsHist(S, f)
    <3>1. \A e \in Domains : DomainHist(T, e) = DomainHist(S, e)
      BY DEF UsedIn, DomainHist
    <3>2. UNION {DomainHist(T, e) : e \in ToSet(UsedDomains(S, f))}
            = UNION {DomainHist(S, e) : e \in ToSet(UsedDomains(S, f))}
      BY <3>1, <1>6
    <3> QED
      BY <3>2, <1>6 DEF HoldsHist, UsedIn
  <2> QED
    BY <2>1, <2>2 DEF Keeps, SameHolds, UsedIn
<1> QED
  BY <1>5, <1>7, <1>8 DEF Good

(* The record after the first entry of a list was put to use.              *)
UseIs(S, U, o, k) ==
  /\ HwRecord(U) /\ UsedBy(S, U, o, k)
  /\ U.avail \in [Owners -> [Kinds -> Seq(Things)]]
  /\ U.used \in [Owners -> [Kinds -> Seq(Things)]]
  /\ \A p \in Owners \ {o} : U.avail[p] = S.avail[p] /\ U.used[p] = S.used[p]
  /\ \A x \in Kinds \ {k} : U.avail[o][x] = S.avail[o][x] /\ U.used[o][x] = S.used[o][x]
  /\ U.num = S.num /\ U.hist = S.hist /\ U.count = S.count /\ U.locked = S.locked
  /\ U.virt_id = S.virt_id /\ U.group = S.group /\ U.domain = S.domain /\ U.sn = S.sn
  /\ U.port_hist = S.port_hist

(* What use does to each field.                                            *)
LEMMA UseFields ==
  ASSUME NEW S, HwRecord(S), S.avail \in [Owners -> [Kinds -> Seq(Things)]],
         S.used \in [Owners -> [Kinds -> Seq(Things)]],
         NEW o \in Owners, NEW k \in Kinds, S.avail[o][k] # << >>,
         NEW U, U = use(S, o, k)
  PROVE  UseIs(S, U, o, k)
<1> DEFINE list == S.avail[o][k]
           olds == S.used[o][k]
<1>0. list \in Seq(Things) /\ list # << >> /\ olds \in Seq(Things)
  OBVIOUS
<1> HIDE DEF list, olds
<1>1. PICK a \in Seq(Things) : a = Tail(list)
  <2>1. Tail(list) \in Seq(Things)
    BY <1>0
  <2> QED
    BY <2>1, Zenon
<1>2. PICK u \in Seq(Things) : u = <<Head(list)>> \o olds
  <2>1. Head(list) \in Things
    BY <1>0
  <2>2. <<Head(list)>> \o olds \in Seq(Things)
    BY <1>0, <2>1
  <2> QED
    BY <2>2, Zenon
<1> USE DEF list, olds
<1>3. U = [S EXCEPT !.avail[o][k] = a, !.used[o][k] = u]
  BY <1>1, <1>2 DEF use
<1>4. /\ HwRecord(U) /\ U.avail = [S.avail EXCEPT ![o][k] = a]
      /\ U.used = [S.used EXCEPT ![o][k] = u]
      /\ U.num = S.num /\ U.hist = S.hist /\ U.count = S.count /\ U.locked = S.locked
      /\ U.virt_id = S.virt_id /\ U.group = S.group /\ U.domain = S.domain /\ U.sn = S.sn
      /\ U.port_hist = S.port_hist
  BY <1>3 DEF HwRecord
<1>5. /\ U.avail \in [Owners -> [Kinds -> Seq(Things)]]
      /\ U.avail[o][k] = a
      /\ \A p \in Owners \ {o} : U.avail[p] = S.avail[p]
      /\ \A x \in Kinds \ {k} : U.avail[o][x] = S.avail[o][x]
  BY <1>4
<1>6. /\ U.used \in [Owners -> [Kinds -> Seq(Things)]]
      /\ U.used[o][k] = u
      /\ \A p \in Owners \ {o} : U.used[p] = S.used[p]
      /\ \A x \in Kinds \ {k} : U.used[o][x] = S.used[o][x]
  BY <1>4
<1>7. UsedBy(S, U, o, k)
  BY <1>1, <1>2, <1>5, <1>6 DEF UsedBy
<1> QED
  BY <1>4, <1>5, <1>6, <1>7 DEF UseIs

(* History lists stay in order if no port comes into use.                  *)
LEMMA HistKept ==
  ASSUME NEW S, NEW T, HistGood(S), SameHist(S, T),
         \A d \in Domains : PortsInUse(T, d) \subseteq PortsInUse(S, d)
  PROVE  HistGood(T)
<1>1. \A o \in Owners : HistOf(T, o) = HistOf(S, o)
  BY DEF SameHist, HistOf, DomainHist, Owners
<1>2. \A d \in Domains : /\ HandedOut(T, d) = HandedOut(S, d)
                         /\ T.domain[d].hist = S.domain[d].hist
  BY DEF SameHist, HandedOut
<1>3. T.port_hist = S.port_hist
  BY DEF SameHist
<1> QED
  BY <1>1, <1>2, <1>3 DEF HistGood

SameUsed(S, T, d, k) ==
  /\ \A o \in Owners \ {d} : T.used[o] = S.used[o]
  /\ \A x \in Kinds \ {k} : T.used[d][x] = S.used[d][x]

(* Using a queue or a pair changes no one's ports.                         *)
LEMMA SamePorts ==
  ASSUME NEW S, NEW T, NEW d \in Domains, NEW k \in Kinds \ Cos, SameUsed(S, T, d, k)
  PROVE  \A e \in Domains : PortsInUse(T, e) = PortsInUse(S, e)
<1> SUFFICES ASSUME NEW e \in Domains
             PROVE  \A c \in Cos : T.used[e][c] = S.used[e][c]
  BY DEF PortsInUse
<1> QED
  BY Constants DEF SameUsed

(* dlb2_hw_create_dir_queue and _dir_port for a fresh pair.                *)
LEMMA PairGood ==
  ASSUME NEW S, Good(S), NEW d \in Domains, S.domain[d].configured,
         S.avail[d]["dir_port"] # << >>, NEW T, T = use(S, d, "dir_port")
  PROVE  /\ Good(T) /\ T.locked = S.locked /\ UseIs(S, T, d, "dir_port")
         /\ \A f \in Functions : Keeps(S, T, f)
<1>1. S \in HwType /\ HwRecord(S) /\ HistGood(S)
  BY Typed DEF Good
<1>2. PICK k : k = "dir_port"
  OBVIOUS
<1>3. k \in Kinds /\ d \in Owners /\ k # "sched_domain" /\ k \in Kinds \ Cos
  BY <1>2, Constants
<1>4. UseIs(S, T, d, k)
  BY <1>1, <1>2, <1>3, UseFields, Typed
<1>5. UsedIn(S, T, d, k)
  BY <1>4 DEF UsedIn, UseIs
<1>6. HistGood(T)
  <2>1. SameUsed(S, T, d, k)
    BY <1>4 DEF UseIs, SameUsed
  <2>2. \A e \in Domains : PortsInUse(T, e) = PortsInUse(S, e)
    BY <1>3, <2>1, SamePorts
  <2> QED
    BY <1>1, <1>4, <2>2, HistKept DEF UseIs, SameHist
<1>7. T \in HwType
  BY <1>1, <1>4, Typed DEF UseIs
<1> QED
  BY <1>2, <1>3, <1>4, <1>5, <1>6, <1>7, UsedInGood DEF UseIs

-----------------------------------------------------------------------------
(* A queue                                                                 *)

DomainType ==
  [parent : Functions, configured : BOOLEAN,
   hist : [base : Nat, total : Nat, offset : Nat],
   count : [Counted -> Nat], used_count : [Counted -> Nat]]

(* A group that can give a slot gives one that is not in use.              *)
LEMMA FreeSlot ==
  ASSUME NEW S \in HwType, NEW d, NEW n \in Nat, NEW g \in Groups(S, d, n),
         NEW slot, slot = Min(SnSlots(S.group[g]) \ S.group[g].used)
  PROVE  slot \in Nat /\ slot \in SnSlots(S.group[g]) /\ slot \notin S.group[g].used
<1>1. g \in SnGroups /\ S.group[g].used # SnSlots(S.group[g])
  BY DEF Groups
<1>2. S.group \in [SnGroups -> GroupType]
  BY Typed
<1>3. S.group[g].used \subseteq SnSlots(S.group[g])
  BY <1>1, <1>2 DEF GroupType
<1>4. SnSlots(S.group[g]) \subseteq Nat
  <2>1. S.group[g].per_queue \in Nat \ {0} /\ SnTotal \in Nat
    BY <1>1, <1>2, SnAssumption DEF GroupType
  <2>2. SnTotal \div S.group[g].per_queue \in Int
    BY <2>1
  <2> QED
    BY <2>2 DEF SnSlots
<1>5. PICK I : I = SnSlots(S.group[g]) \ S.group[g].used
  OBVIOUS
<1>6. I \in SUBSET Nat /\ I # {}
  BY <1>1, <1>3, <1>4, <1>5
<1>7. slot \in I
  BY <1>5, <1>6, LeastNumber
<1> QED
  BY <1>4, <1>5, <1>7

(* What the step does to the counts and the slots.                         *)
QueueIs(S, T, d, a, g) ==
  LET q == Head(S.avail[d]["ldb_queue"])
      slot == Min(SnSlots(S.group[g]) \ S.group[g].used)
  IN /\ \A k \in Counted :
          /\ T.domain[d].count[k] = S.domain[d].count[k] - Needs(a, g)[k]
          /\ T.domain[d].used_count[k] = S.domain[d].used_count[k] + Needs(a, g)[k]
     /\ \A e \in Domains \ {d} : T.domain[e] = S.domain[e]
     /\ T.count = S.count
     /\ T.sn = [S.sn EXCEPT ![q] = IF a.sequence_numbers = 0 THEN NoSlot
                                    ELSE [group |-> g, slot |-> slot]]
     /\ T.group = IF a.sequence_numbers = 0 THEN S.group
                  ELSE [S.group EXCEPT ![g].used = @ \cup {slot}]

(* dlb2_hw_create_ldb_queue.                                               *)
LEMMA QueueGood ==
  ASSUME NEW S, Good(S), NEW d \in Domains, NEW a \in QueueArgs, NEW g \in SnGroups,
         CanCreateQueue(S, d, a),
         a.sequence_numbers > 0 => g \in Groups(S, d, a.sequence_numbers),
         NEW T, T = create_ldb_queue(S, d, a, g)
  PROVE  /\ Good(T) /\ T.locked = S.locked /\ UsedIn(S, T, d, "ldb_queue")
         /\ QueueIs(S, T, d, a, g)
         /\ \A f \in Functions : Keeps(S, T, f)
<1>1. S \in HwType /\ HwRecord(S) /\ HistGood(S) /\ S.domain[d].configured
  BY Typed DEF Good, CanCreateQueue
<1>2. PICK k : k = "ldb_queue"
  OBVIOUS
<1>3. k \in Kinds /\ d \in Owners /\ k # "sched_domain" /\ k \in Kinds \ Cos
  BY <1>2, Constants
<1>4. S.avail[d][k] # << >>
  BY <1>2 DEF CanCreateQueue
<1>5. PICK U : U = use(S, d, k)
  OBVIOUS
<1>6. UseIs(S, U, d, k)
  BY <1>1, <1>3, <1>4, <1>5, UseFields, Typed
<1>7. PICK q : q = Head(S.avail[d]["ldb_queue"])
  OBVIOUS
<1>8. PICK slot : slot = Min(SnSlots(S.group[g]) \ S.group[g].used)
  OBVIOUS
<1>9. PICK old \in DomainType : old = S.domain[d]
  <2>1. S.domain \in [Domains -> DomainType]
    BY <1>1, Typed DEF DomainType
  <2> QED
    BY <2>1
<1>10. q \in Members["ldb_queue"]
  <2>1. Shared(S, k)
    BY <1>1, <1>3 DEF Good, ListsGood
  <2> QED
    BY <1>2, <1>3, <1>4, <1>6, <1>7, <2>1, UseShares DEF UseEffect, UseIs
<1>11. PICK needs \in [Counted -> Nat] :
         needs = Needs(a, g) /\ \A x \in Counted : needs[x] <= old.count[x]
  <2>1. a.sequence_numbers \in Nat /\ a.count \in [Counts -> Nat]
    BY ArgsAssumption
  <2>2. Needs(a, g) \in [Counted -> Nat]
    BY <2>1 DEF Needs, Counted
  <2>3. ASSUME NEW x \in Counted PROVE Needs(a, g)[x] <= old.count[x]
    <3>1. old.count[x] \in Nat
      BY <1>9 DEF DomainType
    <3>2. CASE x \in Counts
      BY <3>2, <1>9 DEF Needs, CanCreateQueue
    <3>3. CASE x \notin Counts /\ ~(x = g /\ a.sequence_numbers > 0)
      BY <3>1, <3>3 DEF Needs
    <3>4. CASE x \notin Counts /\ x = g /\ a.sequence_numbers > 0
      <4>1. old.count[x] > 0
        BY <3>4, <1>9 DEF Groups
      <4> QED
        BY <3>1, <3>4, <4>1 DEF Needs
    <3> QED
      BY <3>2, <3>3, <3>4
  <2> QED
    BY <2>2, <2>3
<1>12. PICK c \in [Counted -> Nat] : c = [x \in Counted |-> old.count[x] - needs[x]]
  <2>1. \A x \in Counted : old.count[x] - needs[x] \in Nat
    BY <1>9, <1>11 DEF DomainType
  <2> QED
    BY <2>1
<1>13. PICK u \in [Counted -> Nat] : u = [x \in Counted |-> old.used_count[x] + needs[x]]
  <2>1. \A x \in Counted : old.used_count[x] + needs[x] \in Nat
    BY <1>9, <1>11 DEF DomainType
  <2> QED
    BY <2>1
<1>14. PICK new : new = [old EXCEPT !.count = c, !.used_count = u]
  OBVIOUS
<1>15. new \in DomainType /\ new.parent = old.parent /\ new.configured = old.configured
       /\ new.hist = old.hist /\ new.count = c /\ new.used_count = u
  BY <1>9, <1>12, <1>13, <1>14 DEF DomainType
<1>16. PICK V : V = [U EXCEPT !.domain[d] = new]
  OBVIOUS
<1>17. T = IF a.sequence_numbers = 0 THEN [V EXCEPT !.sn[q] = NoSlot]
           ELSE [V EXCEPT !.sn[q] = [group |-> g, slot |-> slot],
                          !.group[g].used = @ \cup {slot}]
  BY <1>2, <1>5, <1>7, <1>8, <1>9, <1>11, <1>12, <1>13, <1>14, <1>16 DEF create_ldb_queue
<1>18. V.domain = [S.domain EXCEPT ![d] = new]
       /\ V.sn = S.sn /\ V.group = S.group /\ HwRecord(V)
       /\ V.avail = U.avail /\ V.used = U.used /\ V.num = U.num /\ V.hist = U.hist
       /\ V.count = U.count /\ V.locked = U.locked /\ V.virt_id = U.virt_id
       /\ V.port_hist = U.port_hist
  BY <1>6, <1>16 DEF HwRecord, UseIs
<1>19. /\ HwRecord(T) /\ T.domain = V.domain
       /\ T.avail = U.avail /\ T.used = U.used /\ T.num = U.num /\ T.hist = U.hist
       /\ T.count = U.count /\ T.locked = U.locked /\ T.virt_id = U.virt_id
       /\ T.port_hist = U.port_hist
       /\ T.sn = [S.sn EXCEPT ![q] = IF a.sequence_numbers = 0 THEN NoSlot
                                     ELSE [group |-> g, slot |-> slot]]
       /\ T.group = IF a.sequence_numbers = 0 THEN S.group
                    ELSE [S.group EXCEPT ![g].used = @ \cup {slot}]
  <2>1. CASE a.sequence_numbers = 0
    BY <1>17, <1>18, <2>1 DEF HwRecord
  <2>2. CASE a.sequence_numbers # 0
    <3>1. PICK slots : slots = [S.sn EXCEPT ![q] = [group |-> g, slot |-> slot]]
      OBVIOUS
    <3>2. PICK groups : groups = [S.group EXCEPT ![g].used = @ \cup {slot}]
      OBVIOUS
    <3>3. T = [V EXCEPT !.sn = slots, !.group = groups]
      BY <1>17, <1>18, <2>2, <3>1, <3>2
    <3>4. /\ HwRecord(T) /\ T.domain = V.domain
          /\ T.avail = U.avail /\ T.used = U.used /\ T.num = U.num /\ T.hist = U.hist
          /\ T.count = U.count /\ T.locked = U.locked /\ T.virt_id = U.virt_id
          /\ T.port_hist = U.port_hist /\ T.sn = slots /\ T.group = groups
      BY <3>3, <1>18 DEF HwRecord
    <3> QED
      BY <2>2, <3>1, <3>2, <3>4
  <2> QED
    BY <2>1, <2>2
<1>20. S.domain \in [Domains -> DomainType] /\ S.group \in [SnGroups -> GroupType]
       /\ S.sn \in [Members["ldb_queue"] -> [group : SnGroups \cup {"none"}, slot : Nat]]
  BY <1>1, Typed DEF DomainType
<1>21. /\ T.domain \in [Domains -> DomainType] /\ T.domain[d] = new
       /\ \A e \in Domains \ {d} : T.domain[e] = S.domain[e]
  BY <1>15, <1>18, <1>19, <1>20
<1>22. a.sequence_numbers \in Nat
  BY ArgsAssumption
<1>23. a.sequence_numbers # 0 => slot \in Nat /\ slot \in SnSlots(S.group[g])
  BY <1>1, <1>8, <1>22, FreeSlot
<1>24. T.sn \in [Members["ldb_queue"] -> [group : SnGroups \cup {"none"}, slot : Nat]]
  BY <1>10, <1>19, <1>20, <1>23 DEF NoSlot
<1>25. T.group \in [SnGroups -> GroupType]
  <2>1. CASE a.sequence_numbers = 0
    BY <2>1, <1>19, <1>20
  <2>2. CASE a.sequence_numbers # 0
    <3>1. PICK G \in GroupType : G = S.group[g]
      BY <1>20
    <3>2. PICK H : H = [G EXCEPT !.used = @ \cup {slot}]
      OBVIOUS
    <3>3. H \in GroupType
      BY <3>1, <3>2, <2>2, <1>23 DEF GroupType, SnSlots
    <3>4. T.group = [S.group EXCEPT ![g] = H]
      BY <3>1, <3>2, <2>2, <1>19
    <3> QED
      BY <3>3, <3>4, <1>20
  <2> QED
    BY <2>1, <2>2
<1>30. /\ T.num = S.num /\ T.hist = S.hist /\ T.count = S.count /\ T.locked = S.locked
       /\ T.virt_id = S.virt_id /\ T.port_hist = S.port_hist
       /\ T.avail \in [Owners -> [Kinds -> Seq(Things)]]
       /\ T.used \in [Owners -> [Kinds -> Seq(Things)]]
  BY <1>6, <1>19 DEF UseIs
<1>26. T \in HwType
  <2>1. /\ S.num \in [Functions -> [Kinds -> Nat]]
        /\ S.hist \in [Functions -> SUBSET HistEntries]
        /\ S.count \in [Functions -> [Counted -> Nat]]
        /\ S.locked \in [Vdevs -> BOOLEAN]
        /\ S.virt_id \in [Things -> Int]
        /\ S.port_hist \in [UNION {Members[x] : x \in Cos} -> SUBSET HistEntries]
    BY <1>1, Typed
  <2>2. HwRecord(T) /\ T.domain \in [Domains ->
     [parent : Functions, configured : BOOLEAN,
      hist : [base : Nat, total : Nat, offset : Nat],
      count : [Counted -> Nat], used_count : [Counted -> Nat]]]
    BY <1>19, <1>21 DEF DomainType
  <2> QED
    BY <2>1, <2>2, <1>24, <1>25, <1>30, Typed
<1>27. UsedIn(S, T, d, k) /\ SameHist(S, T)
  <2>1. \A e \in Domains : /\ T.domain[e].parent = S.domain[e].parent
                           /\ T.domain[e].configured = S.domain[e].configured
                           /\ T.domain[e].hist = S.domain[e].hist
    BY <1>9, <1>15, <1>21
  <2>2. UsedBy(S, T, d, k)
    BY <1>6, <1>19 DEF UseIs, UsedBy
  <2>3. /\ \A o \in Owners \ {d} : T.avail[o] = S.avail[o] /\ T.used[o] = S.used[o]
        /\ \A x \in Kinds \ {k} : T.avail[d][x] = S.avail[d][x] /\ T.used[d][x] = S.used[d][x]
    BY <1>6, <1>19 DEF UseIs
  <2> QED
    BY <2>1, <2>2, <2>3, <1>30 DEF UsedIn, SameHist
<1>28. HistGood(T)
  <2>1. SameUsed(S, T, d, k)
    BY <1>27 DEF UsedIn, SameUsed
  <2>2. \A e \in Domains : PortsInUse(T, e) = PortsInUse(S, e)
    BY <1>3, <2>1, SamePorts
  <2> QED
    BY <1>1, <1>27, <2>2, HistKept
<1>29. QueueIs(S, T, d, a, g)
  <2>1. \A x \in Counted : /\ T.domain[d].count[x] = S.domain[d].count[x] - Needs(a, g)[x]
                           /\ T.domain[d].used_count[x]
                                = S.domain[d].used_count[x] + Needs(a, g)[x]
    BY <1>9, <1>11, <1>12, <1>13, <1>15, <1>21
  <2> QED
    BY <2>1, <1>6, <1>7, <1>8, <1>19, <1>21 DEF QueueIs, UseIs
<1> QED
  BY <1>1, <1>2, <1>3, <1>4, <1>6, <1>19, <1>26, <1>27, <1>28, <1>29, UsedInGood DEF UseIs

(* A port that no domain uses is in no domain's set of ports.              *)
LEMMA PortsApart ==
  ASSUME NEW S, ListsGood(S), NEW d \in Domains, NEW c \in Cos,
         NEW p \in ToSet(S.avail[d][c]), NEW e \in Domains
  PROVE  p \notin PortsInUse(S, e) /\ p \in Members[c]
<1>1. d \in Owners /\ e \in Owners /\ c \in Kinds
  BY Constants
<1>2. p \in Members[c]
  BY <1>1 DEF ListsGood, Shared
<1>3. ASSUME NEW b \in Cos, p \in ToSet(S.used[e][b]) PROVE FALSE
  <2>1. b \in Kinds /\ Shared(S, b) /\ Shared(S, c)
    BY <1>1, Constants DEF ListsGood
  <2>2. p \in Members[b]
    BY <1>1, <1>3, <2>1 DEF Shared
  <2>3. b = c
    BY <1>1, <1>2, <2>1, <2>2, Constants
  <2> QED
    BY <1>1, <1>3, <2>1, <2>3 DEF Shared
<1> QED
  BY <1>2, <1>3 DEF PortsInUse

PartIs(b, t, o, n, given) ==
  /\ given \subseteq b .. b + (o + n) - 1
  /\ given \subseteq b .. b + t - 1
  /\ given \cap (b .. b + o - 1) = {}
  /\ b .. b + o - 1 \subseteq b .. b + (o + n) - 1
  /\ o + n <= t

(* The next part of a domain's range is in the range and used by no port.  *)
LEMMA NextPart ==
  ASSUME NEW b \in Nat, NEW t \in Nat, NEW o \in Nat, NEW n \in Nat, n <= t - o,
         NEW base, base = b + o
  PROVE  PartIs(b, t, o, n, base .. base + n - 1)
BY DEF PartIs

(* dlb2_hw_create_ldb_port.                                                *)
LEMMA PortGood ==
  ASSUME NEW S, Good(S), NEW d \in Domains, NEW a \in PortArgs, CanCreatePort(S, d, a),
         NEW T, T = create_ldb_port(S, d, a)
  PROVE  /\ Good(T) /\ T.locked = S.locked
         /\ \E c \in Cos : UsedIn(S, T, d, c)
         /\ T.count = S.count /\ T.group = S.group /\ T.sn = S.sn
         /\ \A e \in Domains : /\ T.domain[e].count = S.domain[e].count
                               /\ T.domain[e].used_count = S.domain[e].used_count
         /\ \A f \in Functions : Keeps(S, T, f)
<1>1. S \in HwType /\ HwRecord(S) /\ ListsGood(S) /\ HistGood(S) /\ S.domain[d].configured
  BY Typed DEF Good, CanCreatePort
<1>2. a.classes \in Seq(Cos) /\ a.hist \in Nat
  BY ArgsAssumption
<1>3. PICK i \in DOMAIN a.classes : i = Min(Classes(S, d, a)) /\ i \in Classes(S, d, a)
  <2>1. Classes(S, d, a) # {} /\ Classes(S, d, a) \subseteq DOMAIN a.classes
    BY DEF CanCreatePort, Classes
  <2>2. DOMAIN a.classes \subseteq Nat
    BY <1>2
  <2>3. Classes(S, d, a) \in SUBSET Nat
    BY <2>1, <2>2
  <2> QED
    BY <2>1, <2>3, LeastNumber
<1>4. PICK c \in Cos : c = a.classes[i] /\ S.avail[d][c] # << >>
  <2>1. a.classes[i] \in Cos
    BY <1>2
  <2> QED
    BY <1>3, <2>1 DEF Classes
<1>5. c \in Kinds /\ d \in Owners /\ c # "sched_domain"
  BY Constants
<1>6. PICK p : p = Head(S.avail[d][c])
  OBVIOUS
<1>7. PICK old \in DomainType : old = S.domain[d]
  <2>1. S.domain \in [Domains -> DomainType]
    BY <1>1, Typed DEF DomainType
  <2> QED
    BY <2>1
<1>8. PICK h \in [base : Nat, total : Nat, offset : Nat] : h = old.hist
  BY DEF DomainType
<1>9. /\ a.hist <= h.total - h.offset /\ h.offset <= h.total
      /\ h.base \in Nat /\ h.total \in Nat /\ h.offset \in Nat
  BY <1>1, <1>7, <1>8 DEF CanCreatePort, HistGood
<1>10. PICK base \in Nat : base = h.base + h.offset
  BY <1>9
<1>11. PICK given : given = base .. base + a.hist - 1
  OBVIOUS
<1>12. PICK U : U = use(S, d, c)
  OBVIOUS
<1>13. UseIs(S, U, d, c)
  BY <1>1, <1>4, <1>5, <1>12, UseFields, Typed
<1>14. T = [U EXCEPT !.domain[d].hist.offset = @ + a.hist, !.port_hist[p] = given]
  BY <1>3, <1>4, <1>6, <1>7, <1>8, <1>10, <1>11, <1>12 DEF create_ldb_port
<1>15. PICK new : new = [old EXCEPT !.hist = [h EXCEPT !.offset = h.offset + a.hist]]
  OBVIOUS
<1>16. /\ new \in DomainType /\ new.parent = old.parent /\ new.configured = old.configured
       /\ new.count = old.count /\ new.used_count = old.used_count
       /\ new.hist.base = h.base /\ new.hist.total = h.total
       /\ new.hist.offset = h.offset + a.hist
  <2>1. [h EXCEPT !.offset = h.offset + a.hist] \in [base : Nat, total : Nat, offset : Nat]
    BY <1>2, <1>9
  <2> QED
    BY <1>15, <2>1 DEF DomainType
<1>17. PICK doms : doms = [S.domain EXCEPT ![d] = new]
  OBVIOUS
<1>18. PICK hists : hists = [S.port_hist EXCEPT ![p] = given]
  OBVIOUS
<1>19. S.domain \in [Domains -> DomainType]
  BY <1>1, Typed DEF DomainType
<1>20. T = [U EXCEPT !.domain = doms, !.port_hist = hists]
  <2>1. [S.domain EXCEPT ![d].hist.offset = @ + a.hist] = doms
    BY <1>7, <1>8, <1>15, <1>17, <1>19
  <2> QED
    BY <1>13, <1>14, <1>18, <2>1 DEF UseIs
<1>21. /\ HwRecord(T) /\ T.domain = doms /\ T.port_hist = hists
       /\ T.avail = U.avail /\ T.used = U.used /\ T.num = U.num /\ T.hist = U.hist
       /\ T.count = U.count /\ T.locked = U.locked /\ T.virt_id = U.virt_id
       /\ T.group = U.group /\ T.sn = U.sn
  BY <1>13, <1>20 DEF HwRecord, UseIs
<1>22. /\ T.num = S.num /\ T.hist = S.hist /\ T.count = S.count /\ T.locked = S.locked
       /\ T.virt_id = S.virt_id /\ T.group = S.group /\ T.sn = S.sn
       /\ T.avail \in [Owners -> [Kinds -> Seq(Things)]]
       /\ T.used \in [Owners -> [Kinds -> Seq(Things)]]
  BY <1>13, <1>21 DEF UseIs
<1>23. /\ T.domain \in [Domains -> DomainType] /\ T.domain[d] = new
       /\ \A e \in Domains \ {d} : T.domain[e] = S.domain[e]
  BY <1>16, <1>17, <1>19, <1>21
<1>24. UsedBy(S, T, d, c)
  BY <1>13, <1>21 DEF UseIs, UsedBy
<1>25. UsedIn(S, T, d, c)
  <2>1. \A e \in Domains : /\ T.domain[e].parent = S.domain[e].parent
                           /\ T.domain[e].configured = S.domain[e].configured
                           /\ T.domain[e].hist.base = S.domain[e].hist.base
                           /\ T.domain[e].hist.total = S.domain[e].hist.total
    BY <1>7, <1>8, <1>16, <1>23
  <2>2. /\ \A o \in Owners \ {d} : T.avail[o] = S.avail[o] /\ T.used[o] = S.used[o]
        /\ \A x \in Kinds \ {c} : T.avail[d][x] = S.avail[d][x] /\ T.used[d][x] = S.used[d][x]
    BY <1>13, <1>21 DEF UseIs
  <2> QED
    BY <2>1, <2>2, <1>22, <1>23, <1>24 DEF UsedIn
<1>26. UseEffect(S, T, d, c)
  <2>1. Shared(S, c)
    BY <1>1, <1>5 DEF ListsGood
  <2> QED
    BY <1>4, <1>5, <1>24, <2>1, UseShares
<1>27. /\ p \in ToSet(S.avail[d][c]) /\ p \in Members[c]
       /\ ToSet(T.used[d][c]) = ToSet(S.used[d][c]) \cup {p}
  BY <1>6, <1>26 DEF UseEffect
<1>28. \A e \in Domains : p \notin PortsInUse(S, e)
  BY <1>1, <1>27, PortsApart
<1>29. \A e \in Domains : PortsInUse(T, e) \subseteq
         IF e = d THEN PortsInUse(S, e) \cup {p} ELSE PortsInUse(S, e)
  <2> SUFFICES ASSUME NEW e \in Domains, NEW b \in Cos
               PROVE  ToSet(T.used[e][b]) \subseteq ToSet(S.used[e][b])
                        \cup IF e = d THEN {p} ELSE {}
    BY DEF PortsInUse
  <2>1. e \in Owners /\ b \in Kinds
    BY Constants
  <2>2. CASE e = d /\ b = c
    BY <2>2, <1>27
  <2>3. CASE e # d \/ b # c
    BY <2>1, <2>3, <1>25 DEF UsedIn
  <2> QED
    BY <2>2, <2>3
<1>30. S.port_hist \in [UNION {Members[x] : x \in Cos} -> SUBSET HistEntries]
  BY <1>1, Typed
<1>31. p \in UNION {Members[x] : x \in Cos}
  BY <1>27
<1>32. T.port_hist[p] = given /\ \A q : q # p /\ q \in UNION {Members[x] : x \in Cos}
                                     => T.port_hist[q] = S.port_hist[q]
  BY <1>18, <1>21, <1>30, <1>31
<1>33. /\ given \subseteq h.base .. h.base + (h.offset + a.hist) - 1
       /\ given \subseteq h.base .. h.base + h.total - 1
       /\ given \cap (h.base .. h.base + h.offset - 1) = {}
       /\ h.base .. h.base + h.offset - 1 \subseteq h.base .. h.base + (h.offset + a.hist) - 1
       /\ h.offset + a.hist <= h.total
  <2>1. PartIs(h.base, h.total, h.offset, a.hist, base .. base + a.hist - 1)
    BY <1>2, <1>9, <1>10, NextPart
  <2> QED
    BY <2>1, <1>11 DEF PartIs
<1>34. /\ DomainHist(S, d) = h.base .. h.base + h.total - 1
       /\ HandedOut(S, d) = h.base .. h.base + h.offset - 1
       /\ HandedOut(T, d) = h.base .. h.base + (h.offset + a.hist) - 1
  BY <1>7, <1>8, <1>16, <1>23 DEF DomainHist, HandedOut
<1>35. \A o \in Owners : HistOf(T, o) = HistOf(S, o)
  <2>1. \A e \in Domains : DomainHist(T, e) = DomainHist(S, e)
    BY <1>25 DEF UsedIn, DomainHist
  <2> QED
    BY <2>1, <1>22 DEF HistOf, Owners
<1>36. given \subseteq HistEntries
  <2>1. HistOf(S, d) \subseteq HistEntries /\ HistOf(S, d) = DomainHist(S, d)
    BY <1>1, <1>5, Constants DEF HistGood, HistOf
  <2> QED
    BY <2>1, <1>33, <1>34
<1>37. hists \in [UNION {Members[x] : x \in Cos} -> SUBSET HistEntries]
  BY <1>18, <1>30, <1>36
<1>38. ASSUME NEW e \in Domains
       PROVE  \A q \in PortsInUse(S, e) : /\ q \in UNION {Members[x] : x \in Cos} /\ q # p
                                          /\ T.port_hist[q] = S.port_hist[q]
  <2> SUFFICES ASSUME NEW q \in PortsInUse(S, e)
               PROVE  q \in UNION {Members[x] : x \in Cos} /\ q # p
    BY <1>32
  <2>1. PICK b \in Cos : q \in ToSet(S.used[e][b])
    BY DEF PortsInUse
  <2>2. Shared(S, b) /\ e \in Owners
    BY <1>1, Constants DEF ListsGood
  <2>3. q \in Members[b]
    BY <2>1, <2>2 DEF Shared
  <2> QED
    BY <2>3, <1>28
<1>39. HistGood(T)
  <2>1. ASSUME NEW e \in Domains
        PROVE  /\ T.domain[e].hist.offset <= T.domain[e].hist.total
               /\ \A q \in PortsInUse(T, e) : T.port_hist[q] \subseteq HandedOut(T, e)
               /\ \A q, r \in PortsInUse(T, e) :
                    q # r => T.port_hist[q] \cap T.port_hist[r] = {}
    <3>1. /\ \A q \in PortsInUse(S, e) : S.port_hist[q] \subseteq HandedOut(S, e)
          /\ \A q, r \in PortsInUse(S, e) : q # r => S.port_hist[q] \cap S.port_hist[r] = {}
      BY <1>1 DEF HistGood
    <3>2. CASE e = d
      <4>1. \A q \in PortsInUse(S, d) : T.port_hist[q] \subseteq HandedOut(S, d)
        BY <3>1, <3>2, <1>38
      <4>2. \A q \in PortsInUse(T, d) : q = p \/ q \in PortsInUse(S, d)
        BY <1>29
      <4>3. \A q \in PortsInUse(T, d) : T.port_hist[q] \subseteq HandedOut(T, d)
        BY <4>1, <4>2, <1>32, <1>33, <1>34
      <4>4. \A q, r \in PortsInUse(T, d) : q # r => T.port_hist[q] \cap T.port_hist[r] = {}
        <5>1. \A q, r \in PortsInUse(S, d) : q # r => T.port_hist[q] \cap T.port_hist[r] = {}
          BY <3>1, <3>2, <1>38
        <5>2. \A q \in PortsInUse(S, d) : T.port_hist[q] \cap T.port_hist[p] = {}
          BY <4>1, <1>32, <1>33, <1>34
        <5> QED
          BY <5>1, <5>2, <4>2
      <4>5. T.domain[d].hist.offset <= T.domain[d].hist.total
        BY <1>16, <1>23, <1>33
      <4> QED
        BY <3>2, <4>3, <4>4, <4>5
    <3>3. CASE e # d
      <4>1. HandedOut(T, e) = HandedOut(S, e) /\ T.domain[e] = S.domain[e]
        BY <3>3, <1>23 DEF HandedOut
      <4>2. S.domain[e].hist.offset <= S.domain[e].hist.total
        BY <1>1 DEF HistGood
      <4>3. PortsInUse(T, e) \subseteq PortsInUse(S, e)
        BY <3>3, <1>29
      <4> QED
        BY <3>1, <4>1, <4>2, <4>3, <1>38
    <3> QED
      BY <3>2, <3>3
  <2>2. /\ \A o \in Owners : HistOf(T, o) \subseteq HistEntries
        /\ \A o, x \in Owners : o # x => HistOf(T, o) \cap HistOf(T, x) = {}
        /\ \A e \in HistEntries : \E o \in Owners : e \in HistOf(T, o)
    BY <1>1, <1>35 DEF HistGood
  <2> QED
    BY <2>1, <2>2 DEF HistGood
<1>40. T \in HwType
  <2>1. /\ S.num \in [Functions -> [Kinds -> Nat]]
        /\ S.hist \in [Functions -> SUBSET HistEntries]
        /\ S.count \in [Functions -> [Counted -> Nat]]
        /\ S.locked \in [Vdevs -> BOOLEAN]
        /\ S.virt_id \in [Things -> Int]
        /\ S.group \in [SnGroups -> GroupType]
        /\ S.sn \in [Members["ldb_queue"] -> [group : SnGroups \cup {"none"}, slot : Nat]]
    BY <1>1, Typed
  <2>2. T.domain \in [Domains ->
     [parent : Functions, configured : BOOLEAN,
      hist : [base : Nat, total : Nat, offset : Nat],
      count : [Counted -> Nat], used_count : [Counted -> Nat]]]
    BY <1>23 DEF DomainType
  <2> QED
    BY <2>1, <2>2, <1>21, <1>22, <1>37, Typed
<1>41. \A e \in Domains : /\ T.domain[e].count = S.domain[e].count
                          /\ T.domain[e].used_count = S.domain[e].used_count
  BY <1>7, <1>16, <1>23
<1> QED
  BY <1>1, <1>4, <1>5, <1>22, <1>25, <1>39, <1>40, <1>41, UsedInGood

(* From any class on, all classes come up.                                 *)
LEMMA Turns ==
  ASSUME NEW n \in Nat, NEW i \in 1 .. n, NEW j \in 1 .. n
  PROVE  \E k \in 0 .. n - 1 : ((i + k - 1) % n) + 1 = j
<1>1. \A a \in 0 .. n - 1 : a % n = a
  OBVIOUS
<1>2. \A a \in 0 .. n - 1 : (a + n) % n = a
  OBVIOUS
<1>3. CASE i <= j
  <2>1. PICK k \in 0 .. n - 1 : k = j - i
    BY <1>3
  <2>2. i + k - 1 = j - 1 /\ j - 1 \in 0 .. n - 1 /\ j - 1 + 1 = j
    BY <2>1
  <2> QED
    BY <1>1, <2>1, <2>2
<1>4. CASE ~(i <= j)
  <2>1. PICK k \in 0 .. n - 1 : k = j - i + n
    BY <1>4
  <2>2. i + k - 1 = (j - 1) + n /\ j - 1 \in 0 .. n - 1 /\ j - 1 + 1 = j
    BY <2>1
  <2> QED
    BY <1>2, <2>1, <2>2
<1> QED
  BY <1>3, <1>4

(* The class that gives a port is one that has a port.                     *)
LEMMA FirstFromIn ==
  ASSUME NEW i \in 1 .. NumCos, NEW X \in SUBSET Cos, X # {}
  PROVE  FirstFrom(i, X) \in X
<1> DEFINE nth(k) == CosOrder[((i + k - 1) % NumCos) + 1]
           I == {k \in 0 .. NumCos - 1 : nth(k) \in X}
<1>1. NumCos \in Nat /\ Numbered(CosOrder, NumCos, Cos)
  BY CosFinite, Constants, ListingNumbered DEF NumCos
<1>2. PICK c \in X : TRUE
  OBVIOUS
<1>3. PICK j \in 1 .. NumCos : CosOrder[j] = c
  BY <1>1, <1>2 DEF Numbered
<1>4. PICK k \in 0 .. NumCos - 1 : ((i + k - 1) % NumCos) + 1 = j
  BY <1>1, Turns
<1>5. I # {} /\ I \in SUBSET Nat
  <2>1. nth(k) = c
    BY <1>3, <1>4
  <2>2. 0 .. NumCos - 1 \subseteq Nat
    BY <1>1
  <2> HIDE DEF nth
  <2> QED
    BY <1>2, <2>1, <2>2
<1>6. FirstFrom(i, X) = nth(Min(I))
  BY DEF FirstFrom
<1> HIDE DEF I, nth
<1>7. Min(I) \in I
  BY <1>5, LeastNumber
<1> QED
  BY <1>6, <1>7 DEF I

(* The search for a port starts with some class.                           *)
LEMMA StartIn ==
  ASSUME NEW r \in Requests, NEW t \in Int, 1 <= NumCos
  PROVE  Start(r, t) \in 1 .. NumCos
<1>1. NumCos \in Nat /\ \A i \in 1 .. NumCos : CosOrder[i] \in Cos
  BY CosFinite
<1>2. r.cos_ports \in [Cos -> Nat]
  BY ArgsAssumption
<1>3. IsFiniteSet(1 .. NumCos)
  BY <1>1, FS_Interval
<1>4. [j \in 1 .. NumCos |-> r.cos_ports[CosOrder[j]]] \in [1 .. NumCos -> Int]
  BY <1>1, <1>2
<1>5. Upto(r, NumCos) \in Int
  BY <1>3, <1>4, SumIsInt DEF Upto
<1>6. CASE r.cos_strict \/ t > Upto(r, NumCos)
  BY <1>1, <1>6 DEF Start
<1>7. CASE ~(r.cos_strict \/ t > Upto(r, NumCos))
  <2>1. PICK I \in SUBSET Nat : I = {i \in 1 .. NumCos : t <= Upto(r, i)}
    <3>1. 1 .. NumCos \subseteq Nat
      BY <1>1
    <3>2. {i \in 1 .. NumCos : t <= Upto(r, i)} \subseteq Nat
      BY <3>1
    <3> QED
      BY <3>2
  <2>2. NumCos \in I
    BY <1>1, <1>5, <1>7, <2>1
  <2>3. Min(I) \in I
    BY <2>2, LeastNumber
  <2>4. Start(r, t) = Min(I)
    BY <1>7, <2>1 DEF Start
  <2> QED
    BY <2>1, <2>3, <2>4
<1> QED
  BY <1>6, <1>7

(* Some class has a port left while the sum is smaller.                    *)
LEMMA SomeLeft ==
  ASSUME NEW f \in [Cos -> Int], NEW g \in [Cos -> Int],
         \A c \in Cos : f[c] <= g[c], SumFunction(f) < SumFunction(g)
  PROVE  \E c \in Cos : f[c] < g[c]
<1> SUFFICES ASSUME \A c \in Cos : ~(f[c] < g[c]) PROVE FALSE
  OBVIOUS
<1>1. \A c \in Cos : f[c] = g[c]
  OBVIOUS
<1>2. f = g
  BY <1>1
<1>3. SumFunction(f) \in Int
  BY CosFinite, SumIsInt
<1> QED
  BY <1>2, <1>3

(* What was taken before try t.                                            *)
Taken(num, first, t) ==
  {x \in [Cos -> Nat] : /\ \A c \in Cos : x[c] <= num[c]
                        /\ SumFunction(x) = first + t}
TakeOne(num, x, i) ==
  [x EXCEPT ![FirstFrom(i, {c \in Cos : x[c] < num[c]})] = @ + 1]

(* One more port is taken: some class has one as long as not all are       *)
(* taken.                                                                  *)
LEMMA TakeStep ==
  ASSUME NEW num \in [Cos -> Nat], NEW first \in Int, NEW t \in Nat, t > 0,
         first + t <= SumFunction(num),
         NEW x \in Taken(num, first, t - 1), NEW i \in 1 .. NumCos
  PROVE  TakeOne(num, x, i) \in Taken(num, first, t)
<1>1. x \in [Cos -> Nat] /\ (\A c \in Cos : x[c] <= num[c]) /\ SumFunction(x) = first + (t - 1)
  BY DEF Taken
<1>2. SumFunction(num) \in Int
  <2>1. num \in [Cos -> Int]
    OBVIOUS
  <2> QED
    BY <2>1, CosFinite, SumIsInt
<1>3. PICK X \in SUBSET Cos : X = {c \in Cos : x[c] < num[c]}
  OBVIOUS
<1>4. X # {}
  <2>1. x \in [Cos -> Int] /\ num \in [Cos -> Int]
    BY <1>1
  <2>2. SumFunction(x) < SumFunction(num)
    BY <1>1, <1>2
  <2>3. \E c \in Cos : x[c] < num[c]
    BY <2>1, <2>2, <1>1, SomeLeft
  <2> QED
    BY <1>3, <2>3
<1>5. PICK c \in X : c = FirstFrom(i, X)
  BY <1>4, FirstFromIn
<1>6. PICK y : y = [x EXCEPT ![c] = x[c] + 1]
  OBVIOUS
<1>7. c \in Cos /\ x[c] < num[c]
  BY <1>3
<1>8. /\ y \in [Cos -> Nat] /\ y[c] = x[c] + 1 /\ \A b \in Cos \ {c} : y[b] = x[b]
  BY <1>1, <1>6, <1>7
<1>9. \A b \in Cos : y[b] <= num[b]
  BY <1>1, <1>7, <1>8
<1>10. SumFunction(y) = first + t
  <2>1. x \in [Cos -> Int] /\ y \in [Cos -> Int]
    BY <1>1, <1>8
  <2>2. SumFunction(y) = SumFunction(x) + y[c] - x[c]
    BY <2>1, <1>7, <1>8, CosFinite, SumChange
  <2>3. PICK s \in Int : s = SumFunction(x)
    BY <1>1
  <2>4. PICK m \in Nat : m = x[c]
    BY <1>1, <1>7
  <2> QED
    BY <2>2, <2>3, <2>4, <1>1, <1>8
<1>11. TakeOne(num, x, i) = y
  BY <1>3, <1>5, <1>6 DEF TakeOne
<1> QED
  BY <1>8, <1>9, <1>10, <1>11 DEF Taken

(* dlb2_attach_ldb_ports takes from no class more than it has.             *)
LEMMA PortsTaken ==
  ASSUME NEW S \in HwType, NEW f \in Functions, NEW r \in Requests, CanCreate(S, f, r),
         NEW x, x = ldb_ports(S, f, r)
  PROVE  x \in [Cos -> Nat] /\ \A c \in Cos : x[c] <= S.num[f][c]
<1>1. /\ r.cos_strict \in BOOLEAN /\ r.cos_ports \in [Cos -> Nat] /\ r.any_ports \in Nat
  BY ArgsAssumption
<1>2. S.num \in [Functions -> [Kinds -> Nat]] /\ Cos \subseteq Kinds
  BY Typed, Constants
<1>3. PICK num \in [Cos -> Nat] : num = [c \in Cos |-> S.num[f][c]]
  <2>1. [c \in Cos |-> S.num[f][c]] \in [Cos -> Nat]
    BY <1>2
  <2> QED
    BY <2>1
<1>4. PortsOf(S, f) = SumFunction(num) /\ SumFunction(num) \in Int
  <2>1. num \in [Cos -> Int]
    OBVIOUS
  <2> QED
    BY <2>1, <1>3, CosFinite, SumIsInt DEF PortsOf
<1>5. PICK named \in Nat : named = SumFunction(r.cos_ports)
  <2>1. r.cos_ports \in [Cos -> Int] /\ \A c \in Cos : r.cos_ports[c] >= 0
    BY <1>1
  <2> QED
    BY <2>1, CosFinite, SumIsInt, SumBound
<1>6. r.any_ports + named <= SumFunction(num)
  BY <1>4, <1>5 DEF CanCreate, Total
<1>7. PICK first \in Nat : first = IF r.cos_strict THEN named ELSE 0
  OBVIOUS
<1>8. PICK N \in Nat : N = Tries(r) /\ first + N <= SumFunction(num)
  BY <1>1, <1>5, <1>6, <1>7 DEF Tries, Total
<1>9. PICK start : start = [c \in Cos |-> IF r.cos_strict THEN r.cos_ports[c] ELSE 0]
  OBVIOUS
<1>10. start \in Taken(num, first, 0)
  <2>1. CASE r.cos_strict
    <3>1. start = r.cos_ports
      BY <1>1, <1>9, <2>1
    <3>2. \A c \in Cos : r.cos_ports[c] <= num[c]
      BY <1>3, <2>1 DEF CanCreate
    <3> QED
      BY <1>1, <1>5, <1>7, <2>1, <3>1, <3>2 DEF Taken
  <2>2. CASE ~r.cos_strict
    <3>1. start \in [Cos -> Int] /\ start \in [Cos -> Nat] /\ \A c \in Cos : start[c] = 0
      BY <1>9, <2>2
    <3>2. SumFunction(start) = 0
      BY <3>1, CosFinite, SumZero
    <3>3. \A c \in Cos : start[c] <= num[c]
      BY <3>1
    <3> QED
      BY <1>7, <2>2, <3>1, <3>2, <3>3 DEF Taken
  <2> QED
    BY <2>1, <2>2
<1>11. ASSUME NEW t \in 1 .. N, NEW y \in Taken(num, first, t - 1)
       PROVE  TakeOne(num, y, Start(r, t)) \in Taken(num, first, t)
  <2>1. NumCos \in Nat
    BY CosFinite
  <2>2. 1 <= NumCos
    <3> SUFFICES ASSUME NumCos = 0 PROVE FALSE
      BY <2>1
    <3>1. Cos = {}
      <4>1. Numbered(CosOrder, NumCos, Cos)
        BY Constants, ListingNumbered DEF NumCos
      <4> QED
        BY <4>1 DEF Numbered
    <3>2. num \in [Cos -> Int]
      OBVIOUS
    <3>3. SumFunction(num) = 0
      BY <3>1, <3>2, CosFinite, SumZero
    <3>4. t > 0 /\ t <= N /\ t \in Nat
      OBVIOUS
    <3> QED
      BY <3>3, <3>4, <1>8
  <2>3. Start(r, t) \in 1 .. NumCos
    BY <2>2, StartIn
  <2>4. t \in Nat /\ t > 0 /\ first + t <= SumFunction(num) /\ first \in Int
    BY <1>4, <1>8
  <2> QED
    BY <2>3, <2>4, TakeStep
<1>12. \A y, i : TakeOne(S.num[f], y, i) = TakeOne(num, y, i)
  <2> SUFFICES ASSUME NEW y, NEW i PROVE TakeOne(S.num[f], y, i) = TakeOne(num, y, i)
    OBVIOUS
  <2>1. {c \in Cos : y[c] < S.num[f][c]} = {c \in Cos : y[c] < num[c]}
    BY <1>3
  <2> QED
    BY <2>1 DEF TakeOne
<1> DEFINE taken[t \in 0 .. N] ==
             IF t = 0 THEN start ELSE TakeOne(S.num[f], taken[t - 1], Start(r, t))
           H == [t \in 0 .. N |-> Taken(num, first, t)]
           F == [t \in 1 .. N |-> [y \in Taken(num, first, t - 1) |->
                  TakeOne(num, y, Start(r, t))]]
<1>13. \E g : g = [t \in 0 .. N |-> IF t = 0 THEN start
                                    ELSE TakeOne(S.num[f], g[t - 1], Start(r, t))]
  <2>1. Leads(N, H, F, start)
    <3>1. start \in H[0]
      BY <1>10
    <3>2. ASSUME NEW t \in 1 .. N, NEW y \in H[t - 1] PROVE F[t][y] \in H[t]
      <4>1. t - 1 \in 0 .. N /\ t \in 0 .. N
        OBVIOUS
      <4> QED
        BY <4>1, <1>11
    <3> QED
      BY <3>1, <3>2 DEF Leads
  <2>2. PICK g : Follows(N, H, F, start, g)
    <3> HIDE DEF H, F, taken
    <3> QED
      BY <2>1, Recursion
  <2>3. ASSUME NEW t \in 1 .. N PROVE g[t] = TakeOne(S.num[f], g[t - 1], Start(r, t))
    <3>1. t - 1 \in 0 .. N
      OBVIOUS
    <3>2. g[t - 1] \in Taken(num, first, t - 1) /\ g[t] = F[t][g[t - 1]]
      BY <3>1, <2>2 DEF Follows
    <3>3. g[t] = TakeOne(num, g[t - 1], Start(r, t))
      BY <3>2
    <3> QED
      BY <3>3, <1>12
  <2> HIDE DEF taken, H, F
  <2>4. ASSUME NEW t \in 0 .. N
        PROVE  g[t] = IF t = 0 THEN start ELSE TakeOne(S.num[f], g[t - 1], Start(r, t))
    <3>1. CASE t = 0
      BY <3>1, <2>2 DEF Follows
    <3>2. CASE t # 0
      BY <3>2, <2>3
    <3> QED
      BY <3>1, <3>2
  <2> QED
    BY <2>2, <2>4 DEF Follows
<1>14. taken = [t \in 0 .. N |-> IF t = 0 THEN start
                                 ELSE TakeOne(S.num[f], taken[t - 1], Start(r, t))]
  BY <1>13 DEF taken
<1>15. x = taken[N]
  BY <1>8, <1>9 DEF ldb_ports, TakeOne
<1> HIDE DEF taken
<1>16. \A t \in 0 .. N : taken[t] \in H[t]
  <2>1. taken[0] \in H[0]
    BY <1>10, <1>14
  <2>2. ASSUME NEW t \in 1 .. N, taken[t - 1] \in H[t - 1] PROVE taken[t] \in H[t]
    <3>1. t - 1 \in 0 .. N /\ t \in 0 .. N /\ t # 0
      OBVIOUS
    <3>2. taken[t] = TakeOne(num, taken[t - 1], Start(r, t))
      BY <3>1, <1>12, <1>14
    <3>3. taken[t - 1] \in Taken(num, first, t - 1)
      BY <2>2, <3>1
    <3>4. taken[t] \in Taken(num, first, t)
      BY <3>2, <3>3, <1>11
    <3> QED
      BY <3>1, <3>4
  <2> HIDE DEF H
  <2> QED
    BY <2>1, <2>2, Steps
<1>17. x \in Taken(num, first, N)
  BY <1>15, <1>16
<1> QED
  BY <1>3, <1>17 DEF Taken

(* A domain gets the first n[k] entries of each list of a function.        *)
AttachIs(S, A, f, d, n) ==
  /\ HwRecord(A)
  /\ A.avail \in [Owners -> [Kinds -> Seq(Things)]]
  /\ \A k \in Kinds : MoveEffect(S, A, d, f, k, n[k])
  /\ \A o \in Owners \ {f, d} : A.avail[o] = S.avail[o]
  /\ A.avail[f]["sched_domain"] = S.avail[f]["sched_domain"]
  /\ A.num = [S.num EXCEPT ![f] = [k \in Kinds |-> S.num[f][k] - n[k]]]
  /\ A.used = S.used /\ A.hist = S.hist /\ A.count = S.count /\ A.locked = S.locked
  /\ A.virt_id = S.virt_id /\ A.group = S.group /\ A.domain = S.domain /\ A.sn = S.sn
  /\ A.port_hist = S.port_hist

(* What dlb2_domain_attach_resources does to each field.                   *)
LEMMA AttachFields ==
  ASSUME NEW S, Good(S), NEW f \in Functions, NEW d \in Domains, NEW n,
         n["sched_domain"] = 0,
         \A k \in Kinds : n[k] \in 0 .. Len(S.avail[f][k]),
         NEW A, A = attach(S, f, d, n)
  PROVE  AttachIs(S, A, f, d, n)
<1>1. S \in HwType /\ HwRecord(S) /\ ListsGood(S)
  BY Typed DEF Good
<1>2. f \in Owners /\ d \in Owners /\ f # d /\ "sched_domain" \in Kinds
  BY Constants
<1> DEFINE got(k) == Reverse(SubSeq(S.avail[f][k], 1, n[k])) \o S.avail[d][k]
           rest(k) == SubSeq(S.avail[f][k], n[k] + 1, Len(S.avail[f][k]))
<1>3. PICK to : to = [k \in Kinds |-> got(k)]
  OBVIOUS
<1>4. PICK left : left = [k \in Kinds |-> rest(k)]
  OBVIOUS
<1>5. PICK av : av = [S.avail EXCEPT ![d] = to, ![f] = left]
  OBVIOUS
<1>6. PICK num : num = [S.num EXCEPT ![f] = [k \in Kinds |-> S.num[f][k] - n[k]]]
  OBVIOUS
<1>7. A = [S EXCEPT !.avail = av, !.num = num]
  BY <1>3, <1>4, <1>5, <1>6 DEF attach
<1> HIDE DEF got, rest
<1>8. /\ HwRecord(A) /\ A.avail = av /\ A.num = num
      /\ A.used = S.used /\ A.hist = S.hist /\ A.count = S.count /\ A.locked = S.locked
      /\ A.virt_id = S.virt_id /\ A.group = S.group /\ A.domain = S.domain /\ A.sn = S.sn
      /\ A.port_hist = S.port_hist
  BY <1>1, <1>7 DEF HwRecord
<1>9. S.avail \in [Owners -> [Kinds -> Seq(Things)]]
  BY <1>1, Typed
<1>10. /\ av = [o \in Owners |-> IF o = f THEN left ELSE IF o = d THEN to ELSE S.avail[o]]
       /\ av[f] = left /\ av[d] = to /\ \A o \in Owners \ {f, d} : av[o] = S.avail[o]
  BY <1>2, <1>5, <1>9
<1>11. ASSUME NEW k \in Kinds PROVE MoveEffect(S, A, d, f, k, n[k])
  <2>1. Moved(S, A, d, f, k, n[k])
    <3>1. A.avail[d][k] = got(k)
      BY <1>3, <1>8, <1>10
    <3>2. A.avail[f][k] = rest(k)
      BY <1>4, <1>8, <1>10
    <3>3. /\ \A o \in Owners \ {d, f} : A.avail[o][k] = S.avail[o][k]
          /\ \A o \in Owners : A.used[o][k] = S.used[o][k]
      BY <1>8, <1>10
    <3> QED
      BY <3>1, <3>2, <3>3, Zenon DEF Moved, got, rest
  <2>2. Shared(S, k)
    BY <1>1 DEF ListsGood
  <2> QED
    BY <2>1, <2>2, <1>2, MoveShares
<1>12. av \in [Owners -> [Kinds -> Seq(Things)]]
  <2>1. ASSUME NEW o \in Owners, NEW k \in Kinds PROVE av[o][k] \in Seq(Things)
    <3>1. Shared(A, k) /\ Members[k] \subseteq Things
      BY <1>11, Constants DEF MoveEffect
    <3>2. av[o][k] \in Seq(ToSet(av[o][k])) /\ ToSet(av[o][k]) \subseteq Things
      BY <3>1, <1>8 DEF Shared, Distinct, Listing
    <3> QED
      BY <3>2
  <2>2. \A o \in Owners : av[o] = [k \in Kinds |-> av[o][k]]
    BY <1>3, <1>4, <1>9, <1>10
  <2>3. \A o \in Owners : av[o] \in [Kinds -> Seq(Things)]
    BY <2>1, <2>2
  <2> QED
    BY <2>3, <1>10
<1>13. A.avail[f]["sched_domain"] = S.avail[f]["sched_domain"]
  <2>1. PICK list \in Seq(Things) : list = S.avail[f]["sched_domain"]
    BY <1>2, <1>9
  <2>2. A.avail[f]["sched_domain"] = SubSeq(list, 0 + 1, Len(list))
    BY <1>2, <1>4, <1>8, <1>10, <2>1 DEF rest
  <2>3. SubSeq(list, 1, Len(list)) = list
    BY <2>1
  <2> QED
    BY <2>1, <2>2, <2>3
<1> QED
  BY <1>6, <1>8, <1>10, <1>11, <1>12, <1>13 DEF AttachIs

Wanted(S, f, r) ==
  [k \in Kinds |-> CASE k = "sched_domain" -> 0
                     [] k = "ldb_queue" -> r.queues
                     [] k = "dir_port" -> r.dir_ports
                     [] k \in Cos -> ldb_ports(S, f, r)[k]]

(* What was verified is there.                                             *)
LEMMA WantedThere ==
  ASSUME NEW S, Good(S), NEW f \in Functions, NEW r \in Requests, CanCreate(S, f, r),
         NEW n, n = Wanted(S, f, r)
  PROVE  /\ n["sched_domain"] = 0
         /\ \A k \in Kinds : n[k] \in 0 .. Len(S.avail[f][k])
<1>1. S \in HwType /\ \A k \in Kinds : S.num[f][k] = Len(S.avail[f][k]) /\ S.num[f][k] \in Nat
  <2>1. S \in HwType /\ ListsGood(S)
    BY DEF Good
  <2>2. S.num \in [Functions -> [Kinds -> Nat]]
    BY <2>1, Typed
  <2> QED
    BY <2>1, <2>2 DEF ListsGood
<1>2. r.queues \in Nat /\ r.dir_ports \in Nat
  BY ArgsAssumption
<1>3. PICK x \in [Cos -> Nat] : x = ldb_ports(S, f, r) /\ \A c \in Cos : x[c] <= S.num[f][c]
  BY <1>1, PortsTaken
<1>4. n["sched_domain"] = 0
  BY Constants DEF Wanted
<1>5. ASSUME NEW k \in Kinds PROVE n[k] \in 0 .. S.num[f][k]
  <2>1. CASE k = "sched_domain"
    BY <2>1, <1>1, <1>4
  <2>2. CASE k = "ldb_queue"
    <3>1. n[k] = r.queues
      BY <2>2, Constants DEF Wanted
    <3> QED
      BY <2>2, <3>1, <1>1, <1>2 DEF CanCreate
  <2>3. CASE k = "dir_port"
    <3>1. n[k] = r.dir_ports
      BY <2>3, Constants DEF Wanted
    <3> QED
      BY <2>3, <3>1, <1>1, <1>2 DEF CanCreate
  <2>4. CASE k \in Cos
    <3>1. k # "sched_domain" /\ k # "ldb_queue" /\ k # "dir_port"
      BY <2>4, Constants
    <3>2. n[k] = x[k]
      BY <2>4, <3>1, <1>3 DEF Wanted
    <3> QED
      BY <2>4, <3>2, <1>1, <1>3
  <2> QED
    BY <2>1, <2>2, <2>3, <2>4, Constants
<1> QED
  BY <1>1, <1>4, <1>5

(* What a request makes of the domain.                                     *)
NewDomain(old, r, range) ==
  [parent |-> old.parent, configured |-> TRUE,
   hist |-> IF r.hist = 0 THEN old.hist
            ELSE [base |-> Min(range), total |-> r.hist, offset |-> 0],
   count |-> [k \in Counted |-> old.count[k] + r.count[k]],
   used_count |-> old.used_count]

CreateIs(S, T, A, f, d, r, range) ==
  /\ HwRecord(T)
  /\ T.avail \in [Owners -> [Kinds -> Seq(Things)]]
  /\ T.used \in [Owners -> [Kinds -> Seq(Things)]]
  /\ UseEffect(A, T, f, "sched_domain") /\ UsedBy(A, T, f, "sched_domain")
  /\ \A o \in Owners \ {f} : T.avail[o] = A.avail[o] /\ T.used[o] = S.used[o]
  /\ \A k \in Kinds \ {"sched_domain"} :
       T.avail[f][k] = A.avail[f][k] /\ T.used[f][k] = S.used[f][k]
  /\ T.num = [A.num EXCEPT ![f]["sched_domain"] = @ - 1]
  /\ T.hist = [S.hist EXCEPT ![f] = S.hist[f] \ range]
  /\ T.count = [S.count EXCEPT ![f] = [k \in Counted |-> S.count[f][k] - r.count[k]]]
  /\ T.domain = [S.domain EXCEPT ![d] = NewDomain(S.domain[d], r, range)]
  /\ T.locked = S.locked /\ T.virt_id = S.virt_id /\ T.group = S.group
  /\ T.sn = S.sn /\ T.port_hist = S.port_hist

(* What dlb2_hw_create_sched_domain does to each field.                    *)
LEMMA CreateFields ==
  ASSUME NEW S, Good(S), NEW f \in Functions, NEW r \in Requests, CanCreate(S, f, r),
         NEW d, d = Head(S.avail[f]["sched_domain"]),
         NEW range, range = find_set_bit_range(S.hist[f], r.hist),
         NEW T, T = create_sched_domain(S, f, r)
  PROVE  /\ d \in Domains /\ d \in ToSet(S.avail[f]["sched_domain"])
         /\ \E n, A : /\ n["sched_domain"] = 0
                      /\ \A k \in Kinds : n[k] \in 0 .. Len(S.avail[f][k])
                      /\ AttachIs(S, A, f, d, n) /\ CreateIs(S, T, A, f, d, r, range)
<1>1. S \in HwType /\ HwRecord(S) /\ ListsGood(S)
  BY Typed DEF Good
<1>2. PICK k0 \in Kinds : k0 = "sched_domain"
  BY Constants
<1>3. Shared(S, k0) /\ f \in Owners
  BY <1>1, Constants DEF ListsGood
<1>4. S.avail[f][k0] # << >>
  <2>1. S.avail \in [Owners -> [Kinds -> Seq(Things)]]
    BY <1>1, Typed
  <2>2. Len(S.avail[f][k0]) >= 1
    BY <1>1, <1>2 DEF ListsGood, CanCreate
  <2>3. Len(<< >>) = 0
    OBVIOUS
  <2> QED
    BY <2>2, <2>3
<1>5. d \in ToSet(S.avail[f][k0]) /\ d \in Domains
  <2>1. Listing(S.avail[f][k0], ToSet(S.avail[f][k0]))
    BY <1>3 DEF Shared, Distinct
  <2>2. d \in ToSet(S.avail[f][k0])
    BY <1>2, <1>4, <2>1, ListingHead
  <2> QED
    BY <1>2, <1>3, <2>2, DomainPlace
<1>6. PICK n : n = Wanted(S, f, r)
  OBVIOUS
<1>7. n[k0] = 0 /\ \A k \in Kinds : n[k] \in 0 .. Len(S.avail[f][k])
  BY <1>2, <1>6, WantedThere
<1>8. PICK A : A = attach(S, f, d, n)
  OBVIOUS
<1>9. AttachIs(S, A, f, d, n)
  BY <1>2, <1>5, <1>7, <1>8, AttachFields
<1>10. HwRecord(A) /\ A.avail \in [Owners -> [Kinds -> Seq(Things)]]
       /\ A.used \in [Owners -> [Kinds -> Seq(Things)]]
       /\ A.avail[f][k0] = S.avail[f][k0] /\ Shared(A, k0)
       /\ A.used = S.used
  <2>1. S.used \in [Owners -> [Kinds -> Seq(Things)]]
    BY <1>1, Typed
  <2> QED
    BY <2>1, <1>2, <1>9 DEF AttachIs, MoveEffect
<1>11. PICK U : U = use(A, f, k0)
  OBVIOUS
<1>12. UseIs(A, U, f, k0)
  BY <1>3, <1>4, <1>10, <1>11, UseFields
<1>13. PICK num : num = [A.num EXCEPT ![f][k0] = @ - 1]
  OBVIOUS
<1>14. PICK hist : hist = [S.hist EXCEPT ![f] = S.hist[f] \ range]
  OBVIOUS
<1>15. PICK count : count = [S.count EXCEPT ![f] = [k \in Counted |-> S.count[f][k] - r.count[k]]]
  OBVIOUS
<1>16. PICK dom : dom = [S.domain EXCEPT ![d] = NewDomain(S.domain[d], r, range)]
  OBVIOUS
<1>17. /\ U.num = A.num /\ U.hist = S.hist /\ U.count = S.count /\ U.domain = S.domain
       /\ U.locked = S.locked /\ U.virt_id = S.virt_id /\ U.group = S.group
       /\ U.sn = S.sn /\ U.port_hist = S.port_hist /\ HwRecord(U)
  BY <1>9, <1>12 DEF UseIs, AttachIs
<1>18. T = [U EXCEPT !.num[f][k0] = @ - 1,
                     !.hist[f] = S.hist[f] \ range,
                     !.count[f] = [k \in Counted |-> S.count[f][k] - r.count[k]],
                     !.domain[d] = NewDomain(S.domain[d], r, range)]
  BY <1>2, <1>6, <1>8, <1>11 DEF create_sched_domain, Wanted, NewDomain
<1>20. /\ HwRecord(T) /\ T.num = num /\ T.hist = hist /\ T.count = count /\ T.domain = dom
       /\ T.avail = U.avail /\ T.used = U.used
       /\ T.locked = S.locked /\ T.virt_id = S.virt_id /\ T.group = S.group
       /\ T.sn = S.sn /\ T.port_hist = S.port_hist
  <2>1. PICK V : V = [U EXCEPT !.num[f][k0] = @ - 1, !.hist[f] = S.hist[f] \ range]
    OBVIOUS
  <2>2. V = [U EXCEPT !.num = num, !.hist = hist]
    BY <1>13, <1>14, <1>17, <2>1
  <2>3. /\ HwRecord(V) /\ V.num = num /\ V.hist = hist /\ V.count = S.count
        /\ V.domain = S.domain /\ V.avail = U.avail /\ V.used = U.used
        /\ V.locked = S.locked /\ V.virt_id = S.virt_id /\ V.group = S.group
        /\ V.sn = S.sn /\ V.port_hist = S.port_hist
    BY <1>17, <2>2 DEF HwRecord
  <2>4. T = [V EXCEPT !.count[f] = [k \in Counted |-> S.count[f][k] - r.count[k]],
                      !.domain[d] = NewDomain(S.domain[d], r, range)]
    BY <1>18, <2>1
  <2>5. T = [V EXCEPT !.count = count, !.domain = dom]
    BY <1>15, <1>16, <2>3, <2>4
  <2> QED
    BY <2>3, <2>5 DEF HwRecord
<1>21. UsedBy(A, T, f, k0)
  BY <1>12, <1>20 DEF UseIs, UsedBy
<1>22. UseEffect(A, T, f, k0)
  BY <1>3, <1>4, <1>10, <1>21, UseShares
<1>23. /\ T.avail \in [Owners -> [Kinds -> Seq(Things)]]
       /\ T.used \in [Owners -> [Kinds -> Seq(Things)]]
       /\ \A o \in Owners \ {f} : T.avail[o] = A.avail[o] /\ T.used[o] = S.used[o]
       /\ \A k \in Kinds \ {k0} : T.avail[f][k] = A.avail[f][k] /\ T.used[f][k] = S.used[f][k]
  BY <1>10, <1>12, <1>20 DEF UseIs
<1>24. CreateIs(S, T, A, f, d, r, range)
  BY <1>2, <1>13, <1>14, <1>15, <1>16, <1>20, <1>21, <1>22, <1>23 DEF CreateIs
<1> QED
  BY <1>2, <1>5, <1>7, <1>9, <1>24

(* A new domain leaves the books in order.                                 *)
LEMMA CreateGood ==
  ASSUME NEW S, Good(S), NEW f \in Functions, NEW r \in Requests, CanCreate(S, f, r),
         NEW T, T = create_sched_domain(S, f, r)
  PROVE  /\ Good(T) /\ T.locked = S.locked
         /\ \A g \in Functions : Keeps(S, T, g)
<1>1. /\ S \in HwType /\ HwRecord(S) /\ ListsGood(S) /\ DomainsGood(S) /\ HistGood(S)
  BY Typed DEF Good
<1>2. PICK d : d = Head(S.avail[f]["sched_domain"])
  OBVIOUS
<1>3. PICK range : range = find_set_bit_range(S.hist[f], r.hist)
  OBVIOUS
<1>4. PICK n, A : /\ n["sched_domain"] = 0
                  /\ \A k \in Kinds : n[k] \in 0 .. Len(S.avail[f][k])
                  /\ AttachIs(S, A, f, d, n) /\ CreateIs(S, T, A, f, d, r, range)
  BY <1>2, <1>3, CreateFields
<1>5. d \in Domains /\ d \in ToSet(S.avail[f]["sched_domain"])
  BY <1>2, <1>3, CreateFields
<1>6. PICK k0 \in Kinds : k0 = "sched_domain"
  BY Constants
<1>7. f \in Owners /\ d \in Owners /\ f # d /\ \A g \in Functions : g # d /\ g \in Owners
  BY <1>5, Constants
<1>8. Shared(S, k0)
  BY <1>1 DEF ListsGood
<1>9. Idle(S, d) /\ S.domain[d].parent = f
  BY <1>1, <1>5 DEF DomainsGood
<1>10. UseEffect(A, T, f, k0) /\ A.avail[f][k0] = S.avail[f][k0] /\ A.used = S.used
  BY <1>4, <1>6 DEF CreateIs, AttachIs
<1>11. /\ ToSet(T.avail[f][k0]) = ToSet(S.avail[f][k0]) \ {d}
       /\ ToSet(T.used[f][k0]) = ToSet(S.used[f][k0]) \cup {d}
       /\ Len(T.avail[f][k0]) = Len(S.avail[f][k0]) - 1
       /\ Shared(T, k0)
  BY <1>2, <1>6, <1>10 DEF UseEffect
<1>12. \A o \in Owners \ {f, d} : T.avail[o] = S.avail[o] /\ T.used[o] = S.used[o]
  BY <1>4 DEF CreateIs, AttachIs
<1>13. ASSUME NEW k \in Kinds, k # k0
       PROVE  /\ Shared(T, k)
              /\ T.avail[f][k] = A.avail[f][k] /\ T.used[f][k] = S.used[f][k]
              /\ T.avail[d][k] = A.avail[d][k] /\ T.used[d][k] = S.used[d][k]
              /\ Len(T.avail[f][k]) = Len(S.avail[f][k]) - n[k]
              /\ ToSet(T.avail[d][k]) \cup ToSet(T.avail[f][k])
                   = ToSet(S.avail[d][k]) \cup ToSet(S.avail[f][k])
  <2>1. MoveEffect(S, A, d, f, k, n[k])
    BY <1>4 DEF AttachIs
  <2>2. /\ \A o \in Owners \ {f} : T.avail[o] = A.avail[o] /\ T.used[o] = A.used[o]
        /\ T.avail[f][k] = A.avail[f][k] /\ T.used[f][k] = A.used[f][k]
    <3>1. /\ \A o \in Owners \ {f} : T.avail[o] = A.avail[o] /\ T.used[o] = S.used[o]
          /\ \A x \in Kinds \ {k0} : T.avail[f][x] = A.avail[f][x] /\ T.used[f][x] = S.used[f][x]
      BY <1>4, <1>6 DEF CreateIs
    <3> QED
      BY <3>1, <1>10, <1>13
  <2>3. \A o \in Owners : T.avail[o][k] = A.avail[o][k] /\ T.used[o][k] = A.used[o][k]
    BY <2>2
  <2>4. Shared(T, k)
    BY <2>1, <2>3, SameShared DEF MoveEffect
  <2> QED
    BY <2>1, <2>3, <2>4, <1>7, <1>10 DEF MoveEffect
<1>14. T.avail[d][k0] = << >> /\ T.used[d] = S.used[d]
  <2>1. T.avail[d] = A.avail[d] /\ T.used[d] = S.used[d]
    BY <1>4, <1>7 DEF CreateIs
  <2>2. MoveEffect(S, A, d, f, k0, n[k0]) /\ n[k0] = 0
    BY <1>4, <1>6 DEF AttachIs
  <2>3. S.avail[d][k0] = << >>
    BY <1>9 DEF Idle
  <2>4. Listing(A.avail[d][k0], ToSet(A.avail[d][k0]))
    BY <1>7, <2>2 DEF MoveEffect, Shared, Distinct
  <2>5. Len(<< >>) = 0
    OBVIOUS
  <2>6. Len(A.avail[d][k0]) = 0
    BY <2>2, <2>3, <2>5 DEF MoveEffect
  <2>7. A.avail[d][k0] = << >>
    BY <2>4, <2>6, ListingEmpty
  <2> QED
    BY <2>1, <2>7
<1>15. \A k \in Kinds : Shared(T, k)
  BY <1>11, <1>13
<1>16. S.num \in [Functions -> [Kinds -> Nat]]
       /\ \A g \in Functions, k \in Kinds : S.num[g][k] = Len(S.avail[g][k])
  BY <1>1, Typed DEF ListsGood
<1>17. PICK m \in [Kinds -> Nat] :
         /\ m[k0] = S.num[f][k0] - 1 /\ \A k \in Kinds : k # k0 => m[k] = S.num[f][k] - n[k]
         /\ T.num = [S.num EXCEPT ![f] = m]
  <2>1. PICK a : a = [k \in Kinds |-> S.num[f][k] - n[k]]
    OBVIOUS
  <2>2. A.num = [S.num EXCEPT ![f] = a]
    BY <1>4, <2>1 DEF AttachIs
  <2>3. T.num = [A.num EXCEPT ![f][k0] = @ - 1]
    BY <1>4, <1>6 DEF CreateIs
  <2>4. PICK m : m = [a EXCEPT ![k0] = @ - 1]
    OBVIOUS
  <2>5. T.num = [S.num EXCEPT ![f] = m]
    BY <2>2, <2>3, <2>4, <1>16
  <2>6. \A k \in Kinds : a[k] \in Nat /\ a[k] = S.num[f][k] - n[k]
    BY <2>1, <1>4, <1>16
  <2>7. a[k0] = S.num[f][k0]
    BY <2>6, <1>4, <1>6, <1>16
  <2>8. S.num[f][k0] - 1 \in Nat
    BY <1>6, <1>16 DEF CanCreate
  <2>9. m \in [Kinds -> Nat]
    <3>1. a \in [Kinds -> Nat]
      BY <2>1, <2>6
    <3>2. m = [a EXCEPT ![k0] = a[k0] - 1]
      BY <2>4
    <3>3. a[k0] - 1 \in Nat
      BY <2>7, <2>8
    <3> QED
      BY <3>1, <3>2, <3>3
  <2>10. m[k0] = S.num[f][k0] - 1 /\ \A k \in Kinds : k # k0 => m[k] = S.num[f][k] - n[k]
    BY <2>1, <2>4, <2>6, <2>7
  <2> QED
    BY <2>5, <2>9, <2>10
<1>18. ListsGood(T) /\ T.num \in [Functions -> [Kinds -> Nat]]
  <2>1. T.num \in [Functions -> [Kinds -> Nat]]
    BY <1>16, <1>17
  <2>2. ASSUME NEW g \in Functions, NEW k \in Kinds PROVE T.num[g][k] = Len(T.avail[g][k])
    <3>1. CASE g # f
      <4>1. T.num[g] = S.num[g] /\ T.avail[g] = S.avail[g]
        BY <3>1, <1>7, <1>12, <1>16, <1>17
      <4> QED
        BY <4>1, <1>16
    <3>2. CASE g = f /\ k = k0
      <4>1. T.num[f][k0] = S.num[f][k0] - 1
        BY <1>16, <1>17
      <4> QED
        BY <3>2, <4>1, <1>11, <1>16
    <3>3. CASE g = f /\ k # k0
      <4>1. T.num[f][k] = S.num[f][k] - n[k]
        BY <3>3, <1>16, <1>17
      <4> QED
        BY <3>3, <4>1, <1>13, <1>16
    <3> QED
      BY <3>1, <3>2, <3>3
  <2> QED
    BY <2>1, <2>2, <1>15 DEF ListsGood
<1>19. PICK bits \in SUBSET HistEntries : bits = S.hist[f] /\ bits \in SUBSET Nat
  <2>1. S.hist \in [Functions -> SUBSET HistEntries]
    BY <1>1, Typed
  <2>2. HistEntries \subseteq Nat
    BY NumbersAssumption DEF HistEntries
  <2> QED
    BY <2>1, <2>2
<1>20. /\ r.hist \in Nat /\ r.count \in [Counted -> Nat]
       /\ \A k \in Counted : r.count[k] <= S.count[f][k]
  BY ArgsAssumption DEF CanCreate
<1>21. /\ range \subseteq bits
       /\ r.hist = 0 => range = {}
       /\ r.hist # 0 => Min(range) \in Nat /\ range = Min(range) .. Min(range) + r.hist - 1
  <2>1. r.hist = 0 => Ranges(bits, r.hist) = {}
    BY DEF Ranges
  <2>2. r.hist # 0 => Ranges(bits, r.hist) # {}
    BY <1>19 DEF CanCreate
  <2>3. PICK len \in Nat : len = r.hist
    BY <1>20
  <2>4. range = find_set_bit_range(bits, len)
    BY <2>3, <1>3, <1>19
  <2>5. /\ range \subseteq bits
        /\ Ranges(bits, len) = {} => range = {}
        /\ Ranges(bits, len) # {} =>
             len > 0 /\ Min(range) \in Nat /\ range = Min(range) .. Min(range) + len - 1
    <3>1. RangeIs(bits, len, range)
      BY <2>4, <1>19, RangeFound
    <3> QED
      BY <3>1 DEF RangeIs
  <2> QED
    BY <2>1, <2>2, <2>3, <2>5
<1>22. PICK old \in DomainType : old = S.domain[d] /\ S.domain \in [Domains -> DomainType]
  <2>1. S.domain \in [Domains -> DomainType]
    BY <1>1, Typed DEF DomainType
  <2> QED
    BY <2>1, <1>5
<1>23. PICK new : new = NewDomain(old, r, range)
  OBVIOUS
<1>24. old.hist = NoHist
  BY <1>9, <1>22 DEF Idle
<1>25. /\ new \in DomainType /\ new.parent = f /\ new.configured /\ new.hist.offset = 0
       /\ new.hist.base .. new.hist.base + new.hist.total - 1 = range
  <2>1. PICK c \in [Counted -> Nat] : c = [k \in Counted |-> old.count[k] + r.count[k]]
    <3>1. [k \in Counted |-> old.count[k] + r.count[k]] \in [Counted -> Nat]
      BY <1>20 DEF DomainType
    <3> QED
      BY <3>1
  <2>2. PICK h : h = IF r.hist = 0 THEN old.hist
                     ELSE [base |-> Min(range), total |-> r.hist, offset |-> 0]
    OBVIOUS
  <2>3. h \in [base : Nat, total : Nat, offset : Nat] /\ h.offset = 0
        /\ h.base .. h.base + h.total - 1 = range
    <3>1. CASE r.hist = 0
      <4>1. h = [base |-> 0, total |-> 0, offset |-> 0]
        BY <2>2, <3>1, <1>24 DEF NoHist
      <4> QED
        BY <4>1, <3>1, <1>21
    <3>2. CASE r.hist # 0
      <4>1. h = [base |-> Min(range), total |-> r.hist, offset |-> 0]
        BY <2>2, <3>2
      <4>2. h.base = Min(range) /\ h.total = r.hist /\ h.offset = 0
        BY <4>1
      <4>3. h \in [base : Nat, total : Nat, offset : Nat]
        BY <4>1, <3>2, <1>20, <1>21
      <4>4. h.base .. h.base + h.total - 1 = range
        BY <4>2, <3>2, <1>21
      <4> QED
        BY <4>2, <4>3, <4>4
    <3> QED
      BY <3>1, <3>2
  <2>4. new = [parent |-> old.parent, configured |-> TRUE, hist |-> h, count |-> c,
               used_count |-> old.used_count]
    BY <1>23, <2>1, <2>2 DEF NewDomain
  <2>5. new \in DomainType
    BY <2>3, <2>4 DEF DomainType
  <2> QED
    BY <2>3, <2>4, <2>5, <1>9, <1>22
<1>26. /\ T.domain \in [Domains -> DomainType] /\ T.domain[d] = new
       /\ \A e \in Domains \ {d} : T.domain[e] = S.domain[e]
  <2>1. T.domain = [S.domain EXCEPT ![d] = new]
    BY <1>4, <1>22, <1>23 DEF CreateIs
  <2> QED
    BY <2>1, <1>5, <1>22, <1>25
<1>27. /\ T.hist \in [Functions -> SUBSET HistEntries] /\ T.hist[f] = bits \ range
       /\ \A g \in Functions \ {f} : T.hist[g] = S.hist[g]
  <2>1. S.hist \in [Functions -> SUBSET HistEntries]
    BY <1>1, Typed
  <2>2. T.hist = [S.hist EXCEPT ![f] = bits \ range]
    BY <1>4, <1>19 DEF CreateIs
  <2> QED
    BY <2>1, <2>2, <1>19
<1>28. T.count \in [Functions -> [Counted -> Nat]]
  <2>1. S.count \in [Functions -> [Counted -> Nat]]
    BY <1>1, Typed
  <2>2. PICK c \in [Counted -> Nat] : c = [k \in Counted |-> S.count[f][k] - r.count[k]]
    <3>1. [k \in Counted |-> S.count[f][k] - r.count[k]] \in [Counted -> Nat]
      BY <2>1, <1>20
    <3> QED
      BY <3>1
  <2>3. T.count = [S.count EXCEPT ![f] = c]
    BY <1>4, <2>2 DEF CreateIs
  <2> QED
    BY <2>1, <2>2, <2>3
<1>29. T \in HwType
  <2>1. /\ S.locked \in [Vdevs -> BOOLEAN]
        /\ S.virt_id \in [Things -> Int]
        /\ S.group \in [SnGroups -> GroupType]
        /\ S.sn \in [Members["ldb_queue"] -> [group : SnGroups \cup {"none"}, slot : Nat]]
        /\ S.port_hist \in [UNION {Members[x] : x \in Cos} -> SUBSET HistEntries]
    BY <1>1, Typed
  <2>2. T.domain \in [Domains ->
     [parent : Functions, configured : BOOLEAN,
      hist : [base : Nat, total : Nat, offset : Nat],
      count : [Counted -> Nat], used_count : [Counted -> Nat]]]
    BY <1>26 DEF DomainType
  <2>3. /\ HwRecord(T)
        /\ T.avail \in [Owners -> [Kinds -> Seq(Things)]]
        /\ T.used \in [Owners -> [Kinds -> Seq(Things)]]
        /\ T.locked = S.locked /\ T.virt_id = S.virt_id /\ T.group = S.group
        /\ T.sn = S.sn /\ T.port_hist = S.port_hist
    BY <1>4 DEF CreateIs
  <2> QED
    BY <2>1, <2>2, <2>3, <1>18, <1>27, <1>28, Typed
<1>30. DomainsGood(T)
  <2>1. \A e \in Domains : e # d => T.avail[e] = S.avail[e] /\ T.used[e] = S.used[e]
    BY <1>12, Constants
  <2>2. \A e \in Domains : e # d /\ Idle(S, e) => Idle(T, e)
    BY <2>1, <1>26 DEF Idle
  <2>3. \A e \in Domains : T.avail[e]["sched_domain"] = << >> /\ T.used[e]["sched_domain"] = << >>
    BY <2>1, <1>1, <1>6, <1>14 DEF DomainsGood
  <2>4. ASSUME NEW g \in Functions, NEW e \in ToSet(T.avail[g]["sched_domain"])
        PROVE  T.domain[e].parent = g /\ Idle(T, e)
    <3>1. e \in ToSet(S.avail[g]["sched_domain"]) /\ e # d
      <4>1. CASE g = f
        BY <4>1, <1>6, <1>11
      <4>2. CASE g # f
        BY <4>2, <1>5, <1>6, <1>7, <1>8, <1>12, DomainPlace
      <4> QED
        BY <4>1, <4>2
    <3>2. S.domain[e].parent = g /\ Idle(S, e) /\ e \in Domains
      BY <3>1, <1>1, <1>6, <1>7, <1>8, DomainPlace DEF DomainsGood
    <3> QED
      BY <3>1, <3>2, <2>2, <1>26
  <2>5. ASSUME NEW g \in Functions, NEW e \in ToSet(UsedDomains(T, g))
        PROVE  T.domain[e].parent = g /\ T.domain[e].configured
    <3>1. CASE e = d
      <4>1. g = f
        <5>1. d \notin ToSet(UsedDomains(S, g))
          BY <1>5, <1>6, <1>7, <1>8, DomainPlace
        <5> QED
          BY <3>1, <5>1, <1>7, <1>12 DEF UsedDomains
      <4> QED
        BY <3>1, <4>1, <1>25, <1>26
    <3>2. CASE e # d
      <4>1. e \in ToSet(UsedDomains(S, g))
        BY <3>2, <1>6, <1>7, <1>11, <1>12 DEF UsedDomains
      <4>2. S.domain[e].parent = g /\ S.domain[e].configured /\ e \in Domains
        BY <4>1, <1>1, <1>6, <1>7, <1>8, DomainPlace DEF DomainsGood
      <4> QED
        BY <3>2, <4>2, <1>26
    <3> QED
      BY <3>1, <3>2
  <2>6. \A g \in Functions : \A k \in Kinds \ {"sched_domain"} : T.used[g][k] = << >>
    BY <1>1, <1>6, <1>7, <1>12, <1>13 DEF DomainsGood
  <2> QED
    BY <2>3, <2>4, <2>5, <2>6 DEF DomainsGood
<1>31. /\ DomainHist(S, d) = {} /\ DomainHist(T, d) = range
       /\ \A e \in Domains \ {d} : DomainHist(T, e) = DomainHist(S, e)
  <2>1. DomainHist(S, d) = {}
    <3>1. 0 .. 0 + 0 - 1 = {}
      OBVIOUS
    <3> QED
      BY <3>1, <1>22, <1>24 DEF DomainHist, NoHist
  <2> QED
    BY <2>1, <1>25, <1>26 DEF DomainHist
<1>32. /\ HistOf(S, f) = bits /\ HistOf(S, d) = {}
       /\ HistOf(T, f) = bits \ range /\ HistOf(T, d) = range
       /\ \A o \in Owners \ {f, d} : HistOf(T, o) = HistOf(S, o)
  BY <1>5, <1>7, <1>19, <1>27, <1>31 DEF HistOf, Owners
<1>33. HistGood(T)
  <2>1. \A o \in Owners : HistOf(T, o) \subseteq HistEntries
    BY <1>1, <1>21, <1>32 DEF HistGood
  <2>2. ASSUME NEW o \in Owners, NEW p \in Owners, o # p
        PROVE  HistOf(T, o) \cap HistOf(T, p) = {}
    <3>1. \A q \in Owners \ {f, d} : HistOf(S, q) \cap bits = {}
      BY <1>1, <1>7, <1>32 DEF HistGood
    <3>2. CASE o \in {f, d} /\ p \in {f, d}
      BY <3>2, <2>2, <1>32
    <3>3. CASE o \in {f, d} /\ p \notin {f, d}
      BY <3>1, <3>3, <1>21, <1>32
    <3>4. CASE o \notin {f, d} /\ p \in {f, d}
      BY <3>1, <3>4, <1>21, <1>32
    <3>5. CASE o \notin {f, d} /\ p \notin {f, d}
      BY <3>5, <2>2, <1>1, <1>32 DEF HistGood
    <3> QED
      BY <3>2, <3>3, <3>4, <3>5
  <2>3. ASSUME NEW e \in HistEntries PROVE \E o \in Owners : e \in HistOf(T, o)
    <3>1. PICK o \in Owners : e \in HistOf(S, o)
      BY <1>1 DEF HistGood
    <3>2. CASE o \in {f, d}
      BY <3>1, <3>2, <1>7, <1>32
    <3>3. CASE o \notin {f, d}
      BY <3>1, <3>3, <1>32
    <3> QED
      BY <3>2, <3>3
  <2>4. T.port_hist = S.port_hist
    BY <1>4 DEF CreateIs
  <2>5. \A e \in Domains : PortsInUse(T, e) = PortsInUse(S, e)
    <3>1. \A e \in Domains : T.used[e] = S.used[e]
      BY <1>12, <1>14, Constants
    <3> QED
      BY <3>1 DEF PortsInUse
  <2>6. PortsInUse(S, d) = {}
    <3>1. \A c \in Cos : S.used[d][c] = << >>
      BY <1>9, Constants DEF Idle
    <3>2. ToSet(<< >>) = {}
      BY DEF ToSet
    <3> QED
      BY <3>1, <3>2 DEF PortsInUse
  <2>7. T.domain[d].hist.offset <= T.domain[d].hist.total
    BY <1>25, <1>26 DEF DomainType
  <2>8. \A e \in Domains \ {d} : HandedOut(T, e) = HandedOut(S, e)
    BY <1>26 DEF HandedOut
  <2>9. ASSUME NEW e \in Domains
        PROVE  /\ T.domain[e].hist.offset <= T.domain[e].hist.total
               /\ \A p \in PortsInUse(T, e) : T.port_hist[p] \subseteq HandedOut(T, e)
               /\ \A p, q \in PortsInUse(T, e) :
                    p # q => T.port_hist[p] \cap T.port_hist[q] = {}
    <3>1. CASE e = d
      BY <3>1, <2>5, <2>6, <2>7
    <3>2. CASE e # d
      BY <3>2, <2>4, <2>5, <2>8, <1>1, <1>26 DEF HistGood
    <3> QED
      BY <3>1, <3>2
  <2> QED
    BY <2>1, <2>2, <2>3, <2>9 DEF HistGood
<1>34. ASSUME NEW g \in Functions \ {f} PROVE Keeps(S, T, g)
  <2>1. T.avail[g] = S.avail[g] /\ T.used[g] = S.used[g] /\ T.hist[g] = S.hist[g]
    BY <1>7, <1>12, <1>27
  <2>2. ToSet(UsedDomains(S, g)) \subseteq Domains /\ d \notin ToSet(UsedDomains(S, g))
    BY <1>5, <1>6, <1>7, <1>8, DomainPlace
  <2>3. \A e \in ToSet(UsedDomains(S, g)) :
          T.avail[e] = S.avail[e] /\ T.used[e] = S.used[e]
            /\ T.domain[e].hist = S.domain[e].hist
    BY <2>2, <1>12, <1>26, Constants
  <2>4. SameHolds(S, T, g)
    BY <2>1, <2>2, <2>3, UntouchedHolds
  <2>5. T.virt_id = S.virt_id
    BY <1>4 DEF CreateIs
  <2> QED
    BY <2>4, <2>5 DEF Keeps
<1>35. Keeps(S, T, f)
  <2> DEFINE used == ToSet(UsedDomains(S, f))
             has(U, o, k) == ToSet(U.avail[o][k]) \cup ToSet(U.used[o][k])
  <2>1. ToSet(UsedDomains(T, f)) = used \cup {d} /\ used \subseteq Domains /\ d \notin used
    BY <1>5, <1>6, <1>7, <1>8, <1>11, DomainPlace DEF UsedDomains
  <2> HIDE DEF used
  <2>2. ToSet(<< >>) = {}
    BY DEF ToSet
  <2>3. ASSUME NEW k \in Kinds PROVE Holds(T, f, k) = Holds(S, f, k)
    <3>1. \A e \in used : has(T, e, k) = has(S, e, k)
      BY <2>1, <1>12, Constants
    <3>2. has(T, f, k) \cup has(T, d, k) = has(S, f, k)
      <4>1. S.avail[d][k] = << >> /\ S.used[d][k] = << >>
        BY <1>9 DEF Idle
      <4>2. CASE k = k0
        BY <4>1, <4>2, <2>2, <1>5, <1>6, <1>11, <1>14
      <4>3. CASE k # k0
        BY <4>1, <4>3, <2>2, <1>13
      <4> QED
        BY <4>2, <4>3
    <3> HIDE DEF has
    <3>3. Holds(S, f, k) = has(S, f, k) \cup UNION {has(S, e, k) : e \in used}
      BY DEF Holds, has, used
    <3>4. Holds(T, f, k) = has(T, f, k) \cup UNION {has(T, e, k) : e \in used \cup {d}}
      BY <2>1 DEF Holds, has
    <3>5. UNION {has(T, e, k) : e \in used \cup {d}}
            = has(T, d, k) \cup UNION {has(S, e, k) : e \in used}
      BY <3>1
    <3> QED
      BY <3>2, <3>3, <3>4, <3>5
  <2>4. HoldsHist(T, f) = HoldsHist(S, f)
    <3>1. UNION {DomainHist(T, e) : e \in used \cup {d}}
            = range \cup UNION {DomainHist(S, e) : e \in used}
      BY <2>1, <1>31
    <3>2. HoldsHist(T, f) = T.hist[f] \cup UNION {DomainHist(T, e) : e \in used \cup {d}}
      BY <2>1 DEF HoldsHist
    <3>3. HoldsHist(S, f) = S.hist[f] \cup UNION {DomainHist(S, e) : e \in used}
      BY DEF HoldsHist, used
    <3> QED
      BY <3>1, <3>2, <3>3, <1>19, <1>21, <1>27
  <2>5. T.virt_id = S.virt_id
    BY <1>4 DEF CreateIs
  <2> QED
    BY <2>3, <2>4, <2>5 DEF Keeps, SameHolds
<1>36. T.locked = S.locked
  BY <1>4 DEF CreateIs
<1> QED
  BY <1>18, <1>29, <1>30, <1>33, <1>34, <1>35, <1>36 DEF Good

(* What a domain gives back, per kind.                                     *)
BackEffect(S, T, f, d, k) ==
  /\ Shared(T, k)
  /\ ToSet(T.avail[f][k]) = ToSet(Back(S, d, k)) \cup ToSet(S.avail[f][k])
  /\ ToSet(T.avail[d][k]) = {} /\ ToSet(T.used[d][k]) = {}
  /\ ToSet(T.used[f][k]) = ToSet(S.used[f][k]) \ ToSet(Back(S, d, k))
  /\ Len(T.avail[f][k]) = Len(Back(S, d, k)) + Len(S.avail[f][k])
  /\ Len(Back(S, d, k)) \in Nat
  /\ ToSet(Back(S, d, k)) = IF k = "sched_domain" THEN {d}
                            ELSE ToSet(S.avail[d][k]) \cup ToSet(S.used[d][k])

GivesBack(S, T, f, d, k) ==
  /\ T.avail[f][k] = Back(S, d, k) \o S.avail[f][k]
  /\ T.avail[d][k] = << >> /\ T.used[d][k] = << >>
  /\ T.used[f][k] = IF k = "sched_domain" THEN Unlink(S.used[f][k], d) ELSE S.used[f][k]
  /\ \A o \in Owners \ {f, d} : T.avail[o][k] = S.avail[o][k] /\ T.used[o][k] = S.used[o][k]

(* A domain that gives back what it has of a kind leaves it shared.        *)
LEMMA BackShares ==
  ASSUME NEW S, NEW T, NEW k \in Kinds, NEW f \in Owners, NEW d \in Owners, f # d,
         Shared(S, k), GivesBack(S, T, f, d, k),
         k # "sched_domain" => S.used[f][k] = << >>,
         k = "sched_domain" =>
           d \in ToSet(S.used[f][k]) /\ S.avail[d][k] = << >> /\ S.used[d][k] = << >>
  PROVE  BackEffect(S, T, f, d, k)
<1> DEFINE a == S.avail[f][k]
           u == S.used[f][k]
           x == S.avail[d][k]
           y == S.used[d][k]
           b == Back(S, d, k)
           X == ToSet(a) \cup ToSet(u) \cup ToSet(x) \cup ToSet(y)
<1>1. /\ Listing(a, ToSet(a)) /\ Listing(u, ToSet(u)) /\ Listing(x, ToSet(x))
      /\ Listing(y, ToSet(y))
      /\ ToSet(a) \cap ToSet(u) = {} /\ ToSet(a) \cap ToSet(x) = {} /\ ToSet(a) \cap ToSet(y) = {}
      /\ ToSet(u) \cap ToSet(x) = {} /\ ToSet(u) \cap ToSet(y) = {} /\ ToSet(x) \cap ToSet(y) = {}
  BY DEF Shared, Distinct
<1>2. ToSet(<< >>) = {} /\ Distinct(<< >>)
  <2>1. ToSet(<< >>) = {}
    BY DEF ToSet
  <2> QED
    BY <2>1, ListingNone DEF Distinct
<1>3. /\ Listing(b, ToSet(b)) /\ ToSet(b) \cap ToSet(a) = {}
      /\ ToSet(b) = IF k = "sched_domain" THEN {d} ELSE ToSet(x) \cup ToSet(y)
  <2>1. CASE k = "sched_domain"
    <3>1. b = <<d>>
      BY <2>1 DEF Back
    <3>2. PICK s : s = <<d>>
      OBVIOUS
    <3>3. Listing(s, {d})
      BY <3>2, ListingOne
    <3>4. ToSet(s) = {d}
      BY <3>3 DEF Listing
    <3>5. d \in ToSet(u)
      BY <2>1
    <3> HIDE DEF b, a, u
    <3> QED
      BY <2>1, <3>1, <3>2, <3>3, <3>4, <3>5, <1>1
  <2>2. CASE k # "sched_domain"
    <3>1. PICK r : r = Reverse(x)
      OBVIOUS
    <3>2. Listing(r, ToSet(x))
      BY <1>1, <3>1, ListingReverse
    <3>3. Listing(r \o y, ToSet(x) \cup ToSet(y))
      BY <1>1, <3>2, ListingConcat
    <3>4. b = r \o y
      BY <2>2, <3>1 DEF Back
    <3> HIDE DEF b, x, y, a
    <3>5. ToSet(b) = ToSet(x) \cup ToSet(y)
      BY <3>3, <3>4 DEF Listing
    <3> QED
      BY <2>2, <3>3, <3>4, <3>5, <1>1
  <2> QED
    BY <2>1, <2>2
<1>4. PICK c : c = b \o a
  OBVIOUS
<1>5. Listing(c, ToSet(b) \cup ToSet(a)) /\ Len(c) = Len(b) + Len(a) /\ Len(b) \in Nat
  <2> HIDE DEF a, b
  <2> QED
    BY <1>1, <1>3, <1>4, ListingConcat, ListingEmpty
<1>6. PICK w : w = IF k = "sched_domain" THEN Unlink(u, d) ELSE u
  OBVIOUS
<1>7. Listing(w, ToSet(u) \ ToSet(b))
  <2>1. CASE k = "sched_domain"
    <3>1. Listing(Unlink(u, d), ToSet(u) \ {d})
      BY <1>1, <2>1, ListingUnlink
    <3> HIDE DEF b, u
    <3> QED
      BY <2>1, <3>1, <1>3, <1>6
  <2>2. CASE k # "sched_domain"
    <3>1. w = u /\ ToSet(u) = {}
      BY <2>2, <1>2, <1>6
    <3> HIDE DEF b, u
    <3>2. ToSet(u) \ ToSet(b) = ToSet(u)
      BY <3>1
    <3> QED
      BY <3>1, <3>2, <1>1
  <2> QED
    BY <2>1, <2>2
<1>8. /\ T.avail[f][k] = c /\ T.used[f][k] = w /\ T.avail[d][k] = << >> /\ T.used[d][k] = << >>
      /\ \A o \in Owners \ {f, d} : T.avail[o][k] = S.avail[o][k] /\ T.used[o][k] = S.used[o][k]
      /\ S.avail[f][k] = a /\ S.used[f][k] = u /\ S.avail[d][k] = x /\ S.used[d][k] = y
      /\ Back(S, d, k) = b
  BY <1>4, <1>6 DEF GivesBack
<1>9. k = "sched_domain" => d \in ToSet(u) /\ ToSet(x) = {} /\ ToSet(y) = {}
  BY <1>2
<1>10. k # "sched_domain" => ToSet(u) = {}
  BY <1>2
<1> HIDE DEF a, u, x, y, b
<1>11. ToSet(c) = ToSet(b) \cup ToSet(a) /\ ToSet(w) = ToSet(u) \ ToSet(b)
       /\ Distinct(c) /\ Distinct(w)
  BY <1>5, <1>7 DEF Listing, Distinct
<1>12. ToSet(c) \cap ToSet(w) = {}
  BY <1>1, <1>11
<1>13. ToSet(c) \cup ToSet(w) = X
  <2>1. CASE k = "sched_domain"
    BY <2>1, <1>3, <1>9, <1>11
  <2>2. CASE k # "sched_domain"
    BY <2>2, <1>3, <1>10, <1>11
  <2> QED
    BY <2>1, <2>2
<1>14. Exchanged(S, T, k, f, d)
  <2>1. \A o \in {f, d} : Distinct(T.avail[o][k]) /\ Distinct(T.used[o][k])
    BY <1>2, <1>8, <1>11
  <2>2. \A o, p \in {f, d} :
          /\ ToSet(T.avail[o][k]) \cap ToSet(T.used[p][k]) = {}
          /\ o # p => /\ ToSet(T.avail[o][k]) \cap ToSet(T.avail[p][k]) = {}
                      /\ ToSet(T.used[o][k]) \cap ToSet(T.used[p][k]) = {}
    BY <1>2, <1>8, <1>12
  <2>3. ASSUME NEW r
        PROVE  (\E o \in {f, d} : r \in ToSet(T.avail[o][k]) \/ r \in ToSet(T.used[o][k])) <=>
               (\E o \in {f, d} : r \in ToSet(S.avail[o][k]) \/ r \in ToSet(S.used[o][k]))
    <3>1. (\E o \in {f, d} : r \in ToSet(T.avail[o][k]) \/ r \in ToSet(T.used[o][k])) <=>
            r \in ToSet(c) \cup ToSet(w)
      BY <1>2, <1>8
    <3>2. (\E o \in {f, d} : r \in ToSet(S.avail[o][k]) \/ r \in ToSet(S.used[o][k])) <=> r \in X
      BY <1>8
    <3> QED
      BY <3>1, <3>2, <1>13
  <2> QED
    BY <2>1, <2>2, <2>3, <1>8 DEF Exchanged
<1>15. Shared(T, k)
  BY <1>14, StillShared
<1> QED
  BY <1>2, <1>3, <1>5, <1>8, <1>11, <1>15 DEF BackEffect

Freed(S, d, g) == {S.sn[q].slot : q \in {r \in QueuesInUse(S, d) : S.sn[r].group = g}}
HistRange(S, d) == S.domain[d].hist.base .. S.domain[d].hist.base + S.domain[d].hist.total - 1

(* The record after domain d of function f was reset.                      *)
ResetIs(S, T, f, d) ==
  /\ HwRecord(T) /\ Families(T)
  /\ T.locked = S.locked /\ T.virt_id = S.virt_id
  /\ \A k \in Kinds : GivesBack(S, T, f, d, k)
  /\ \A o \in Owners \ {f, d} : T.avail[o] = S.avail[o] /\ T.used[o] = S.used[o]
  /\ T.num = [S.num EXCEPT ![f] = [k \in Kinds |-> S.num[f][k] + Len(Back(S, d, k))]]
  /\ T.hist = [S.hist EXCEPT ![f] = S.hist[f] \cup HistRange(S, d)]
  /\ T.count = [S.count EXCEPT ![f] =
                  [k \in Counted |-> S.count[f][k] + Returned(S.domain[d], k)]]
  /\ T.domain = [S.domain EXCEPT ![d] =
                   [parent |-> f, configured |-> FALSE, hist |-> NoHist,
                    count |-> [k \in Counted |-> 0], used_count |-> [k \in Counted |-> 0]]]
  /\ T.group = [g \in SnGroups |-> [per_queue |-> S.group[g].per_queue,
                                    used |-> S.group[g].used \ Freed(S, d, g)]]
  /\ T.sn = [q \in DOMAIN S.sn |-> IF q \in QueuesInUse(S, d) THEN NoSlot ELSE S.sn[q]]
  /\ T.port_hist = [p \in DOMAIN S.port_hist |->
                      IF p \in PortsInUse(S, d) THEN {} ELSE S.port_hist[p]]

(* What dlb2_domain_reset_software_state does to each field.               *)
LEMMA ResetFields ==
  ASSUME NEW S \in HwType, NEW d \in Domains, NEW f \in Functions, f = S.domain[d].parent,
         NEW T, T = domain_reset_software_state(S, d)
  PROVE  ResetIs(S, T, f, d)
<1>1. /\ HwRecord(S) /\ S.avail \in [Owners -> [Kinds -> Seq(Things)]]
      /\ S.used \in [Owners -> [Kinds -> Seq(Things)]]
      /\ S.num \in [Functions -> [Kinds -> Nat]]
  BY Typed
<1>2. f \in Owners /\ d \in Owners /\ f # d /\ "sched_domain" \in Kinds
  BY Constants
<1>3. PICK A : A = free_slots(S, d)
  OBVIOUS
<1>4. /\ HwRecord(A) /\ A.avail = S.avail /\ A.used = S.used /\ A.num = S.num
      /\ A.hist = S.hist /\ A.count = S.count /\ A.locked = S.locked
      /\ A.virt_id = S.virt_id /\ A.domain = S.domain /\ A.port_hist = S.port_hist
      /\ A.group = [g \in SnGroups |-> [per_queue |-> S.group[g].per_queue,
                                        used |-> S.group[g].used \ Freed(S, d, g)]]
      /\ A.sn = [q \in DOMAIN S.sn |-> IF q \in QueuesInUse(S, d) THEN NoSlot ELSE S.sn[q]]
  <2>1. PICK groups : groups = [g \in SnGroups |-> [per_queue |-> S.group[g].per_queue,
                                        used |-> S.group[g].used \ Freed(S, d, g)]]
    OBVIOUS
  <2>2. PICK sn : sn = [q \in DOMAIN S.sn |-> IF q \in QueuesInUse(S, d) THEN NoSlot ELSE S.sn[q]]
    OBVIOUS
  <2>3. A = [S EXCEPT !.group = groups, !.sn = sn]
    BY <1>3, <2>1, <2>2 DEF free_slots, Freed
  <2> QED
    BY <1>1, <2>1, <2>2, <2>3 DEF HwRecord
<1>5. PICK none : none = [k \in Kinds |-> << >>]
  OBVIOUS
<1>6. PICK left : left = [S.used[f] EXCEPT !["sched_domain"] = Unlink(UsedDomains(S, f), d)]
  OBVIOUS
<1>7. PICK more : more = [k \in Kinds |-> Back(S, d, k) \o S.avail[f][k]]
  OBVIOUS
<1>8. PICK avail : avail = [S.avail EXCEPT ![f] = more, ![d] = none]
  OBVIOUS
<1>9. PICK used : used = [S.used EXCEPT ![f] = left, ![d] = none]
  OBVIOUS
<1>10. PICK num : num = [S.num EXCEPT ![f] = [k \in Kinds |-> S.num[f][k] + Len(Back(S, d, k))]]
  OBVIOUS
<1>11. PICK ports : ports = [p \in DOMAIN S.port_hist |->
                               IF p \in PortsInUse(S, d) THEN {} ELSE S.port_hist[p]]
  OBVIOUS
<1>12. PICK B : B = reset_lists(A, f, d)
  OBVIOUS
<1>13. B = [A EXCEPT !.avail = avail, !.used = used, !.num = num, !.port_hist = ports]
  <2>1. \A k \in Kinds : Back(A, d, k) = Back(S, d, k)
    BY <1>4 DEF Back
  <2>2. PortsInUse(A, d) = PortsInUse(S, d) /\ UsedDomains(A, f) = UsedDomains(S, f)
    BY <1>4 DEF PortsInUse, UsedDomains
  <2>3. /\ [k \in Kinds |-> Back(A, d, k) \o A.avail[f][k]] = more
        /\ [k \in Kinds |-> A.num[f][k] + Len(Back(A, d, k))]
             = [k \in Kinds |-> S.num[f][k] + Len(Back(S, d, k))]
    BY <2>1, <1>4, <1>7
  <2>4. [A.avail EXCEPT ![f] = [k \in Kinds |-> Back(A, d, k) \o A.avail[f][k]], ![d] = none]
          = avail
    BY <2>3, <1>4, <1>8
  <2>5. [A.used EXCEPT ![f] = [A.used[f] EXCEPT !["sched_domain"]
                                 = Unlink(UsedDomains(A, f), d)], ![d] = none] = used
    BY <2>2, <1>4, <1>6, <1>9
  <2>6. [A.num EXCEPT ![f] = [k \in Kinds |-> A.num[f][k] + Len(Back(A, d, k))]] = num
    BY <2>3, <1>4, <1>10
  <2>7. [p \in DOMAIN A.port_hist |-> IF p \in PortsInUse(A, d) THEN {} ELSE A.port_hist[p]]
          = ports
    BY <2>2, <1>4, <1>11
  <2>8. B = [A EXCEPT
        !.avail = [A.avail EXCEPT
          ![f] = [k \in Kinds |-> Back(A, d, k) \o A.avail[f][k]], ![d] = none],
        !.used = [A.used EXCEPT ![f] = [A.used[f] EXCEPT !["sched_domain"]
                                 = Unlink(UsedDomains(A, f), d)], ![d] = none],
        !.num = [A.num EXCEPT ![f] = [k \in Kinds |-> A.num[f][k] + Len(Back(A, d, k))]],
        !.port_hist = [p \in DOMAIN A.port_hist |->
          IF p \in PortsInUse(A, d) THEN {} ELSE A.port_hist[p]]]
    <3>1. B = [A EXCEPT
        !.avail = [A.avail EXCEPT
          ![f] = [k \in Kinds |-> Back(A, d, k) \o A.avail[f][k]], ![d] = none],
        !.used = [A.used EXCEPT ![f] = [A.used[f] EXCEPT !["sched_domain"]
                                 = Unlink(UsedDomains(A, f), d)], ![d] = none],
        !.num[f] = [k \in Kinds |-> A.num[f][k] + Len(Back(A, d, k))],
        !.port_hist = [p \in DOMAIN A.port_hist |->
          IF p \in PortsInUse(A, d) THEN {} ELSE A.port_hist[p]]]
      BY <1>12, <1>5 DEF reset_lists
    <3> QED
      BY <3>1
  <2> QED
    BY <2>4, <2>5, <2>6, <2>7, <2>8
<1>14. /\ HwRecord(B) /\ B.avail = avail /\ B.used = used /\ B.num = num
       /\ B.hist = S.hist /\ B.count = S.count /\ B.locked = S.locked
       /\ B.virt_id = S.virt_id /\ B.domain = S.domain /\ B.port_hist = ports
       /\ B.group = A.group /\ B.sn = A.sn
  BY <1>4, <1>13 DEF HwRecord
<1>15. PICK hist : hist = [S.hist EXCEPT ![f] = S.hist[f] \cup HistRange(S, d)]
  OBVIOUS
<1>16. PICK count : count = [S.count EXCEPT ![f] =
                  [k \in Counted |-> S.count[f][k] + Returned(S.domain[d], k)]]
  OBVIOUS
<1>17. PICK domain : domain = [S.domain EXCEPT ![d] =
                   [parent |-> f, configured |-> FALSE, hist |-> NoHist,
                    count |-> [k \in Counted |-> 0], used_count |-> [k \in Counted |-> 0]]]
  OBVIOUS
<1>18. T = [B EXCEPT !.hist = hist, !.count = count, !.domain = domain]
  <2>1. T = [B EXCEPT
        !.hist[f] = S.hist[f] \cup HistRange(S, d),
        !.count[f] = [k \in Counted |-> S.count[f][k] + Returned(S.domain[d], k)],
        !.domain[d] = [parent |-> f, configured |-> FALSE, hist |-> NoHist,
                       count |-> [k \in Counted |-> 0], used_count |-> [k \in Counted |-> 0]]]
    BY <1>3, <1>12 DEF domain_reset_software_state, HistRange
  <2> QED
    BY <2>1, <1>14, <1>15, <1>16, <1>17
<1>19. /\ HwRecord(T) /\ T.avail = avail /\ T.used = used /\ T.num = num
       /\ T.hist = hist /\ T.count = count /\ T.locked = S.locked
       /\ T.virt_id = S.virt_id /\ T.domain = domain /\ T.port_hist = ports
       /\ T.group = A.group /\ T.sn = A.sn
  BY <1>14, <1>18 DEF HwRecord
<1>20. /\ avail = [o \in Owners |-> IF o = d THEN none ELSE IF o = f THEN more ELSE S.avail[o]]
       /\ used = [o \in Owners |-> IF o = d THEN none ELSE IF o = f THEN left ELSE S.used[o]]
  BY <1>1, <1>8, <1>9
<1>21. /\ avail[d] = none /\ avail[f] = more /\ used[d] = none /\ used[f] = left
       /\ \A o \in Owners \ {f, d} : avail[o] = S.avail[o] /\ used[o] = S.used[o]
  BY <1>2, <1>20
<1>22. \A k \in Kinds : GivesBack(S, T, f, d, k)
  <2> SUFFICES ASSUME NEW k \in Kinds PROVE GivesBack(S, T, f, d, k)
    OBVIOUS
  <2>1. left[k] = IF k = "sched_domain" THEN Unlink(S.used[f][k], d) ELSE S.used[f][k]
    BY <1>1, <1>2, <1>6 DEF UsedDomains
  <2>2. more[k] = Back(S, d, k) \o S.avail[f][k] /\ none[k] = << >>
    BY <1>5, <1>7
  <2> QED
    BY <2>1, <2>2, <1>19, <1>21 DEF GivesBack
<1>23. Families(T)
  <2>1. /\ none = [k \in Kinds |-> none[k]] /\ more = [k \in Kinds |-> more[k]]
        /\ left = [k \in Kinds |-> left[k]]
    BY <1>1, <1>2, <1>5, <1>6, <1>7
  <2>2. avail = [o \in Owners |-> [k \in Kinds |-> avail[o][k]]]
    <3>1. \A o \in Owners : avail[o] = [k \in Kinds |-> avail[o][k]]
      BY <2>1, <1>1, <1>20
    <3> QED
      BY <3>1, <1>20
  <2>3. used = [o \in Owners |-> [k \in Kinds |-> used[o][k]]]
    <3>1. \A o \in Owners : used[o] = [k \in Kinds |-> used[o][k]]
      BY <2>1, <1>1, <1>20
    <3> QED
      BY <3>1, <1>20
  <2>4. num = [g \in Functions |-> [k \in Kinds |-> num[g][k]]]
    BY <1>1, <1>10
  <2> QED
    BY <2>2, <2>3, <2>4, <1>19 DEF Families
<1> QED
  BY <1>4, <1>10, <1>11, <1>15, <1>16, <1>17, <1>19, <1>21, <1>22, <1>23 DEF ResetIs

ResetDone(S, T, f, d) ==
  /\ Good(T) /\ T.locked = S.locked /\ T.virt_id = S.virt_id
  /\ \A g \in Functions : Keeps(S, T, g)
  /\ UsedDomains(T, f) = Unlink(UsedDomains(S, f), d)
  /\ \A g \in Functions \ {f} : UsedDomains(T, g) = UsedDomains(S, g)

(* A reset domain leaves the books in order, and its function what it had. *)
LEMMA ResetGood ==
  ASSUME NEW S, Good(S), NEW d \in Domains, S.domain[d].configured,
         NEW f \in Functions, f = S.domain[d].parent,
         NEW T, T = domain_reset_software_state(S, d)
  PROVE  ResetDone(S, T, f, d) /\ ResetIs(S, T, f, d)
<1>1. /\ S \in HwType /\ HwRecord(S) /\ ListsGood(S) /\ DomainsGood(S) /\ HistGood(S)
  BY Typed DEF Good
<1>2. ResetIs(S, T, f, d)
  BY <1>1, ResetFields
<1>3. d \in ToSet(UsedDomains(S, f))
  BY ConfiguredIn
<1>4. f \in Owners /\ d \in Owners /\ f # d /\ \A g \in Functions : g # d /\ g \in Owners
  BY Constants
<1>5. PICK k0 \in Kinds : k0 = "sched_domain"
  BY Constants
<1>6. Shared(S, k0) /\ d \in ToSet(S.used[f][k0])
  BY <1>1, <1>3, <1>5 DEF ListsGood, UsedDomains
<1>7. ToSet(<< >>) = {}
  BY DEF ToSet
<1>8. ASSUME NEW k \in Kinds PROVE BackEffect(S, T, f, d, k)
  <2>1. Shared(S, k) /\ GivesBack(S, T, f, d, k)
    BY <1>1, <1>2 DEF ListsGood, ResetIs
  <2>2. k # "sched_domain" => S.used[f][k] = << >>
    BY <1>1 DEF DomainsGood
  <2>3. k = "sched_domain" =>
          d \in ToSet(S.used[f][k]) /\ S.avail[d][k] = << >> /\ S.used[d][k] = << >>
    BY <1>1, <1>5, <1>6 DEF DomainsGood
  <2> QED
    BY <2>1, <2>2, <2>3, <1>4, BackShares
<1>9. /\ \A k \in Kinds : T.avail[d][k] = << >> /\ T.used[d][k] = << >>
      /\ \A k \in Kinds : T.used[f][k] = IF k = "sched_domain" THEN Unlink(S.used[f][k], d)
                                         ELSE S.used[f][k]
      /\ \A o \in Owners \ {f, d} : T.avail[o] = S.avail[o] /\ T.used[o] = S.used[o]
  BY <1>2 DEF ResetIs, GivesBack
<1>10. /\ ToSet(T.avail[f][k0]) = {d} \cup ToSet(S.avail[f][k0])
       /\ ToSet(T.used[f][k0]) = ToSet(S.used[f][k0]) \ {d}
  BY <1>5, <1>8 DEF BackEffect
<1>11. /\ S.num \in [Functions -> [Kinds -> Nat]]
       /\ \A g \in Functions, k \in Kinds : S.num[g][k] = Len(S.avail[g][k])
  BY <1>1, Typed DEF ListsGood
<1>12. ListsGood(T) /\ T.num \in [Functions -> [Kinds -> Nat]]
  <2>1. PICK m : m = [k \in Kinds |-> S.num[f][k] + Len(Back(S, d, k))]
    OBVIOUS
  <2>2. T.num = [S.num EXCEPT ![f] = m]
    BY <2>1, <1>2 DEF ResetIs
  <2>3. \A k \in Kinds : Len(Back(S, d, k)) \in Nat
    BY <1>8 DEF BackEffect
  <2>4. m \in [Kinds -> Nat]
    BY <2>1, <2>3, <1>11
  <2>5. T.num \in [Functions -> [Kinds -> Nat]]
    BY <2>2, <2>4, <1>11
  <2>6. ASSUME NEW g \in Functions, NEW k \in Kinds PROVE T.num[g][k] = Len(T.avail[g][k])
    <3>1. CASE g # f
      BY <3>1, <2>2, <1>4, <1>9, <1>11
    <3>2. CASE g = f
      <4>1. PICK x \in Nat, y \in Nat : x = S.num[f][k] /\ y = Len(Back(S, d, k))
        BY <2>3, <1>11
      <4>2. T.num[f][k] = x + y
        BY <2>1, <2>2, <1>11, <4>1
      <4>3. Len(S.avail[f][k]) = x
        BY <4>1, <1>11
      <4>4. Len(T.avail[f][k]) = y + x
        <5>1. Len(T.avail[f][k]) = Len(Back(S, d, k)) + Len(S.avail[f][k])
          BY <1>8 DEF BackEffect
        <5> QED
          BY <5>1, <4>1, <4>3
      <4>5. x + y = y + x
        OBVIOUS
      <4>6. T.num[f][k] = Len(T.avail[f][k])
        BY <4>2, <4>4, <4>5
      <4> QED
        BY <3>2, <4>6
    <3> QED
      BY <3>1, <3>2
  <2> QED
    BY <2>5, <2>6, <1>8 DEF ListsGood, BackEffect
<1>13. PICK old \in DomainType : old = S.domain[d] /\ S.domain \in [Domains -> DomainType]
  <2>1. S.domain \in [Domains -> DomainType]
    BY <1>1, Typed DEF DomainType
  <2> QED
    BY <2>1
<1>14. PICK new : new = [parent |-> f, configured |-> FALSE, hist |-> NoHist,
                    count |-> [k \in Counted |-> 0], used_count |-> [k \in Counted |-> 0]]
  OBVIOUS
<1>15. new \in DomainType /\ new.parent = f /\ ~new.configured /\ new.hist = NoHist
  BY <1>14 DEF DomainType, NoHist
<1>16. /\ T.domain \in [Domains -> DomainType] /\ T.domain[d] = new
       /\ \A e \in Domains \ {d} : T.domain[e] = S.domain[e]
  <2>1. T.domain = [S.domain EXCEPT ![d] = new]
    BY <1>2, <1>14 DEF ResetIs
  <2> QED
    BY <2>1, <1>13, <1>15
<1>17. PICK range : range = HistRange(S, d)
  OBVIOUS
<1>18. range = DomainHist(S, d) /\ range \in SUBSET HistEntries
  <2>1. range = DomainHist(S, d)
    BY <1>17 DEF HistRange, DomainHist
  <2>2. HistOf(S, d) = DomainHist(S, d)
    BY <1>4, Constants DEF HistOf
  <2> QED
    BY <2>1, <2>2, <1>1, <1>4 DEF HistGood
<1>19. /\ T.hist \in [Functions -> SUBSET HistEntries] /\ T.hist[f] = S.hist[f] \cup range
       /\ \A g \in Functions \ {f} : T.hist[g] = S.hist[g]
  <2>1. S.hist \in [Functions -> SUBSET HistEntries]
    BY <1>1, Typed
  <2>2. T.hist = [S.hist EXCEPT ![f] = S.hist[f] \cup range]
    BY <1>2, <1>17 DEF ResetIs
  <2> QED
    BY <2>1, <2>2, <1>18
<1>20. T.count \in [Functions -> [Counted -> Nat]]
  <2>1. S.count \in [Functions -> [Counted -> Nat]]
    BY <1>1, Typed
  <2>2. \A k \in Counted : Returned(old, k) \in Nat
    BY <1>13 DEF Returned, DomainType
  <2>3. PICK c \in [Counted -> Nat] :
          c = [k \in Counted |-> S.count[f][k] + Returned(S.domain[d], k)]
    <3>1. [k \in Counted |-> S.count[f][k] + Returned(S.domain[d], k)] \in [Counted -> Nat]
      BY <2>1, <2>2, <1>13
    <3> QED
      BY <3>1
  <2>4. T.count = [S.count EXCEPT ![f] = c]
    BY <2>3, <1>2 DEF ResetIs
  <2> QED
    BY <2>1, <2>3, <2>4
<1>21. T.group \in [SnGroups -> GroupType]
  <2>1. S.group \in [SnGroups -> GroupType]
    BY <1>1, Typed
  <2>2. ASSUME NEW g \in SnGroups
        PROVE  [per_queue |-> S.group[g].per_queue, used |-> S.group[g].used \ Freed(S, d, g)]
                 \in GroupType
    <3>1. PICK G \in GroupType : G = S.group[g]
      BY <2>1
    <3>2. PICK X : X = Freed(S, d, g)
      OBVIOUS
    <3>3. [per_queue |-> G.per_queue, used |-> G.used \ X] \in GroupType
      BY <3>1 DEF GroupType, SnSlots
    <3> QED
      BY <3>1, <3>2, <3>3
  <2>3. T.group = [g \in SnGroups |-> [per_queue |-> S.group[g].per_queue,
                                    used |-> S.group[g].used \ Freed(S, d, g)]]
    BY <1>2 DEF ResetIs
  <2> QED
    BY <2>2, <2>3
<1>22. T.sn \in [Members["ldb_queue"] -> [group : SnGroups \cup {"none"}, slot : Nat]]
  <2>1. S.sn \in [Members["ldb_queue"] -> [group : SnGroups \cup {"none"}, slot : Nat]]
    BY <1>1, Typed
  <2>2. NoSlot \in [group : SnGroups \cup {"none"}, slot : Nat]
    BY DEF NoSlot
  <2>3. T.sn = [q \in DOMAIN S.sn |-> IF q \in QueuesInUse(S, d) THEN NoSlot ELSE S.sn[q]]
    BY <1>2 DEF ResetIs
  <2> QED
    BY <2>1, <2>2, <2>3
<1>23. /\ T.port_hist \in [UNION {Members[x] : x \in Cos} -> SUBSET HistEntries]
       /\ \A p \in DOMAIN S.port_hist :
            p \notin PortsInUse(S, d) => T.port_hist[p] = S.port_hist[p]
       /\ DOMAIN S.port_hist = UNION {Members[x] : x \in Cos}
  <2>1. S.port_hist \in [UNION {Members[x] : x \in Cos} -> SUBSET HistEntries]
    BY <1>1, Typed
  <2>2. T.port_hist = [p \in DOMAIN S.port_hist |->
                      IF p \in PortsInUse(S, d) THEN {} ELSE S.port_hist[p]]
    BY <1>2 DEF ResetIs
  <2> QED
    BY <2>1, <2>2
<1>24. T \in HwType
  <2>1. \A o \in Owners, x \in Kinds : T.avail[o][x] \in Seq(Things) /\ T.used[o][x] \in Seq(Things)
    <3> SUFFICES ASSUME NEW o \in Owners, NEW x \in Kinds
                 PROVE  T.avail[o][x] \in Seq(Things) /\ T.used[o][x] \in Seq(Things)
      OBVIOUS
    <3>1. Shared(T, x) /\ Members[x] \subseteq Things
      BY <1>12, Constants DEF ListsGood
    <3>2. /\ T.avail[o][x] \in Seq(ToSet(T.avail[o][x])) /\ ToSet(T.avail[o][x]) \subseteq Things
          /\ T.used[o][x] \in Seq(ToSet(T.used[o][x])) /\ ToSet(T.used[o][x]) \subseteq Things
      BY <3>1 DEF Shared, Distinct, Listing
    <3> QED
      BY <3>2
  <2>2. /\ T.avail \in [Owners -> [Kinds -> Seq(Things)]]
        /\ T.used \in [Owners -> [Kinds -> Seq(Things)]]
    <3>1. Families(T)
      BY <1>2 DEF ResetIs
    <3> QED
      BY <2>1, <3>1 DEF Families
  <2>3. S.locked \in [Vdevs -> BOOLEAN] /\ S.virt_id \in [Things -> Int]
    BY <1>1, Typed
  <2>4. HwRecord(T) /\ T.locked = S.locked /\ T.virt_id = S.virt_id
    BY <1>2 DEF ResetIs
  <2>5. T.domain \in [Domains ->
     [parent : Functions, configured : BOOLEAN,
      hist : [base : Nat, total : Nat, offset : Nat],
      count : [Counted -> Nat], used_count : [Counted -> Nat]]]
    BY <1>16 DEF DomainType
  <2> QED
    BY <2>2, <2>3, <2>4, <2>5, <1>12, <1>19, <1>20, <1>21, <1>22, <1>23, Typed
<1>25. /\ UsedDomains(T, f) = Unlink(UsedDomains(S, f), d)
       /\ \A g \in Functions \ {f} : UsedDomains(T, g) = UsedDomains(S, g)
  BY <1>4, <1>5, <1>9 DEF UsedDomains
<1>26. Idle(T, d)
  BY <1>9, <1>15, <1>16 DEF Idle
<1>27. DomainsGood(T)
  <2>1. \A e \in Domains : e # d => T.avail[e] = S.avail[e] /\ T.used[e] = S.used[e]
    BY <1>9, Constants
  <2>2. \A e \in Domains : Idle(S, e) => Idle(T, e)
    BY <2>1, <1>16, <1>26 DEF Idle
  <2>3. \A e \in Domains : T.avail[e]["sched_domain"] = << >> /\ T.used[e]["sched_domain"] = << >>
    BY <2>1, <1>1, <1>5, <1>9 DEF DomainsGood
  <2>4. ASSUME NEW g \in Functions, NEW e \in ToSet(T.avail[g]["sched_domain"])
        PROVE  T.domain[e].parent = g /\ Idle(T, e)
    <3>1. CASE e = d
      <4>1. g = f
        <5>1. d \notin ToSet(S.avail[g]["sched_domain"])
          BY <1>4, <1>5, <1>6, DomainPlace DEF UsedDomains
        <5> QED
          BY <3>1, <5>1, <1>4, <1>9
      <4> QED
        BY <3>1, <4>1, <1>15, <1>16, <1>26
    <3>2. CASE e # d
      <4>1. e \in ToSet(S.avail[g]["sched_domain"])
        BY <3>2, <1>4, <1>5, <1>9, <1>10
      <4>2. S.domain[e].parent = g /\ Idle(S, e) /\ e \in Domains
        BY <4>1, <1>1, <1>4, <1>5, <1>6, DomainPlace DEF DomainsGood
      <4> QED
        BY <3>2, <4>2, <2>2, <1>16
    <3> QED
      BY <3>1, <3>2
  <2>5. ASSUME NEW g \in Functions, NEW e \in ToSet(UsedDomains(T, g))
        PROVE  T.domain[e].parent = g /\ T.domain[e].configured
    <3>1. e \in ToSet(UsedDomains(S, g)) /\ e # d
      <4>1. CASE g = f
        BY <4>1, <1>5, <1>10 DEF UsedDomains
      <4>2. CASE g # f
        <5>1. UsedDomains(T, g) = UsedDomains(S, g)
          BY <4>2, <1>25
        <5> QED
          BY <5>1, <4>2, <1>3, <1>4, <1>5, <1>6, DomainPlace
      <4> QED
        BY <4>1, <4>2
    <3>2. S.domain[e].parent = g /\ S.domain[e].configured /\ e \in Domains
      BY <3>1, <1>1, <1>4, <1>5, <1>6, DomainPlace DEF DomainsGood
    <3> QED
      BY <3>1, <3>2, <1>16
  <2>6. \A g \in Functions : \A k \in Kinds \ {"sched_domain"} : T.used[g][k] = << >>
    BY <1>1, <1>4, <1>9 DEF DomainsGood
  <2> QED
    BY <2>3, <2>4, <2>5, <2>6 DEF DomainsGood
<1>28. /\ DomainHist(T, d) = {} /\ DomainHist(S, d) = range
       /\ \A e \in Domains \ {d} : DomainHist(T, e) = DomainHist(S, e)
  <2>1. 0 .. 0 + 0 - 1 = {}
    OBVIOUS
  <2>2. DomainHist(T, d) = {}
    BY <2>1, <1>15, <1>16 DEF DomainHist, NoHist
  <2> QED
    BY <2>2, <1>16, <1>18 DEF DomainHist
<1>29. /\ HistOf(S, d) = range /\ HistOf(T, f) = HistOf(S, f) \cup range /\ HistOf(T, d) = {}
       /\ \A o \in Owners \ {f, d} : HistOf(T, o) = HistOf(S, o)
  BY <1>4, <1>19, <1>28, Constants DEF HistOf, Owners
<1>30. HistGood(T)
  <2>1. \A o \in Owners : HistOf(T, o) \subseteq HistEntries
    BY <1>1, <1>4, <1>18, <1>29 DEF HistGood
  <2>2. ASSUME NEW o \in Owners, NEW p \in Owners, o # p
        PROVE  HistOf(T, o) \cap HistOf(T, p) = {}
    <3>1. \A q \in Owners \ {f, d} : HistOf(S, q) \cap (HistOf(S, f) \cup range) = {}
      BY <1>1, <1>4, <1>29 DEF HistGood
    <3>2. CASE o = d \/ p = d
      BY <3>2, <1>29
    <3>3. CASE o = f /\ p \notin {f, d}
      BY <3>1, <3>3, <1>29
    <3>4. CASE p = f /\ o \notin {f, d}
      BY <3>1, <3>4, <1>29
    <3>5. CASE o \notin {f, d} /\ p \notin {f, d}
      BY <3>5, <2>2, <1>1, <1>29 DEF HistGood
    <3> QED
      BY <2>2, <3>2, <3>3, <3>4, <3>5
  <2>3. ASSUME NEW e \in HistEntries PROVE \E o \in Owners : e \in HistOf(T, o)
    <3>1. PICK o \in Owners : e \in HistOf(S, o)
      BY <1>1 DEF HistGood
    <3>2. CASE o \in {f, d}
      BY <3>1, <3>2, <1>4, <1>29
    <3>3. CASE o \notin {f, d}
      BY <3>1, <3>3, <1>29
    <3> QED
      BY <3>2, <3>3
  <2>4. \A e \in Domains \ {d} : /\ PortsInUse(T, e) = PortsInUse(S, e)
                                 /\ HandedOut(T, e) = HandedOut(S, e)
    <3>1. \A e \in Domains \ {d} : T.used[e] = S.used[e]
      BY <1>9, Constants
    <3> QED
      BY <3>1, <1>16 DEF PortsInUse, HandedOut
  <2>5. PortsInUse(T, d) = {}
    BY <1>7, <1>9, Constants DEF PortsInUse
  <2>6. ASSUME NEW e \in Domains \ {d}, NEW p \in PortsInUse(S, e)
        PROVE  T.port_hist[p] = S.port_hist[p]
    <3>1. PICK c \in Cos : p \in ToSet(S.used[e][c])
      BY DEF PortsInUse
    <3>2. c \in Kinds /\ e \in Owners
      BY <3>1, Constants
    <3>3. p \in Members[c]
      <4>1. Shared(S, c)
        BY <3>2, <1>1 DEF ListsGood
      <4> QED
        BY <3>1, <3>2, <4>1 DEF Shared
    <3>4. p \in DOMAIN S.port_hist
      BY <3>1, <3>3, <1>23
    <3>5. p \notin PortsInUse(S, d)
      <4> SUFFICES ASSUME NEW b \in Cos, p \in ToSet(S.used[d][b]) PROVE FALSE
        BY DEF PortsInUse
      <4>1. b \in Kinds
        BY Constants
      <4>2. Shared(S, b) /\ Shared(S, c)
        BY <3>2, <4>1, <1>1 DEF ListsGood
      <4>3. p \in Members[b]
        BY <4>2, <1>4 DEF Shared
      <4>4. b = c
        BY <4>1, <4>3, <3>2, <3>3, Constants
      <4> QED
        BY <4>2, <4>4, <3>1, <3>2, <1>4 DEF Shared
    <3> QED
      BY <3>4, <3>5, <1>23
  <2>7. T.domain[d].hist.offset <= T.domain[d].hist.total
    BY <1>15, <1>16 DEF NoHist
  <2>8. ASSUME NEW e \in Domains
        PROVE  /\ T.domain[e].hist.offset <= T.domain[e].hist.total
               /\ \A p \in PortsInUse(T, e) : T.port_hist[p] \subseteq HandedOut(T, e)
               /\ \A p, q \in PortsInUse(T, e) :
                    p # q => T.port_hist[p] \cap T.port_hist[q] = {}
    <3>1. CASE e = d
      BY <3>1, <2>5, <2>7
    <3>2. CASE e # d
      BY <3>2, <2>4, <2>6, <1>1, <1>16 DEF HistGood
    <3> QED
      BY <3>1, <3>2
  <2> QED
    BY <2>1, <2>2, <2>3, <2>8 DEF HistGood
<1>31. T.virt_id = S.virt_id /\ T.locked = S.locked
  BY <1>2 DEF ResetIs
<1>32. ASSUME NEW g \in Functions \ {f} PROVE Keeps(S, T, g)
  <2>1. T.avail[g] = S.avail[g] /\ T.used[g] = S.used[g] /\ T.hist[g] = S.hist[g]
    BY <1>4, <1>9, <1>19
  <2>2. ToSet(UsedDomains(S, g)) \subseteq Domains /\ d \notin ToSet(UsedDomains(S, g))
    BY <1>3, <1>4, <1>5, <1>6, DomainPlace
  <2>3. \A e \in ToSet(UsedDomains(S, g)) :
          T.avail[e] = S.avail[e] /\ T.used[e] = S.used[e]
            /\ T.domain[e].hist = S.domain[e].hist
    BY <2>2, <1>9, <1>16, Constants
  <2> QED
    BY <2>1, <2>2, <2>3, <1>31, UntouchedHolds DEF Keeps
<1>33. Keeps(S, T, f)
  <2> DEFINE used == ToSet(UsedDomains(S, f))
             has(U, o, k) == ToSet(U.avail[o][k]) \cup ToSet(U.used[o][k])
  <2>1. ToSet(UsedDomains(T, f)) = used \ {d} /\ used \subseteq Domains /\ d \in used
    BY <1>3, <1>4, <1>5, <1>6, <1>10, DomainPlace DEF UsedDomains
  <2> HIDE DEF used
  <2>2. PICK rest : rest = used \ {d}
    OBVIOUS
  <2>3. rest \cup {d} = used /\ \A e \in rest : e \in Domains \ {d}
    BY <2>1, <2>2
  <2>4. ASSUME NEW k \in Kinds PROVE Holds(T, f, k) = Holds(S, f, k)
    <3>1. \A e \in rest : has(T, e, k) = has(S, e, k)
      BY <2>3, <1>9, Constants
    <3>2. has(T, f, k) = has(S, f, k) \cup has(S, d, k)
      <4>1. BackEffect(S, T, f, d, k)
        BY <1>8
      <4>2. CASE k = "sched_domain"
        <5>1. S.avail[d][k] = << >> /\ S.used[d][k] = << >> /\ d \in ToSet(S.used[f][k])
          BY <4>2, <1>1, <1>5, <1>6 DEF DomainsGood
        <5> QED
          BY <4>1, <4>2, <5>1, <1>7 DEF BackEffect
      <4>3. CASE k # "sched_domain"
        <5>1. S.used[f][k] = << >>
          BY <4>3, <1>1 DEF DomainsGood
        <5> QED
          BY <4>1, <4>3, <5>1, <1>7 DEF BackEffect
      <4> QED
        BY <4>2, <4>3
    <3> HIDE DEF has
    <3>3. Holds(S, f, k) = has(S, f, k) \cup UNION {has(S, e, k) : e \in used}
      BY DEF Holds, has, used
    <3>4. Holds(T, f, k) = has(T, f, k) \cup UNION {has(T, e, k) : e \in rest}
      BY <2>1, <2>2 DEF Holds, has
    <3>5. UNION {has(S, e, k) : e \in rest \cup {d}}
            = has(S, d, k) \cup UNION {has(T, e, k) : e \in rest}
      BY <3>1
    <3> QED
      BY <3>2, <3>3, <3>4, <3>5, <2>3
  <2>5. HoldsHist(T, f) = HoldsHist(S, f)
    <3>1. UNION {DomainHist(S, e) : e \in rest \cup {d}}
            = range \cup UNION {DomainHist(T, e) : e \in rest}
      BY <2>3, <1>28
    <3>2. HoldsHist(T, f) = T.hist[f] \cup UNION {DomainHist(T, e) : e \in rest}
      BY <2>1, <2>2 DEF HoldsHist
    <3>3. HoldsHist(S, f) = S.hist[f] \cup UNION {DomainHist(S, e) : e \in used}
      BY DEF HoldsHist, used
    <3> QED
      BY <3>1, <3>2, <3>3, <2>3, <1>19
  <2> QED
    BY <2>4, <2>5, <1>31 DEF Keeps, SameHolds
<1> QED
  BY <1>2, <1>12, <1>24, <1>25, <1>27, <1>30, <1>31, <1>32, <1>33 DEF Good, ResetDone

-----------------------------------------------------------------------------
(* Counts                                                                  *)

(* What the functions have of a count, what their domains have left of it, *)
(* and what these use.                                                     *)
Given(S, k) == SumFunction([f \in Functions |-> S.count[f][k]])
Remaining(S, k) == SumFunction([d \in Domains |-> S.domain[d].count[k]])
Consumed(S, k) == SumFunction([d \in Domains |-> S.domain[d].used_count[k]])

(* How much of it there is.                                                *)
Capacity(S, k) == IF k \in SnGroups THEN SnTotal \div S.group[k].per_queue ELSE Amount[k]

Balanced(S, k) == Given(S, k) + Remaining(S, k) + Consumed(S, k) = Capacity(S, k)

(* The queues that have a slot of group g.                                 *)
SlotUsers(S, d, g) == {q \in QueuesInUse(S, d) : S.sn[q].group = g}
Users(S, g) == UNION {SlotUsers(S, d, g) : d \in Domains}

(* Slots and queues correspond, and they are what the counts say.          *)
SlotsGood(S, g) ==
  /\ \A q \in Users(S, g) : S.sn[q].slot \in S.group[g].used
  /\ \A s \in S.group[g].used : \E q \in Users(S, g) : S.sn[q].slot = s
  /\ \A p, q \in Users(S, g) : S.sn[p].slot = S.sn[q].slot => p = q
  /\ \A d \in Domains : S.domain[d].used_count[g] = Cardinality(SlotUsers(S, d, g))
  /\ Consumed(S, g) = Cardinality(S.group[g].used)

CountsGood(S) ==
  /\ \A k \in Counted : Balanced(S, k)
  /\ \A g \in SnGroups : SlotsGood(S, g)

(* Sums are over functions and domains.                                    *)
LEMMA Finite ==
  /\ IsFiniteSet(Functions) /\ IsFiniteSet(Domains)
  /\ IsFiniteSet(Members["ldb_queue"])
<1>1. IsFiniteSet(Vdevs) /\ IsFiniteSet({PF})
  BY MembersAssumption, FS_Singleton
<1>2. IsFiniteSet(Functions)
  BY <1>1, FS_Union DEF Functions
<1> QED
  BY <1>2, MembersAssumption, Constants DEF Domains

(* The values whose sums are taken.                                        *)
GivenBy(S, k) == [f \in Functions |-> S.count[f][k]]
RemainingBy(S, k) == [d \in Domains |-> S.domain[d].count[k]]
ConsumedBy(S, k) == [d \in Domains |-> S.domain[d].used_count[k]]

(* The three sums are sums of numbers.                                     *)
LEMMA SumsTyped ==
  ASSUME NEW S \in HwType, NEW k \in Counted
  PROVE  /\ GivenBy(S, k) \in [Functions -> Int] /\ Given(S, k) = SumFunction(GivenBy(S, k))
         /\ RemainingBy(S, k) \in [Domains -> Int]
         /\ Remaining(S, k) = SumFunction(RemainingBy(S, k))
         /\ ConsumedBy(S, k) \in [Domains -> Int]
         /\ Consumed(S, k) = SumFunction(ConsumedBy(S, k))
         /\ Given(S, k) \in Int /\ Remaining(S, k) \in Int /\ Consumed(S, k) \in Int
         /\ \A f \in Functions : S.count[f][k] \in Nat
         /\ \A d \in Domains : S.domain[d].count[k] \in Nat /\ S.domain[d].used_count[k] \in Nat
<1>1. \A f \in Functions : S.count[f][k] \in Nat
  <2>1. S.count \in [Functions -> [Counted -> Nat]]
    BY Typed
  <2> QED
    BY <2>1
<1>2. \A d \in Domains : S.domain[d].count[k] \in Nat /\ S.domain[d].used_count[k] \in Nat
  <2>1. \A d \in Domains : S.domain[d].count \in [Counted -> Nat]
                             /\ S.domain[d].used_count \in [Counted -> Nat]
    <3>1. S.domain \in [Domains -> DomainType]
      BY Typed DEF DomainType
    <3>2. \A d \in Domains : S.domain[d] \in DomainType
      BY <3>1
    <3> QED
      BY <3>2 DEF DomainType
  <2> QED
    BY <2>1
<1>3. GivenBy(S, k) \in [Functions -> Int] /\ Given(S, k) = SumFunction(GivenBy(S, k))
  BY <1>1 DEF GivenBy, Given
<1>4. /\ RemainingBy(S, k) \in [Domains -> Int]
      /\ Remaining(S, k) = SumFunction(RemainingBy(S, k))
  BY <1>2 DEF RemainingBy, Remaining
<1>5. ConsumedBy(S, k) \in [Domains -> Int] /\ Consumed(S, k) = SumFunction(ConsumedBy(S, k))
  BY <1>2 DEF ConsumedBy, Consumed
<1>6. Given(S, k) \in Int /\ Remaining(S, k) \in Int /\ Consumed(S, k) \in Int
  BY <1>3, <1>4, <1>5, Finite, SumIsInt
<1> QED
  BY <1>1, <1>2, <1>3, <1>4, <1>5, <1>6

(* The capacity of a group is the number of its slots.                     *)
LEMMA SlotsFinite ==
  ASSUME NEW S \in HwType, NEW g \in SnGroups
  PROVE  /\ Capacity(S, g) \in Nat /\ Cardinality(SnSlots(S.group[g])) = Capacity(S, g)
         /\ IsFiniteSet(SnSlots(S.group[g])) /\ IsFiniteSet(S.group[g].used)
         /\ S.group[g].used \subseteq SnSlots(S.group[g])
         /\ S.group[g].per_queue \in Nat \ {0} /\ g \in Counted
         /\ Capacity(S, g) = SnTotal \div S.group[g].per_queue
<1>1. S.group[g] \in GroupType
  BY Typed
<1>2. PICK m \in SnModes : m = S.group[g].per_queue
  BY <1>1 DEF GroupType
<1>3. m \in Nat \ {0} /\ SnTotal \in Nat
  BY SnAssumption
<1>4. PICK n \in Nat : n = SnTotal \div m
  BY <1>3
<1>5. SnSlots(S.group[g]) = 0 .. n - 1
  BY <1>2, <1>4 DEF SnSlots
<1>6. IsFiniteSet(0 .. n - 1) /\ Cardinality(0 .. n - 1) = n
  BY FS_Interval
<1>7. S.group[g].used \subseteq SnSlots(S.group[g])
  BY <1>1 DEF GroupType
<1>8. IsFiniteSet(S.group[g].used)
  BY <1>5, <1>6, <1>7, FS_Subset
<1> QED
  BY <1>2, <1>3, <1>4, <1>5, <1>6, <1>7, <1>8 DEF Capacity, Counted

(* The queues that have slots, domain by domain.                           *)
LEMMA UsersFinite ==
  ASSUME NEW S, Shared(S, "ldb_queue"), NEW g
  PROVE  /\ \A d \in Domains : /\ QueuesInUse(S, d) \subseteq Members["ldb_queue"]
                               /\ IsFiniteSet(SlotUsers(S, d, g))
         /\ \A d, e \in Domains : d # e => QueuesInUse(S, d) \cap QueuesInUse(S, e) = {}
         /\ IsFiniteSet(Users(S, g))
<1>1. \A d \in Domains : QueuesInUse(S, d) \subseteq Members["ldb_queue"]
  BY Constants DEF Shared, QueuesInUse
<1>2. \A d \in Domains : SlotUsers(S, d, g) \in SUBSET Members["ldb_queue"]
  BY <1>1 DEF SlotUsers
<1>3. \A d \in Domains : IsFiniteSet(SlotUsers(S, d, g))
  BY <1>2, Finite, FS_Subset
<1>4. Users(S, g) \in SUBSET Members["ldb_queue"]
  BY <1>2 DEF Users
<1>5. IsFiniteSet(Users(S, g))
  BY <1>4, Finite, FS_Subset
<1>6. \A d, e \in Domains : d # e => QueuesInUse(S, d) \cap QueuesInUse(S, e) = {}
  BY Constants DEF Shared, QueuesInUse
<1> QED
  BY <1>1, <1>3, <1>5, <1>6

(* An injection does not change the number.                                *)
LEMMA ImageSize ==
  ASSUME NEW X, IsFiniteSet(X), NEW f, \A x, y \in X : f[x].slot = f[y].slot => x = y
  PROVE  /\ IsFiniteSet({f[x].slot : x \in X})
         /\ Cardinality({f[x].slot : x \in X}) = Cardinality(X)
<1>1. PICK Y : Y = {f[x].slot : x \in X}
  OBVIOUS
<1>2. PICK h : h = [x \in X |-> f[x].slot]
  OBVIOUS
<1>3. h \in [X -> Y] /\ \A x \in X : h[x] = f[x].slot
  BY <1>1, <1>2
<1>4. \A y \in Y : \E x \in X : h[x] = y
  BY <1>1, <1>3
<1>5. \A x, y \in X : h[x] = h[y] => x = y
  BY <1>3
<1>6. h \in Surjection(X, Y)
  BY <1>3, <1>4 DEF Surjection
<1>7. h \in Injection(X, Y)
  BY <1>3, <1>5 DEF Injection, IsInjective
<1> QED
  BY <1>1, <1>6, <1>7, FS_Surjection

(* What is said of counts depends on these only.                           *)
SameCounts(S, T) ==
  /\ T.count = S.count /\ T.group = S.group /\ T.sn = S.sn
  /\ \A d \in Domains : /\ T.domain[d].count = S.domain[d].count
                        /\ T.domain[d].used_count = S.domain[d].used_count
                        /\ QueuesInUse(T, d) = QueuesInUse(S, d)

SameSlots(S, T) ==
  /\ T.sn = S.sn /\ \A g \in SnGroups : T.group[g].used = S.group[g].used
  /\ \A d \in Domains : /\ T.domain[d].used_count = S.domain[d].used_count
                        /\ QueuesInUse(T, d) = QueuesInUse(S, d)

(* What is said of slots depends on these only.                            *)
LEMMA SameSlotsGood ==
  ASSUME NEW S, NEW T, SameSlots(S, T)
  PROVE  /\ \A k : Consumed(T, k) = Consumed(S, k)
         /\ \A g \in SnGroups : SlotsGood(S, g) => SlotsGood(T, g)
<1>1. \A k : Consumed(T, k) = Consumed(S, k)
  <2> TAKE k
  <2>1. [d \in Domains |-> T.domain[d].used_count[k]] = [d \in Domains |-> S.domain[d].used_count[k]]
    BY DEF SameSlots
  <2> QED
    BY <2>1 DEF Consumed
<1>2. ASSUME NEW g \in SnGroups, SlotsGood(S, g)
      PROVE  SlotsGood(T, g)
  <2>1. \A d \in Domains : SlotUsers(T, d, g) = SlotUsers(S, d, g)
    BY DEF SlotUsers, SameSlots
  <2>2. Users(T, g) = Users(S, g)
    BY <2>1 DEF Users
  <2> QED
    BY <1>1, <1>2, <2>1, <2>2 DEF SlotsGood, SameSlots
<1> QED
  BY <1>1, <1>2

(* And what is said of counts on those above.                              *)
LEMMA SameCountsGood ==
  ASSUME NEW S, NEW T, SameCounts(S, T), CountsGood(S)
  PROVE  CountsGood(T)
<1>1. SameSlots(S, T)
  BY DEF SameSlots, SameCounts
<1>2. ASSUME NEW k \in Counted
      PROVE  Balanced(T, k)
  <2>1. Given(T, k) = Given(S, k) /\ Capacity(T, k) = Capacity(S, k)
    BY DEF Given, Capacity, SameCounts
  <2>2. [d \in Domains |-> T.domain[d].count[k]] = [d \in Domains |-> S.domain[d].count[k]]
    BY DEF SameCounts
  <2>3. Remaining(T, k) = Remaining(S, k)
    BY <2>2 DEF Remaining
  <2> QED
    BY <1>1, <2>1, <2>3, SameSlotsGood DEF Balanced, CountsGood
<1> QED
  BY <1>1, <1>2, SameSlotsGood DEF CountsGood

(* An exchange of counts keeps them in balance.                            *)
LEMMA MovedCountsGood ==
  ASSUME NEW S \in HwType, NEW T \in HwType, CountsGood(S), NEW v \in Vdevs,
         MovedCounts(S, T, v)
  PROVE  CountsGood(T)
<1>1. SameSlots(S, T)
  BY DEF MovedCounts, SameSlots, QueuesInUse
<1>2. ASSUME NEW k \in Counted
      PROVE  Balanced(T, k)
  <2>1. [d \in Domains |-> T.domain[d].count[k]] = [d \in Domains |-> S.domain[d].count[k]]
    BY DEF MovedCounts
  <2>2. Remaining(T, k) = Remaining(S, k)
    BY <2>1 DEF Remaining
  <2>3. Capacity(T, k) = Capacity(S, k)
    BY DEF Capacity, MovedCounts
  <2>4. Given(T, k) = Given(S, k)
    <3>1. PICK f \in [Functions -> Int] : f = GivenBy(S, k)
      BY SumsTyped
    <3>2. PICK e \in [Functions -> Int] : e = GivenBy(T, k)
      BY SumsTyped
    <3>3. PF \in Functions /\ v \in Functions /\ PF # v
      BY Constants
    <3>4. /\ \A x \in Functions \ {PF, v} : e[x] = f[x]
          /\ e[PF] + e[v] = f[PF] + f[v]
      BY <3>1, <3>2, <3>3 DEF MovedCounts, GivenBy
    <3>5. SumFunction(e) = SumFunction(f) + (e[PF] - f[PF]) + (e[v] - f[v])
      BY <3>3, <3>4, Finite, SumChangeTwo
    <3>6. SumFunction(f) \in Int
      BY Finite, SumIsInt
    <3>7. e[PF] \in Int /\ e[v] \in Int /\ f[PF] \in Int /\ f[v] \in Int
      BY <3>3
    <3>8. SumFunction(e) = SumFunction(f)
      BY <3>4, <3>5, <3>6, <3>7
    <3> QED
      BY <3>1, <3>2, <3>8, SumsTyped
  <2> QED
    BY <1>1, <2>2, <2>3, <2>4, SameSlotsGood DEF Balanced, CountsGood
<1> QED
  BY <1>1, <1>2, SameSlotsGood DEF CountsGood

(* A function hands counts to a domain or takes them back.                 *)
LEMMA GivenChange ==
  ASSUME NEW S \in HwType, NEW T \in HwType, NEW k \in Counted, NEW f \in Functions,
         \A g \in Functions \ {f} : T.count[g] = S.count[g]
  PROVE  Given(T, k) = Given(S, k) + T.count[f][k] - S.count[f][k]
<1>1. PICK a \in [Functions -> Int] : a = GivenBy(S, k)
  BY SumsTyped
<1>2. PICK b \in [Functions -> Int] : b = GivenBy(T, k)
  BY SumsTyped
<1>3. \A g \in Functions \ {f} : b[g] = a[g]
  BY <1>1, <1>2 DEF GivenBy
<1>4. SumFunction(b) = SumFunction(a) + b[f] - a[f]
  BY <1>3, Finite, SumChange
<1>5. a[f] = S.count[f][k] /\ b[f] = T.count[f][k]
  BY <1>1, <1>2 DEF GivenBy
<1> QED
  BY <1>1, <1>2, <1>4, <1>5, SumsTyped

(* One domain's counts change.                                             *)
LEMMA DomainChange ==
  ASSUME NEW S \in HwType, NEW T \in HwType, NEW k \in Counted, NEW d \in Domains,
         \A e \in Domains \ {d} : T.domain[e] = S.domain[e]
  PROVE  /\ Remaining(T, k) = Remaining(S, k) + T.domain[d].count[k] - S.domain[d].count[k]
         /\ Consumed(T, k) = Consumed(S, k) + T.domain[d].used_count[k] - S.domain[d].used_count[k]
<1>1. Remaining(T, k) = Remaining(S, k) + T.domain[d].count[k] - S.domain[d].count[k]
  <2>1. PICK a \in [Domains -> Int] : a = RemainingBy(S, k)
    BY SumsTyped
  <2>2. PICK b \in [Domains -> Int] : b = RemainingBy(T, k)
    BY SumsTyped
  <2>3. \A e \in Domains \ {d} : b[e] = a[e]
    BY <2>1, <2>2 DEF RemainingBy
  <2>4. SumFunction(b) = SumFunction(a) + b[d] - a[d]
    BY <2>3, Finite, SumChange
  <2>5. a[d] = S.domain[d].count[k] /\ b[d] = T.domain[d].count[k]
    BY <2>1, <2>2 DEF RemainingBy
  <2> QED
    BY <2>1, <2>2, <2>4, <2>5, SumsTyped
<1>2. Consumed(T, k) = Consumed(S, k) + T.domain[d].used_count[k] - S.domain[d].used_count[k]
  <2>1. PICK a \in [Domains -> Int] : a = ConsumedBy(S, k)
    BY SumsTyped
  <2>2. PICK b \in [Domains -> Int] : b = ConsumedBy(T, k)
    BY SumsTyped
  <2>3. \A e \in Domains \ {d} : b[e] = a[e]
    BY <2>1, <2>2 DEF ConsumedBy
  <2>4. SumFunction(b) = SumFunction(a) + b[d] - a[d]
    BY <2>3, Finite, SumChange
  <2>5. a[d] = S.domain[d].used_count[k] /\ b[d] = T.domain[d].used_count[k]
    BY <2>1, <2>2 DEF ConsumedBy
  <2> QED
    BY <2>1, <2>2, <2>4, <2>5, SumsTyped
<1> QED
  BY <1>1, <1>2

(* A domain takes what it gets from its function.                          *)
LEMMA CreateCounts ==
  ASSUME NEW S, Good(S), NEW f \in Functions, NEW r \in Requests, CanCreate(S, f, r),
         CountsGood(S), NEW T, T = create_sched_domain(S, f, r)
  PROVE  CountsGood(T)
<1>1. PICK d : d = Head(S.avail[f]["sched_domain"])
  OBVIOUS
<1>2. PICK range : range = find_set_bit_range(S.hist[f], r.hist)
  OBVIOUS
<1>3. d \in Domains /\ \E A : CreateIs(S, T, A, f, d, r, range)
  BY <1>1, <1>2, CreateFields
<1>4. PICK A : CreateIs(S, T, A, f, d, r, range)
  BY <1>3
<1>5. S \in HwType /\ T \in HwType
  BY CreateGood DEF Good
<1>6. PICK new : new = NewDomain(S.domain[d], r, range)
  OBVIOUS
<1>7. /\ S.domain \in [Domains -> DomainType] /\ S.count \in [Functions -> [Counted -> Nat]]
      /\ r.count \in [Counted -> Nat]
  BY <1>5, Typed, ArgsAssumption DEF DomainType
<1>8. /\ \A e \in Domains \ {d} : T.domain[e] = S.domain[e]
      /\ T.domain[d] = new
  <2>1. T.domain = [S.domain EXCEPT ![d] = new]
    BY <1>4, <1>6 DEF CreateIs
  <2> QED
    BY <2>1, <1>3, <1>7
<1>9. /\ T.domain[d].used_count = S.domain[d].used_count
      /\ \A k \in Counted : T.domain[d].count[k] = S.domain[d].count[k] + r.count[k]
  BY <1>6, <1>8 DEF NewDomain
<1>10. /\ \A g \in Functions \ {f} : T.count[g] = S.count[g]
       /\ \A k \in Counted : T.count[f][k] = S.count[f][k] - r.count[k]
  <2>1. PICK left : left = [k \in Counted |-> S.count[f][k] - r.count[k]]
    OBVIOUS
  <2>2. T.count = [S.count EXCEPT ![f] = left]
    BY <1>4, <2>1 DEF CreateIs
  <2>3. T.count[f] = left /\ \A g \in Functions \ {f} : T.count[g] = S.count[g]
    BY <1>7, <2>2
  <2> QED
    BY <2>1, <2>3
<1>11. SameSlots(S, T) /\ T.group = S.group
  <2>1. \A e \in Domains : e \in Owners \ {f}
    BY Constants
  <2>2. \A e \in Domains : QueuesInUse(T, e) = QueuesInUse(S, e)
    BY <1>4, <2>1 DEF CreateIs, QueuesInUse
  <2>3. T.sn = S.sn /\ T.group = S.group
    BY <1>4 DEF CreateIs
  <2>4. \A e \in Domains : T.domain[e].used_count = S.domain[e].used_count
    BY <1>8, <1>9
  <2> QED
    BY <2>2, <2>3, <2>4 DEF SameSlots
<1>12. ASSUME NEW k \in Counted
       PROVE  Balanced(T, k)
  <2>1. PICK n \in Nat : n = r.count[k]
    BY <1>7
  <2>2. Given(T, k) = Given(S, k) - n
    <3>1. PICK c \in Int : c = S.count[f][k]
      BY <1>7
    <3>2. Given(T, k) = Given(S, k) + (c - n) - c
      BY <1>5, <1>10, <2>1, <3>1, GivenChange
    <3>3. Given(S, k) \in Int
      BY <1>5, SumsTyped
    <3> QED
      BY <3>2, <3>3
  <2>3. Remaining(T, k) = Remaining(S, k) + n
    <3>1. PICK c \in Int : c = S.domain[d].count[k]
      BY <1>3, <1>5, SumsTyped
    <3>2. Remaining(T, k) = Remaining(S, k) + (c + n) - c
      BY <1>3, <1>5, <1>8, <1>9, <2>1, <3>1, DomainChange
    <3>3. Remaining(S, k) \in Int
      BY <1>5, SumsTyped
    <3> QED
      BY <3>2, <3>3
  <2>4. Capacity(T, k) = Capacity(S, k) /\ Consumed(T, k) = Consumed(S, k)
    BY <1>11, SameSlotsGood DEF Capacity
  <2>5. Given(S, k) \in Int /\ Remaining(S, k) \in Int /\ Consumed(S, k) \in Int
    BY <1>5, SumsTyped
  <2>6. Given(S, k) + Remaining(S, k) + Consumed(S, k) = Capacity(S, k)
    BY DEF CountsGood, Balanced
  <2> QED
    BY <2>2, <2>3, <2>4, <2>5, <2>6 DEF Balanced
<1> QED
  BY <1>11, <1>12, SameSlotsGood DEF CountsGood

(* A group changes its mode: what was all with the PF is again.            *)
LEMMA GroupCounts ==
  ASSUME NEW S \in HwType, NEW T \in HwType, CountsGood(S), NEW g \in SnGroups, NEW n \in SnModes,
         SameSlots(S, T), T.domain = S.domain,
         \A h \in SnGroups \ {g} : T.group[h] = S.group[h], T.group[g].per_queue = n,
         \A f \in Functions \ {PF} : T.count[f] = S.count[f],
         \A k \in Counted \ {g} : T.count[PF][k] = S.count[PF][k],
         \/ S.group[g].per_queue = n /\ T.count[PF][g] = S.count[PF][g]
         \/ /\ S.count[PF][g] * S.group[g].per_queue = SnTotal
            /\ T.count[PF][g] = SnTotal \div n
  PROVE  CountsGood(T)
<1>1. PF \in Functions /\ \A h \in SnGroups : h \in Counted
  BY Constants DEF Counted
<1>2. ASSUME NEW k \in Counted
      PROVE  Balanced(T, k)
  <2>1. Given(T, k) = Given(S, k) + T.count[PF][k] - S.count[PF][k]
    BY <1>1, GivenChange
  <2>2. Remaining(T, k) = Remaining(S, k)
    BY DEF Remaining
  <2>3. Consumed(T, k) = Consumed(S, k)
    BY SameSlotsGood
  <2>4. PICK c, e : c = S.count[PF][k] /\ e = T.count[PF][k]
    OBVIOUS
  <2>5. /\ c \in Nat /\ e \in Nat /\ Given(S, k) \in Int /\ Remaining(S, k) \in Int
        /\ Consumed(S, k) \in Int
    BY <1>1, <2>4, SumsTyped
  <2>6. Given(S, k) + Remaining(S, k) + Consumed(S, k) = Capacity(S, k)
    BY DEF CountsGood, Balanced
  <2>7. Capacity(T, k) - Capacity(S, k) = e - c /\ Capacity(T, k) \in Int /\ Capacity(S, k) \in Int
    <3>1. Capacity(S, k) \in Int
      BY <2>5, <2>6
    <3>2. CASE k # g
      <4>1. Capacity(T, k) = Capacity(S, k)
        BY <3>2 DEF Capacity
      <4> QED
        BY <3>1, <3>2, <4>1, <2>4, <2>5
    <3>3. CASE k = g
      <4>1. Capacity(S, g) = SnTotal \div S.group[g].per_queue /\ Capacity(T, g) = SnTotal \div n
        BY DEF Capacity
      <4>2. Capacity(S, g) \in Nat /\ Capacity(T, g) \in Nat /\ S.group[g].per_queue \in Nat \ {0}
        BY SlotsFinite
      <4>3. CASE S.group[g].per_queue = n /\ T.count[PF][g] = S.count[PF][g]
        BY <3>3, <4>1, <4>2, <4>3, <2>4, <2>5
      <4>4. CASE /\ S.count[PF][g] * S.group[g].per_queue = SnTotal
                 /\ T.count[PF][g] = SnTotal \div n
        <5>1. PICK m \in Nat \ {0} : m = S.group[g].per_queue
          BY <4>2
        <5>2. c * m = SnTotal /\ e = Capacity(T, g)
          BY <3>3, <4>1, <4>4, <5>1, <2>4
        <5>3. (c * m) \div m = c
          BY <5>1, <2>5
        <5>4. Capacity(S, g) = c
          BY <4>1, <5>1, <5>2, <5>3
        <5> QED
          BY <3>3, <4>2, <5>2, <5>4
      <4> QED
        BY <4>3, <4>4
    <3> QED
      BY <3>2, <3>3
  <2> QED
    BY <2>1, <2>2, <2>3, <2>4, <2>5, <2>6, <2>7 DEF Balanced
<1> QED
  BY <1>2, SameSlotsGood DEF CountsGood

(* The slots of a domain that is reset are free again, and its queues      *)
(* those that had them.                                                    *)
LEMMA ResetSlots ==
  ASSUME NEW S, Good(S), NEW T \in HwType, NEW d \in Domains, NEW f \in Functions,
         ResetIs(S, T, f, d), NEW g \in SnGroups, SlotsGood(S, g)
  PROVE  SlotsGood(T, g)
<1>1. Shared(S, "ldb_queue") /\ S \in HwType
  BY Constants DEF Good, ListsGood
<1>2. g \in Counted
  BY DEF Counted
<1>3. PICK old \in SUBSET SnSlots(S.group[g]) : old = S.group[g].used /\ IsFiniteSet(old)
  BY <1>1, SlotsFinite
<1>4. PICK freed : freed = Freed(S, d, g)
  OBVIOUS
<1>5. T.group[g].used = old \ freed
  BY <1>3, <1>4 DEF ResetIs
<1>6. /\ QueuesInUse(T, d) = {}
      /\ \A e \in Domains \ {d} : QueuesInUse(T, e) = QueuesInUse(S, e)
  <2>1. T.used[d]["ldb_queue"] = << >>
    BY Constants DEF ResetIs, GivesBack
  <2>2. ToSet(<< >>) = {}
    BY DEF ToSet
  <2>3. \A e \in Domains : e \in Owners /\ e # f
    BY Constants
  <2>4. \A e \in Domains \ {d} : T.used[e] = S.used[e]
    BY <2>3 DEF ResetIs
  <2> QED
    BY <2>1, <2>2, <2>4 DEF QueuesInUse
<1>7. /\ \A e \in Domains : QueuesInUse(S, e) \subseteq Members["ldb_queue"]
      /\ \A e \in Domains \ {d} : QueuesInUse(S, e) \cap QueuesInUse(S, d) = {}
      /\ IsFiniteSet(SlotUsers(S, d, g))
  BY <1>1, UsersFinite
<1>8. \A e \in Domains \ {d} : \A q \in QueuesInUse(S, e) : T.sn[q] = S.sn[q]
  <2>1. S.sn \in [Members["ldb_queue"] -> [group : SnGroups \cup {"none"}, slot : Nat]]
    BY <1>1, Typed
  <2> QED
    BY <1>7, <2>1 DEF ResetIs
<1>9. SlotUsers(T, d, g) = {} /\ \A e \in Domains \ {d} : SlotUsers(T, e, g) = SlotUsers(S, e, g)
  BY <1>6, <1>8 DEF SlotUsers
<1>10. /\ Users(T, g) \subseteq Users(S, g)
       /\ Users(T, g) \cap SlotUsers(S, d, g) = {}
       /\ Users(S, g) \subseteq Users(T, g) \cup SlotUsers(S, d, g)
       /\ SlotUsers(S, d, g) \subseteq Users(S, g)
       /\ \A q \in Users(T, g) : T.sn[q] = S.sn[q]
  <2>1. \A q \in Users(T, g) : \E e \in Domains \ {d} : q \in SlotUsers(S, e, g)
    BY <1>9 DEF Users
  <2>2. Users(S, g) \subseteq Users(T, g) \cup SlotUsers(S, d, g)
    BY <1>9 DEF Users
  <2>3. SlotUsers(S, d, g) \subseteq Users(S, g)
    BY DEF Users
  <2>4. \A q \in Users(T, g) : q \in Users(S, g) /\ T.sn[q] = S.sn[q] /\ q \notin SlotUsers(S, d, g)
    BY <2>1, <1>7, <1>8 DEF Users, SlotUsers
  <2> QED
    BY <2>2, <2>3, <2>4
<1>11. freed = {S.sn[q].slot : q \in SlotUsers(S, d, g)}
  BY <1>4 DEF Freed, SlotUsers
<1>12. /\ \A q \in Users(S, g) : S.sn[q].slot \in old
       /\ \A s \in old : \E q \in Users(S, g) : S.sn[q].slot = s
       /\ \A p, q \in Users(S, g) : S.sn[p].slot = S.sn[q].slot => p = q
       /\ \A e \in Domains : S.domain[e].used_count[g] = Cardinality(SlotUsers(S, e, g))
       /\ Consumed(S, g) = Cardinality(old)
  BY <1>3 DEF SlotsGood
<1>13. /\ \A q \in Users(T, g) : T.sn[q].slot \in old \ freed
       /\ \A s \in old \ freed : \E q \in Users(T, g) : T.sn[q].slot = s
       /\ \A p, q \in Users(T, g) : T.sn[p].slot = T.sn[q].slot => p = q
  BY <1>10, <1>11, <1>12
<1>14. /\ \A e \in Domains \ {d} : T.domain[e] = S.domain[e]
       /\ T.domain[d].used_count[g] = 0
  <2>1. PICK new : /\ T.domain = [S.domain EXCEPT ![d] = new]
                   /\ new = [parent |-> f, configured |-> FALSE, hist |-> NoHist,
                    count |-> [k \in Counted |-> 0], used_count |-> [k \in Counted |-> 0]]
    BY DEF ResetIs
  <2>2. S.domain \in [Domains -> DomainType]
    BY <1>1, Typed DEF DomainType
  <2>3. T.domain[d] = new /\ \A e \in Domains \ {d} : T.domain[e] = S.domain[e]
    BY <2>1, <2>2
  <2> QED
    BY <1>2, <2>1, <2>3
<1>15. \A e \in Domains : T.domain[e].used_count[g] = Cardinality(SlotUsers(T, e, g))
  BY <1>9, <1>12, <1>14, FS_EmptySet
<1>16. Consumed(T, g) = Cardinality(old \ freed)
  <2>1. PICK n \in Nat : n = Cardinality(SlotUsers(S, d, g))
    BY <1>7, FS_CardinalityType
  <2>2. Consumed(T, g) = Consumed(S, g) + 0 - n
    <3>1. S.domain[d].used_count[g] = n
      BY <1>12, <2>1
    <3> QED
      BY <1>1, <1>2, <1>14, <3>1, DomainChange
  <2>3. \A p, q \in SlotUsers(S, d, g) : S.sn[p].slot = S.sn[q].slot => p = q
    BY <1>10, <1>12
  <2>4. Cardinality(freed) = n
    BY <1>7, <1>11, <2>1, <2>3, ImageSize
  <2>5. freed \subseteq old
    BY <1>10, <1>11, <1>12
  <2>6. Cardinality(old \ freed) = Cardinality(old) - n
    <3>1. old \cap freed = freed
      BY <2>5
    <3>2. Cardinality(old \ freed) = Cardinality(old) - Cardinality(old \cap freed)
      BY <1>3, FS_Difference
    <3> QED
      BY <2>4, <3>1, <3>2
  <2>7. Cardinality(old) \in Nat
    BY <1>3, FS_CardinalityType
  <2> QED
    BY <1>12, <2>2, <2>6, <2>7
<1> QED
  BY <1>5, <1>13, <1>15, <1>16 DEF SlotsGood

(* A reset domain gives back what it has and what it used.                 *)
LEMMA ResetCounts ==
  ASSUME NEW S, Good(S), NEW T \in HwType, NEW d \in Domains, NEW f \in Functions,
         ResetIs(S, T, f, d), CountsGood(S)
  PROVE  CountsGood(T)
<1>1. S \in HwType /\ S.count \in [Functions -> [Counted -> Nat]]
      /\ S.domain \in [Domains -> DomainType]
  BY Typed DEF Good, DomainType
<1>2. /\ \A e \in Domains \ {d} : T.domain[e] = S.domain[e]
      /\ \A k \in Counted : T.domain[d].count[k] = 0 /\ T.domain[d].used_count[k] = 0
  <2>1. PICK new : /\ T.domain = [S.domain EXCEPT ![d] = new]
                   /\ new = [parent |-> f, configured |-> FALSE, hist |-> NoHist,
                    count |-> [k \in Counted |-> 0], used_count |-> [k \in Counted |-> 0]]
    BY DEF ResetIs
  <2>2. T.domain[d] = new /\ \A e \in Domains \ {d} : T.domain[e] = S.domain[e]
    BY <1>1, <2>1
  <2> QED
    BY <2>1, <2>2
<1>3. /\ \A g \in Functions \ {f} : T.count[g] = S.count[g]
      /\ \A k \in Counted : T.count[f][k] = S.count[f][k] + Returned(S.domain[d], k)
  <2>1. PICK more : more = [k \in Counted |-> S.count[f][k] + Returned(S.domain[d], k)]
    OBVIOUS
  <2>2. T.count = [S.count EXCEPT ![f] = more]
    BY <2>1 DEF ResetIs
  <2>3. T.count[f] = more /\ \A g \in Functions \ {f} : T.count[g] = S.count[g]
    BY <1>1, <2>2
  <2> QED
    BY <2>1, <2>3
<1>4. ASSUME NEW k \in Counted
      PROVE  Balanced(T, k)
  <2>1. PICK c, u, x : c = S.domain[d].count[k] /\ u = S.domain[d].used_count[k] /\ x = S.count[f][k]
    OBVIOUS
  <2>2. /\ c \in Nat /\ u \in Nat /\ x \in Nat
        /\ Given(S, k) \in Int /\ Remaining(S, k) \in Int /\ Consumed(S, k) \in Int
    BY <1>1, <2>1, SumsTyped
  <2>3. T.count[f][k] = x + (c + u)
    BY <1>3, <2>1 DEF Returned
  <2>4. Given(T, k) = Given(S, k) + (x + (c + u)) - x
    BY <1>1, <1>3, <2>1, <2>3, GivenChange
  <2>5. Remaining(T, k) = Remaining(S, k) + 0 - c /\ Consumed(T, k) = Consumed(S, k) + 0 - u
    BY <1>1, <1>2, <2>1, DomainChange
  <2>6. Capacity(T, k) = Capacity(S, k)
    BY DEF Capacity, ResetIs
  <2>7. Given(S, k) + Remaining(S, k) + Consumed(S, k) = Capacity(S, k)
    BY DEF CountsGood, Balanced
  <2> QED
    BY <2>2, <2>4, <2>5, <2>6, <2>7 DEF Balanced
<1> QED
  BY <1>4, ResetSlots DEF CountsGood

(* A queue that needs a slot gets one that no other queue has.             *)
LEMMA QueueSlots ==
  ASSUME NEW S, Good(S), NEW T, Good(T), NEW d \in Domains, NEW a \in QueueArgs, NEW g \in SnGroups,
         S.avail[d]["ldb_queue"] # << >>,
         a.sequence_numbers > 0 => g \in Groups(S, d, a.sequence_numbers),
         UsedIn(S, T, d, "ldb_queue"), QueueIs(S, T, d, a, g),
         NEW h \in SnGroups, SlotsGood(S, h)
  PROVE  SlotsGood(T, h)
<1>1. PICK q : q = Head(S.avail[d]["ldb_queue"])
  OBVIOUS
<1>2. PICK slot : slot = Min(SnSlots(S.group[g]) \ S.group[g].used)
  OBVIOUS
<1>3. /\ S \in HwType /\ T \in HwType /\ Shared(S, "ldb_queue") /\ h \in Counted
      /\ S.sn \in [Members["ldb_queue"] -> [group : SnGroups \cup {"none"}, slot : Nat]]
      /\ a.sequence_numbers \in Nat
  BY Constants, Typed, ArgsAssumption DEF Good, ListsGood, Counted
<1>4. UseEffect(S, T, d, "ldb_queue")
  BY <1>3, Constants, UseShares DEF UsedIn
<1>5. /\ q \in Members["ldb_queue"] /\ QueuesInUse(T, d) = QueuesInUse(S, d) \cup {q}
      /\ \A e \in Domains : q \notin QueuesInUse(S, e)
      /\ \A e \in Domains \ {d} : QueuesInUse(T, e) = QueuesInUse(S, e)
  <2>1. q \in ToSet(S.avail[d]["ldb_queue"]) /\ q \in Members["ldb_queue"]
    BY <1>1, <1>4 DEF UseEffect
  <2>2. \A e \in Domains : q \notin ToSet(S.used[e]["ldb_queue"])
    BY <1>3, <2>1, Constants DEF Shared
  <2>3. ToSet(T.used[d]["ldb_queue"]) = ToSet(S.used[d]["ldb_queue"]) \cup {q}
    BY <1>1, <1>4 DEF UseEffect
  <2>4. \A e \in Domains \ {d} : T.used[e] = S.used[e]
    BY Constants DEF UsedIn
  <2> QED
    BY <2>1, <2>2, <2>3, <2>4 DEF QueuesInUse
<1>6. \A e \in Domains : QueuesInUse(S, e) \subseteq Members["ldb_queue"]
        /\ IsFiniteSet(SlotUsers(S, e, h))
  BY <1>3, UsersFinite
<1>7. /\ T.sn[q] = IF a.sequence_numbers = 0 THEN NoSlot ELSE [group |-> g, slot |-> slot]
      /\ \A p \in Members["ldb_queue"] \ {q} : T.sn[p] = S.sn[p]
  <2>1. PICK new : new = IF a.sequence_numbers = 0 THEN NoSlot ELSE [group |-> g, slot |-> slot]
    OBVIOUS
  <2>2. T.sn = [S.sn EXCEPT ![q] = new]
    BY <1>1, <1>2, <2>1 DEF QueueIs
  <2> QED
    BY <1>3, <1>5, <2>1, <2>2
<1>8. \A e \in Domains : \A p \in QueuesInUse(S, e) : T.sn[p] = S.sn[p] /\ p # q
  BY <1>5, <1>6, <1>7
<1>9. \A e \in Domains \ {d} : SlotUsers(T, e, h) = SlotUsers(S, e, h)
  BY <1>5, <1>8 DEF SlotUsers
<1>10. /\ \A p \in Users(S, h) : T.sn[p] = S.sn[p] /\ p # q
  BY <1>8 DEF Users, SlotUsers
<1>11. /\ \A p \in Users(S, h) : S.sn[p].slot \in S.group[h].used
       /\ \A s \in S.group[h].used : \E p \in Users(S, h) : S.sn[p].slot = s
       /\ \A p, r \in Users(S, h) : S.sn[p].slot = S.sn[r].slot => p = r
       /\ \A e \in Domains : S.domain[e].used_count[h] = Cardinality(SlotUsers(S, e, h))
       /\ Consumed(S, h) = Cardinality(S.group[h].used)
  BY DEF SlotsGood
<1>12. /\ \A e \in Domains \ {d} : T.domain[e] = S.domain[e]
       /\ T.domain[d].used_count[h] = S.domain[d].used_count[h] + Needs(a, g)[h]
       /\ Consumed(T, h) = Consumed(S, h) + T.domain[d].used_count[h] - S.domain[d].used_count[h]
  <2>1. /\ \A e \in Domains \ {d} : T.domain[e] = S.domain[e]
        /\ T.domain[d].used_count[h] = S.domain[d].used_count[h] + Needs(a, g)[h]
    BY <1>3 DEF QueueIs
  <2> QED
    BY <1>3, <2>1, DomainChange
<1>13. h \notin Counts
  BY SnAssumption
<1>14. S.domain[d].used_count[h] \in Nat /\ Consumed(S, h) \in Int
  BY <1>3, SumsTyped
<1>15. CASE a.sequence_numbers = 0 \/ h # g
  <2>1. ~(T.sn[q].group = h)
    BY <1>7, <1>15, SnAssumption DEF NoSlot
  <2>2. SlotUsers(T, d, h) = SlotUsers(S, d, h)
    BY <1>5, <1>8, <2>1 DEF SlotUsers
  <2>3. Users(T, h) = Users(S, h)
    BY <1>9, <2>2 DEF Users
  <2>4. T.group[h].used = S.group[h].used
    <3>1. PICK groups : groups = [S.group EXCEPT ![g].used = @ \cup {slot}]
      OBVIOUS
    <3>2. T.group = IF a.sequence_numbers = 0 THEN S.group ELSE groups
      BY <1>2, <3>1 DEF QueueIs
    <3>3. h # g => groups[h] = S.group[h]
      <4>1. S.group \in [SnGroups -> GroupType]
        BY <1>3, Typed
      <4> QED
        BY <3>1, <4>1
    <3> QED
      BY <1>15, <3>2, <3>3
  <2>5. Needs(a, g)[h] = 0
    BY <1>3, <1>13, <1>15 DEF Needs
  <2>6. T.domain[d].used_count[h] = S.domain[d].used_count[h] /\ Consumed(T, h) = Consumed(S, h)
    BY <1>12, <1>14, <2>5
  <2>7. \A e \in Domains : T.domain[e].used_count[h] = Cardinality(SlotUsers(T, e, h))
    BY <1>9, <1>11, <1>12, <2>2, <2>6
  <2>8. /\ \A p \in Users(T, h) : T.sn[p].slot \in T.group[h].used
        /\ \A s \in T.group[h].used : \E p \in Users(T, h) : T.sn[p].slot = s
        /\ \A p, r \in Users(T, h) : T.sn[p].slot = T.sn[r].slot => p = r
    BY <1>10, <1>11, <2>3, <2>4
  <2>9. Consumed(T, h) = Cardinality(T.group[h].used)
    BY <1>11, <2>4, <2>6
  <2> QED
    BY <2>7, <2>8, <2>9 DEF SlotsGood
<1>16. CASE a.sequence_numbers # 0 /\ h = g
  <2>1. slot \in Nat /\ slot \notin S.group[h].used
    <3>1. PICK n \in Nat : n = a.sequence_numbers
      BY <1>3
    <3>2. h \in Groups(S, d, n)
      BY <1>3, <1>16, <3>1
    <3> QED
      BY <1>2, <1>3, <1>16, <3>1, <3>2, FreeSlot
  <2>2. T.sn[q].group = h /\ T.sn[q].slot = slot
    BY <1>7, <1>16
  <2>3. SlotUsers(T, d, h) = SlotUsers(S, d, h) \cup {q} /\ q \notin SlotUsers(S, d, h)
    BY <1>5, <1>8, <2>2 DEF SlotUsers
  <2>4. Users(T, h) = Users(S, h) \cup {q}
    <3>1. \A e \in Domains \ {d} : SlotUsers(T, e, h) = SlotUsers(S, e, h)
      BY <1>9
    <3> QED
      BY <2>3, <3>1 DEF Users
  <2>5. T.group[h].used = S.group[h].used \cup {slot}
    <3>1. T.group = [S.group EXCEPT ![h].used = @ \cup {slot}]
      BY <1>2, <1>16 DEF QueueIs
    <3>2. S.group \in [SnGroups -> GroupType]
      BY <1>3, Typed
    <3> QED
      BY <3>1, <3>2
  <2>6. Needs(a, g)[h] = 1
    BY <1>3, <1>13, <1>16 DEF Needs
  <2>7. T.domain[d].used_count[h] = S.domain[d].used_count[h] + 1 /\ Consumed(T, h) = Consumed(S, h) + 1
    BY <1>12, <1>14, <2>6
  <2>8. Cardinality(SlotUsers(T, d, h)) = Cardinality(SlotUsers(S, d, h)) + 1
    BY <1>6, <2>3, FS_AddElement
  <2>9. Cardinality(T.group[h].used) = Cardinality(S.group[h].used) + 1
    <3>1. IsFiniteSet(S.group[h].used)
      BY <1>3, SlotsFinite
    <3> QED
      BY <2>1, <2>5, <3>1, FS_AddElement
  <2>10. \A e \in Domains : T.domain[e].used_count[h] = Cardinality(SlotUsers(T, e, h))
    BY <1>9, <1>11, <1>12, <2>7, <2>8
  <2>11. /\ \A p \in Users(T, h) : T.sn[p].slot \in T.group[h].used
         /\ \A s \in T.group[h].used : \E p \in Users(T, h) : T.sn[p].slot = s
         /\ \A p, r \in Users(T, h) : T.sn[p].slot = T.sn[r].slot => p = r
    BY <1>10, <1>11, <2>1, <2>2, <2>4, <2>5
  <2> QED
    BY <1>11, <2>7, <2>9, <2>10, <2>11 DEF SlotsGood
<1> QED
  BY <1>15, <1>16

(* A queue uses what its domain had, and takes a slot if it needs one.     *)
LEMMA QueueCounts ==
  ASSUME NEW S, Good(S), NEW d \in Domains, S.domain[d].configured,
         NEW a \in QueueArgs, NEW g \in SnGroups, CanCreateQueue(S, d, a),
         a.sequence_numbers > 0 => g \in Groups(S, d, a.sequence_numbers),
         NEW T, T = create_ldb_queue(S, d, a, g), CountsGood(S)
  PROVE  CountsGood(T)
<1>1. /\ Good(T) /\ UsedIn(S, T, d, "ldb_queue") /\ QueueIs(S, T, d, a, g)
  BY QueueGood
<1>2. S \in HwType /\ T \in HwType /\ S.avail[d]["ldb_queue"] # << >>
  BY <1>1 DEF Good, CanCreateQueue
<1>3. \A h \in SnGroups : SlotsGood(T, h)
  BY <1>1, <1>2, QueueSlots DEF CountsGood
<1>4. ASSUME NEW k \in Counted
      PROVE  Balanced(T, k)
  <2>1. PICK c, u, n : /\ c = S.domain[d].count[k] /\ u = S.domain[d].used_count[k]
                       /\ n = Needs(a, g)[k]
    OBVIOUS
  <2>2. /\ c \in Nat /\ u \in Nat /\ Given(S, k) \in Int /\ Remaining(S, k) \in Int
        /\ Consumed(S, k) \in Int
    BY <1>2, <2>1, SumsTyped
  <2>3. n \in Int
    BY <2>1, ArgsAssumption DEF Needs
  <2>4. /\ T.domain[d].count[k] = c - n /\ T.domain[d].used_count[k] = u + n
        /\ \A e \in Domains \ {d} : T.domain[e] = S.domain[e]
    BY <1>1, <2>1 DEF QueueIs
  <2>5. /\ Remaining(T, k) = Remaining(S, k) + (c - n) - c
        /\ Consumed(T, k) = Consumed(S, k) + (u + n) - u
    BY <1>2, <2>1, <2>4, DomainChange
  <2>6. Given(T, k) = Given(S, k)
    BY <1>1 DEF Given, QueueIs
  <2>7. Capacity(T, k) = Capacity(S, k)
    <3>1. \A h \in SnGroups : T.group[h].per_queue = S.group[h].per_queue
      <4>1. PICK slot : slot = Min(SnSlots(S.group[g]) \ S.group[g].used)
        OBVIOUS
      <4>2. PICK groups : groups = [S.group EXCEPT ![g].used = @ \cup {slot}]
        OBVIOUS
      <4>3. T.group = IF a.sequence_numbers = 0 THEN S.group ELSE groups
        BY <1>1, <4>1, <4>2 DEF QueueIs
      <4>4. S.group \in [SnGroups -> GroupType]
        BY <1>2, Typed
      <4>6. \A h \in SnGroups : S.group[h] \in GroupType
        BY <4>4
      <4>7. \A h \in SnGroups : S.group[h].per_queue = [S.group[h] EXCEPT !.used = @ \cup {slot}].per_queue
        BY <4>6 DEF GroupType
      <4>5. \A h \in SnGroups : groups[h].per_queue = S.group[h].per_queue
        BY <4>2, <4>4, <4>7
      <4> QED
        BY <4>3, <4>5
    <3> QED
      BY <3>1 DEF Capacity
  <2>8. Given(S, k) + Remaining(S, k) + Consumed(S, k) = Capacity(S, k)
    BY DEF CountsGood, Balanced
  <2> QED
    BY <2>2, <2>3, <2>5, <2>6, <2>7, <2>8 DEF Balanced
<1> QED
  BY <1>3, <1>4 DEF CountsGood

(* Books in order and counts in balance: the property.                     *)
LEMMA CountsAreConserved ==
  ASSUME Good(hw), CountsGood(hw)
  PROVE  CountsConserved
<1>1. PICK S : S = hw
  OBVIOUS
<1>2. S \in HwType /\ CountsGood(S) /\ Good(S)
  BY <1>1 DEF Good
<1>3. ASSUME NEW k \in Counts
      PROVE  SumFunction([f \in Functions |-> S.count[f][k]])
               + SumFunction([d \in Domains |-> S.domain[d].count[k] + S.domain[d].used_count[k]])
               = Amount[k]
  <2>1. k \in Counted /\ k \notin SnGroups
    BY SnAssumption DEF Counted
  <2>2. PICK both : both = [d \in Domains |-> S.domain[d].count[k] + S.domain[d].used_count[k]]
    OBVIOUS
  <2>3. both = [d \in Domains |-> RemainingBy(S, k)[d] + ConsumedBy(S, k)[d]]
    BY <2>2 DEF RemainingBy, ConsumedBy
  <2>4. SumFunction(both) = SumFunction(RemainingBy(S, k)) + SumFunction(ConsumedBy(S, k))
    BY <1>2, <2>1, <2>3, Finite, SumsTyped, SumAdd
  <2>5. SumFunction(both) = Remaining(S, k) + Consumed(S, k)
    BY <1>2, <2>1, <2>4, SumsTyped
  <2>6. Given(S, k) + Remaining(S, k) + Consumed(S, k) = Amount[k]
    BY <1>2, <2>1 DEF CountsGood, Balanced, Capacity
  <2>7. Given(S, k) \in Int /\ Remaining(S, k) \in Int /\ Consumed(S, k) \in Int
    BY <1>2, <2>1, SumsTyped
  <2>8. Given(S, k) + SumFunction(both) = Amount[k]
    BY <2>5, <2>6, <2>7
  <2> QED
    BY <2>2, <2>8 DEF Given
<1>4. ASSUME NEW g \in SnGroups
      PROVE  /\ Cardinality(SnSlots(S.group[g]) \ S.group[g].used)
                  = SumFunction([f \in Functions |-> S.count[f][g]])
                      + SumFunction([d \in Domains |-> S.domain[d].count[g]])
             /\ S.group[g].used = {S.sn[q].slot : q \in Users(S, g)}
             /\ Cardinality(S.group[g].used) = Cardinality(Users(S, g))
  <2>1. g \in Counted /\ SlotsGood(S, g) /\ Balanced(S, g) /\ Shared(S, "ldb_queue")
    BY <1>2, Constants DEF CountsGood, Counted, Good, ListsGood
  <2>2. PICK X : X = SnSlots(S.group[g])
    OBVIOUS
  <2>3. PICK U : U = S.group[g].used
    OBVIOUS
  <2>4. /\ IsFiniteSet(X) /\ IsFiniteSet(U) /\ U \subseteq X
        /\ Cardinality(X) = Capacity(S, g) /\ Capacity(S, g) \in Nat
    BY <1>2, <2>2, <2>3, SlotsFinite
  <2>5. Cardinality(X \ U) = Cardinality(X) - Cardinality(U)
    <3>1. Cardinality(X \ U) = Cardinality(X) - Cardinality(X \cap U)
      BY <2>4, FS_Difference
    <3>2. X \cap U = U
      BY <2>4
    <3> QED
      BY <3>1, <3>2
  <2>6. Given(S, g) \in Int /\ Remaining(S, g) \in Int /\ Consumed(S, g) \in Int
    BY <1>2, <2>1, SumsTyped
  <2>7. Consumed(S, g) = Cardinality(U)
    BY <2>1, <2>3 DEF SlotsGood
  <2>8. Cardinality(X \ U) = Given(S, g) + Remaining(S, g)
    BY <2>1, <2>4, <2>5, <2>6, <2>7 DEF Balanced
  <2>9. U = {S.sn[q].slot : q \in Users(S, g)}
    BY <2>1, <2>3 DEF SlotsGood
  <2>10. Cardinality(U) = Cardinality(Users(S, g))
    <3>1. IsFiniteSet(Users(S, g))
      BY <2>1, UsersFinite
    <3>2. \A p, q \in Users(S, g) : S.sn[p].slot = S.sn[q].slot => p = q
      BY <2>1 DEF SlotsGood
    <3>3. PICK n : n = S.sn
      OBVIOUS
    <3> QED
      BY <2>9, <3>1, <3>2, <3>3, ImageSize
  <2> QED
    BY <2>2, <2>3, <2>8, <2>9, <2>10 DEF Given, Remaining
<1>5. \A g \in SnGroups : SlotQueues(g) = Users(S, g)
  BY <1>1 DEF SlotQueues, Users, SlotUsers
<1>6. SnReserved
  <2>1. \A g \in SnGroups :
          /\ Cardinality(SnSlots(S.group[g]) \ S.group[g].used)
               = SumFunction([f \in Functions |-> S.count[f][g]])
                   + SumFunction([d \in Domains |-> S.domain[d].count[g]])
          /\ S.group[g].used = {S.sn[q].slot : q \in SlotQueues(g)}
          /\ Cardinality(S.group[g].used) = Cardinality(SlotQueues(g))
    <3> TAKE g \in SnGroups
    <3>1. SlotQueues(g) = Users(S, g)
      BY <1>5
    <3>2. S.group[g].used = {S.sn[q].slot : q \in SlotQueues(g)}
      BY <1>4, <3>1, Zenon
    <3>3. Cardinality(S.group[g].used) = Cardinality(SlotQueues(g))
      BY <1>4, <3>1, Zenon
    <3> QED
      BY <1>4, <3>2, <3>3, Zenon
  <2> QED
    BY <1>1, <2>1, Zenon DEF SnReserved
<1> QED
  BY <1>1, <1>3, <1>6 DEF CountsConserved

(* Only one number is not zero.                                            *)
LEMMA SumOfOne ==
  ASSUME NEW X, IsFiniteSet(X), NEW f \in [X -> Int], NEW p \in X,
         \A q \in X \ {p} : f[q] = 0
  PROVE  SumFunction(f) = f[p]
<1>1. PICK zero : zero = [q \in X |-> 0]
  OBVIOUS
<1>2. zero \in [X -> Int] /\ \A q \in X : zero[q] = 0
  BY <1>1
<1>3. SumFunction(zero) = 0
  BY <1>2, SumZero
<1>4. SumFunction(f) = SumFunction(zero) + f[p] - zero[p]
  BY <1>2, SumChange
<1> QED
  BY <1>2, <1>3, <1>4

(* At first everything is the PF's.                                        *)
LEMMA InitCounts ==
  ASSUME NEW S, Good(S),
         S.count = [f \in Functions |-> [k \in Counted |-> IF f = PF THEN InitialCount(k) ELSE 0]],
         \A d \in Domains : /\ S.domain[d].count = [k \in Counted |-> 0]
                            /\ S.domain[d].used_count = [k \in Counted |-> 0]
                            /\ S.used[d]["ldb_queue"] = << >>,
         S.group = [g \in SnGroups |-> [per_queue |-> Min(SnModes), used |-> {}]]
  PROVE  CountsGood(S)
<1>1. S \in HwType /\ PF \in Functions /\ IsFiniteSet(Functions) /\ IsFiniteSet(Domains)
  BY Constants, Finite DEF Good
<1>2. ASSUME NEW k \in Counted
      PROVE  Remaining(S, k) = 0 /\ Consumed(S, k) = 0 /\ Given(S, k) = InitialCount(k)
  <2>1. /\ GivenBy(S, k) \in [Functions -> Int] /\ Given(S, k) = SumFunction(GivenBy(S, k))
        /\ RemainingBy(S, k) \in [Domains -> Int]
        /\ Remaining(S, k) = SumFunction(RemainingBy(S, k))
        /\ ConsumedBy(S, k) \in [Domains -> Int]
        /\ Consumed(S, k) = SumFunction(ConsumedBy(S, k))
    BY <1>1, SumsTyped
  <2>2. \A d \in Domains : RemainingBy(S, k)[d] = 0 /\ ConsumedBy(S, k)[d] = 0
    BY DEF RemainingBy, ConsumedBy
  <2>3. Remaining(S, k) = 0 /\ Consumed(S, k) = 0
    BY <1>1, <2>1, <2>2, SumZero
  <2>6. /\ \A f \in Functions \ {PF} : GivenBy(S, k)[f] = 0
        /\ GivenBy(S, k)[PF] = InitialCount(k)
    BY <1>1 DEF GivenBy
  <2>7. SumFunction(GivenBy(S, k)) = GivenBy(S, k)[PF]
    BY <1>1, <2>1, <2>6, SumOfOne
  <2> QED
    BY <2>1, <2>3, <2>6, <2>7
<1>3. ASSUME NEW k \in Counted
      PROVE  Balanced(S, k)
  <2>1. Capacity(S, k) = InitialCount(k)
    <3>1. k \in SnGroups => S.group[k].per_queue = Min(SnModes)
      OBVIOUS
    <3> QED
      BY <3>1 DEF Capacity, InitialCount
  <2>2. Given(S, k) \in Int
    BY <1>1, SumsTyped
  <2> QED
    BY <1>2, <2>1, <2>2 DEF Balanced
<1>4. ASSUME NEW g \in SnGroups
      PROVE  SlotsGood(S, g)
  <2>1. \A d \in Domains : SlotUsers(S, d, g) = {}
    BY DEF SlotUsers, QueuesInUse, ToSet
  <2>2. Users(S, g) = {}
    BY <2>1 DEF Users
  <2>3. g \in Counted /\ S.group[g].used = {} /\ Cardinality({}) = 0
    BY FS_EmptySet DEF Counted
  <2>4. \A d \in Domains : S.domain[d].used_count[g] = Cardinality(SlotUsers(S, d, g))
    <3>1. \A d \in Domains : S.domain[d].used_count[g] = 0
      BY <2>3
    <3>2. \A d \in Domains : Cardinality(SlotUsers(S, d, g)) = 0
      BY <2>1, <2>3
    <3> QED
      BY <3>1, <3>2
  <2> QED
    BY <1>2, <2>2, <2>3, <2>4 DEF SlotsGood
<1> QED
  BY <1>3, <1>4 DEF CountsGood

(* A step keeps the counts in balance.                                     *)
CountsKept(S, T) == CountsGood(S) => CountsGood(T)

(* Two steps.                                                              *)
LEMMA CountsKeptTwice ==
  ASSUME NEW S, NEW T, NEW U, CountsKept(S, T), CountsKept(T, U)
  PROVE  CountsKept(S, U)
BY DEF CountsKept

(* The administrator's steps.                                              *)
LEMMA MovedKept ==
  ASSUME NEW S, NEW T, Good(S), Good(T), NEW v \in Vdevs,
         MovedCounts(S, T, v) \/ SameRest(S, T)
  PROVE  CountsKept(S, T)
<1>1. MovedCounts(S, T, v)
  BY SameRestMoved
<1> QED
  BY <1>1, MovedCountsGood DEF CountsKept, Good

(* Locking and unlocking.                                                  *)
LEMMA TurnedKept ==
  ASSUME NEW S, NEW T, NEW v, NEW b, Turned(S, T, v, b)
  PROVE  CountsKept(S, T)
<1>1. SameCounts(S, T)
  BY DEF Turned, SameBooks, SameCounts, QueuesInUse
<1> QED
  BY <1>1, SameCountsGood DEF CountsKept

(* A reset of a domain.                                                    *)
LEMMA ResetKept ==
  ASSUME NEW S, NEW T, Good(S), NEW d \in Domains, NEW f \in Functions,
         ResetIs(S, T, f, d), ResetDone(S, T, f, d)
  PROVE  CountsKept(S, T)
BY ResetCounts DEF CountsKept, ResetDone, Good

(* A new domain.                                                           *)
LEMMA CreateKept ==
  ASSUME NEW S, Good(S), NEW f \in Functions, NEW r \in Requests, CanCreate(S, f, r),
         NEW T, T = create_sched_domain(S, f, r)
  PROVE  CountsKept(S, T)
BY CreateCounts DEF CountsKept

(* A new queue.                                                            *)
LEMMA QueueKept ==
  ASSUME NEW S, Good(S), NEW d \in Domains, S.domain[d].configured,
         NEW a \in QueueArgs, NEW g \in SnGroups, CanCreateQueue(S, d, a),
         a.sequence_numbers > 0 => g \in Groups(S, d, a.sequence_numbers),
         NEW T, T = create_ldb_queue(S, d, a, g)
  PROVE  CountsKept(S, T)
BY QueueCounts DEF CountsKept

(* A new port: no count changes.                                           *)
LEMMA PortKept ==
  ASSUME NEW S, Good(S), NEW d \in Domains, NEW a \in PortArgs, CanCreatePort(S, d, a),
         NEW T, T = create_ldb_port(S, d, a)
  PROVE  CountsKept(S, T)
<1>1. PICK c \in Cos : UsedIn(S, T, d, c)
  BY PortGood
<1>2. c # "ldb_queue" /\ c \in Kinds /\ "ldb_queue" \in Kinds
  BY Constants, MembersAssumption
<1>3. \A e \in Domains : T.used[e]["ldb_queue"] = S.used[e]["ldb_queue"]
  BY <1>1, <1>2, Constants DEF UsedIn
<1>4. SameCounts(S, T)
  BY <1>3, PortGood DEF SameCounts, QueuesInUse
<1> QED
  BY <1>4, SameCountsGood DEF CountsKept

(* A new pair: no count changes.                                           *)
LEMMA PairKept ==
  ASSUME NEW S, Good(S), NEW d \in Domains, S.domain[d].configured,
         S.avail[d]["dir_port"] # << >>, NEW T, T = use(S, d, "dir_port")
  PROVE  CountsKept(S, T)
<1>1. UseIs(S, T, d, "dir_port")
  BY PairGood
<1>2. \A e \in Domains : T.used[e]["ldb_queue"] = S.used[e]["ldb_queue"]
  BY <1>1, Constants DEF UseIs
<1>3. SameCounts(S, T)
  BY <1>1, <1>2 DEF SameCounts, QueuesInUse, UseIs
<1> QED
  BY <1>3, SameCountsGood DEF CountsKept

(* In a locked vdev a virtual id names one resource of its kind.           *)
Names == {{k} : k \in Kinds \ Cos} \cup {Cos}
UniqueIds(S, v) ==
  \A K \in Names : \A r, s \in UNION {Holds(S, v, k) : k \in K} :
    r # s => S.virt_id[r] # S.virt_id[s]
IdsGood(S) == \A v \in Vdevs : S.locked[v] => UniqueIds(S, v)
IdsKept(S, T) == ~ReregisterInUse /\ IdsGood(S) => IdsGood(T)

(* A vdev that keeps what it has with its ids has unique ids.              *)
LEMMA KeepsUnique ==
  ASSUME NEW S, NEW T, NEW v, Keeps(S, T, v), UniqueIds(S, v)
  PROVE  UniqueIds(T, v)
<1>1. \A K \in Names : K \subseteq Kinds
  BY DEF Names, Kinds
<1> SUFFICES ASSUME NEW K \in Names, NEW k \in K, NEW l \in K,
                    NEW r \in Holds(T, v, k), NEW s \in Holds(T, v, l), r # s
             PROVE  T.virt_id[r] # T.virt_id[s]
  BY DEF UniqueIds
<1>2. k \in Kinds /\ l \in Kinds
  BY <1>1
<1>3. r \in Holds(S, v, k) /\ s \in Holds(S, v, l)
  BY <1>2 DEF Keeps, SameHolds
<1>4. T.virt_id[r] = S.virt_id[r] /\ T.virt_id[s] = S.virt_id[s]
  BY <1>2, <1>3 DEF Keeps
<1> QED
  BY <1>3, <1>4 DEF UniqueIds

(* A step that changes at most the ids of w, and leaves those unique.      *)
LEMMA SameIdsKept ==
  ASSUME NEW S, NEW T, NEW w,
         \A v \in Vdevs \ {w} : T.locked[v] => S.locked[v] /\ Keeps(S, T, v),
         ~ReregisterInUse /\ w \in Vdevs /\ T.locked[w] /\ IdsGood(S) => UniqueIds(T, w)
  PROVE  IdsKept(S, T)
BY KeepsUnique DEF IdsGood, IdsKept

(* The numbers of one class end before those of a later one begin.         *)
LEMMA BeforeGrows ==
  ASSUME NEW S \in HwType, NEW v \in Vdevs, NEW k \in Cos, NEW l \in Cos,
         Place(k) < Place(l)
  PROVE  Before(S, v, l) >= Before(S, v, k) + Len(S.avail[v][k])
<1>1. NumCos \in Nat /\ \A i \in 1 .. NumCos : CosOrder[i] \in Cos
  BY CosFinite
<1>2. Numbered(CosOrder, NumCos, Cos)
  BY Constants, ListingNumbered DEF NumCos
<1>3. ASSUME NEW c \in Cos
      PROVE  Place(c) \in 1 .. NumCos /\ CosOrder[Place(c)] = c
  <2>1. \E i \in 1 .. NumCos : CosOrder[i] = c
    BY <1>2 DEF Numbered
  <2> QED
    BY <2>1 DEF Place
<1>4. PICK m \in Nat : m = Place(k) - 1 /\ Place(k) = m + 1
  BY <1>1, <1>3
<1>5. PICK n \in Nat : n = Place(l) - 1
  BY <1>1, <1>3
<1>6. n \in 1 .. NumCos /\ m + 1 \in 1 .. n /\ CosOrder[m + 1] = k
  BY <1>1, <1>3, <1>4, <1>5
<1>7. S.avail \in [Owners -> [Kinds -> Seq(Things)]]
  BY Typed
<1>8. \A i \in 1 .. n : Len(S.avail[v][CosOrder[i]]) \in Nat
  <2> TAKE i \in 1 .. n
  <2>1. CosOrder[i] \in Kinds /\ v \in Owners
    BY <1>1, <1>6, Constants
  <2>2. PICK a \in Seq(Things) : a = S.avail[v][CosOrder[i]]
    BY <1>7, <2>1
  <2> QED
    BY <2>2
<1>9. PICK e : e = [i \in 1 .. n |-> Len(S.avail[v][CosOrder[i]])]
  OBVIOUS
<1>10. PICK f : f = [i \in 1 .. m |-> Len(S.avail[v][CosOrder[i]])]
  OBVIOUS
<1>11. /\ e \in [1 .. n -> Int] /\ \A i \in 1 .. n : e[i] >= 0
       /\ 1 .. m \in SUBSET (1 .. n) /\ m + 1 \in (1 .. n) \ (1 .. m)
  BY <1>6, <1>8, <1>9
<1>12. f \in [1 .. m -> Int] /\ Same(e, f, 1 .. m)
  BY <1>8, <1>9, <1>10, <1>11 DEF Same
<1>13. IsFiniteSet(1 .. n)
  BY FS_Interval
<1>14. SumFunction(e) >= SumFunction(f) + e[m + 1]
  <2>1. PICK X : X = 1 .. n
    OBVIOUS
  <2>2. PICK Y : Y = 1 .. m
    OBVIOUS
  <2>3. PICK p : p = m + 1
    OBVIOUS
  <2>4. /\ IsFiniteSet(X) /\ e \in [X -> Int] /\ Y \in SUBSET X /\ p \in X \ Y
        /\ f \in [Y -> Int] /\ Same(e, f, Y) /\ \A i \in X : e[i] >= 0
    BY <1>11, <1>12, <1>13, <2>1, <2>2, <2>3
  <2>5. SumFunction(e) >= SumFunction(f) + e[p]
    BY <2>4, SumGrows
  <2> QED
    BY <2>3, <2>5
<1>15. Before(S, v, l) = SumFunction(e)
  BY <1>5, <1>9 DEF Before
<1>16. Before(S, v, k) = SumFunction(f)
  BY <1>4, <1>10 DEF Before
<1>17. e[m + 1] = Len(S.avail[v][k])
  BY <1>6, <1>9
<1> QED
  BY <1>14, <1>15, <1>16, <1>17

(* The number that is given out to a resource.                             *)
NumberOf(S, v, k, r) == Before(S, v, k) + (Index(S.avail[v][k], r) - 1)

(* Different resources of a kind get different numbers.                    *)
LEMMA NumbersDiffer ==
  ASSUME NEW S, Good(S), NEW v \in Vdevs, NEW K \in Names, NEW k \in K, NEW l \in K,
         NEW r \in ToSet(S.avail[v][k]), NEW s \in ToSet(S.avail[v][l]), r # s
  PROVE  NumberOf(S, v, k, r) # NumberOf(S, v, l, s)
<1>1. k \in Kinds /\ l \in Kinds /\ (k # l => k \in Cos /\ l \in Cos)
  BY DEF Names, Kinds
<1>2. PICK a : a = S.avail[v][k]
  OBVIOUS
<1>3. PICK b : b = S.avail[v][l]
  OBVIOUS
<1>4. Listing(a, ToSet(a)) /\ Listing(b, ToSet(b)) /\ r \in ToSet(a) /\ s \in ToSet(b)
  BY <1>1, <1>2, <1>3, Constants DEF Good, ListsGood, Shared, Distinct
<1>5. Index(a, r) \in 1 .. Len(a) /\ a[Index(a, r)] = r /\ Index(a, r) \in Nat
  BY <1>4, IndexIn
<1>6. Index(b, s) \in 1 .. Len(b) /\ b[Index(b, s)] = s /\ Index(b, s) \in Nat
  BY <1>4, IndexIn
<1>7. Before(S, v, k) \in Int /\ Before(S, v, l) \in Int
  BY <1>1, BeforeInt DEF Good
<1>8. PICK i \in Nat : i = Index(a, r)
  BY <1>5
<1>9. PICK j \in Nat : j = Index(b, s)
  BY <1>6
<1>10. PICK p \in Int : p = Before(S, v, k)
  BY <1>7
<1>11. PICK q \in Int : q = Before(S, v, l)
  BY <1>7
<1>12. NumberOf(S, v, k, r) = p + (i - 1) /\ NumberOf(S, v, l, s) = q + (j - 1)
  BY <1>2, <1>3, <1>8, <1>9, <1>10, <1>11 DEF NumberOf
<1>13. Len(a) \in Nat /\ Len(b) \in Nat
  BY <1>4, ListingNumbered DEF Numbered
<1>14. CASE k = l
  <2>1. p = q /\ i # j
    BY <1>2, <1>3, <1>5, <1>6, <1>8, <1>9, <1>10, <1>11, <1>14
  <2> QED
    BY <1>12, <2>1
<1>15. CASE k # l
  <2>1. ASSUME NEW c \in Cos
        PROVE  Place(c) \in 1 .. NumCos /\ CosOrder[Place(c)] = c
    <3>1. Numbered(CosOrder, NumCos, Cos)
      BY Constants, ListingNumbered DEF NumCos
    <3>2. \E x \in 1 .. NumCos : CosOrder[x] = c
      BY <3>1 DEF Numbered
    <3> QED
      BY <3>2 DEF Place
  <2>2. Place(k) # Place(l) /\ Place(k) \in Nat /\ Place(l) \in Nat
    <3>1. NumCos \in Nat /\ k \in Cos /\ l \in Cos
      BY <1>1, <1>15, CosFinite
    <3> QED
      BY <1>15, <2>1, <3>1
  <2>3. CASE Place(k) < Place(l)
    <3>1. q >= p + Len(a)
      BY <1>1, <1>2, <1>10, <1>11, <1>15, <2>3, BeforeGrows DEF Good
    <3> QED
      BY <1>5, <1>6, <1>8, <1>9, <1>12, <1>13, <3>1
  <2>4. CASE Place(l) < Place(k)
    <3>1. p >= q + Len(b)
      BY <1>1, <1>3, <1>10, <1>11, <1>15, <2>4, BeforeGrows DEF Good
    <3> QED
      BY <1>5, <1>6, <1>8, <1>9, <1>12, <1>13, <3>1
  <2> QED
    BY <2>2, <2>3, <2>4
<1> QED
  BY <1>14, <1>15

(* A vdev that is locked while no domain of its is in use has unique ids.  *)
LEMMA LockUnique ==
  ASSUME NEW S, Good(S), NEW v \in Vdevs, UsedDomains(S, v) = << >>,
         NEW T, T = lock_vdev(S, v)
  PROVE  UniqueIds(T, v)
<1>1. Turned(S, T, v, TRUE) /\ T.virt_id = LockedIds(S, v)
  BY LockGood
<1>2. v \in Functions /\ v \in Owners /\ ToSet(<< >>) = {}
  BY Constants DEF ToSet
<1>3. ListsGood(S) /\ DomainsGood(S)
  BY DEF Good
<1>4. ASSUME NEW k \in Kinds
      PROVE  Holds(T, v, k) = ToSet(S.avail[v][k])
  <2>1. T.avail = S.avail /\ T.used = S.used
    BY <1>1 DEF Turned, SameBooks
  <2>2. S.used[v][k] = << >>
    <3>1. CASE k = "sched_domain"
      BY <3>1 DEF UsedDomains
    <3>2. CASE k # "sched_domain"
      BY <1>2, <1>3, <3>2 DEF DomainsGood
    <3> QED
      BY <3>1, <3>2
  <2>3. ToSet(UsedDomains(T, v)) = {}
    BY <1>2, <2>1 DEF UsedDomains
  <2> QED
    BY <1>2, <2>1, <2>2, <2>3 DEF Holds
<1>5. ASSUME NEW k \in Kinds, NEW r \in ToSet(S.avail[v][k])
      PROVE  T.virt_id[r] = NumberOf(S, v, k, r)
  <2>1. \A l \in Kinds : r \in ToSet(S.avail[v][l]) => r \in Members[l]
    BY <1>2, <1>3 DEF ListsGood, Shared
  <2>2. r \in Members[k] /\ r \in Things
    BY <2>1, <1>5, Constants
  <2>3. \A l \in Kinds : r \in ToSet(S.avail[v][l]) => l = k
    BY <2>1, <2>2, Constants
  <2>4. KindOf(S, v, r) = k
    BY <1>5, <2>3 DEF KindOf
  <2>5. r \in Available(S, v)
    BY <1>5, <2>2 DEF Available
  <2> QED
    BY <1>1, <2>2, <2>4, <2>5 DEF NumberOf, LockedIds
<1>6. \A K \in Names : K \subseteq Kinds
  BY DEF Names, Kinds
<1> SUFFICES ASSUME NEW K \in Names, NEW k \in K, NEW l \in K,
                    NEW r \in Holds(T, v, k), NEW s \in Holds(T, v, l), r # s
             PROVE  T.virt_id[r] # T.virt_id[s]
  BY DEF UniqueIds
<1>7. r \in ToSet(S.avail[v][k]) /\ s \in ToSet(S.avail[v][l]) /\ k \in Kinds /\ l \in Kinds
  BY <1>4, <1>6
<1>8. NumberOf(S, v, k, r) # NumberOf(S, v, l, s)
  BY <1>7, NumbersDiffer
<1> QED
  BY <1>5, <1>7, <1>8

(* A list without its first i entries.                                     *)
Rest(s, i) == SubSeq(s, i + 1, Len(s))

(* The list r without its first entry e is t.                              *)
StartsWith(r, e, t) ==
  /\ Listing(r, ToSet(r)) /\ r[1] = e /\ e \in ToSet(r) /\ Len(r) \in Nat \ {0}
  /\ Tail(r) = t

(* A list is used up entry by entry.                                       *)
LEMMA RestSteps ==
  ASSUME NEW s, NEW X, Listing(s, X), NEW n, n = Len(s)
  PROVE  /\ n \in Nat /\ Rest(s, 0) = s /\ Rest(s, n) = << >>
         /\ \A i \in 1 .. n : StartsWith(Rest(s, i - 1), s[i], Rest(s, i))
<1>1. Numbered(s, Len(s), X)
  BY ListingNumbered
<1>2. s \in Seq(X) /\ Len(s) \in Nat /\ n \in Nat
  BY <1>1 DEF Numbered
<1>3. Rest(s, 0) = s /\ Rest(s, n) = << >>
  BY <1>2 DEF Rest
<1>4. ASSUME NEW i \in 1 .. n
      PROVE  StartsWith(Rest(s, i - 1), s[i], Rest(s, i))
  <2>1. i - 1 \in 0 .. Len(s) /\ i \in Nat /\ i - 1 + 1 = i
    BY <1>2
  <2>2. PICK b : b = SubSeq(s, i, Len(s))
    OBVIOUS
  <2>3. Rest(s, i - 1) = b
    BY <2>1, <2>2 DEF Rest
  <2>4. PICK j \in 0 .. Len(s) : j = i - 1 /\ j + 1 = i
    BY <2>1
  <2>5. PICK l : l = j + 1
    OBVIOUS
  <2>6. Listing(b, ToSet(b)) /\ Len(b) = Len(s) - j
    <3>1. b = SubSeq(s, l, Len(s))
      BY <2>2, <2>4, <2>5
    <3>2. Listing(SubSeq(s, l, Len(s)), ToSet(SubSeq(s, l, Len(s))))
          /\ Len(SubSeq(s, l, Len(s))) = Len(s) - j
      BY <2>5, ListingParts
    <3> QED
      BY <3>1, <3>2, Zenon
  <2>7. Len(b) \in Nat \ {0}
    BY <2>6, <2>4, <1>2, <2>1
  <2>8. b[1] = s[i] /\ Tail(b) = SubSeq(s, i + 1, Len(s))
    <3>1. b[1] = s[i]
      BY <1>2, <2>1, <2>2
    <3>2. Tail(b) = SubSeq(s, i + 1, Len(s))
      BY <1>2, <2>1, <2>2, <2>7
    <3> QED
      BY <3>1, <3>2
  <2>9. b[1] \in ToSet(b)
    <3>1. Numbered(b, Len(b), ToSet(b))
      BY <2>6, ListingNumbered
    <3> HIDE DEF ToSet
    <3> QED
      BY <3>1, <2>7 DEF Numbered
  <2>10. PICK e : e = s[i]
    OBVIOUS
  <2>11. PICK t : t = Rest(s, i)
    OBVIOUS
  <2>12. b[1] = e /\ Tail(b) = t
    BY <2>8, <2>10, <2>11 DEF Rest
  <2>13. StartsWith(b, e, t)
    BY <2>6, <2>7, <2>9, <2>12 DEF StartsWith
  <2> QED
    BY <2>3, <2>10, <2>11, <2>13
<1>5. \A i \in 1 .. n : StartsWith(Rest(s, i - 1), s[i], Rest(s, i))
  BY <1>4, Zenon
<1> QED
  BY <1>2, <1>3, <1>5, Zenon

(* The first i used domains of f have been reset.                          *)
ResetSome(S, A, f, i) ==
  /\ Good(A) /\ A.locked = S.locked /\ A.virt_id = S.virt_id /\ CountsKept(S, A)
  /\ \A g \in Functions : Keeps(S, A, g)
  /\ UsedDomains(A, f) = Rest(UsedDomains(S, f), i)
  /\ \A g \in Functions \ {f} : UsedDomains(A, g) = UsedDomains(S, g)

(* The used domains of f are configured domains, each listed once.         *)
LEMMA GoodUsed ==
  ASSUME NEW S, Good(S), NEW f \in Functions
  PROVE  /\ Listing(UsedDomains(S, f), ToSet(UsedDomains(S, f)))
         /\ \A d \in ToSet(UsedDomains(S, f)) :
              d \in Domains /\ S.domain[d].configured /\ S.domain[d].parent = f
<1>1. ListsGood(S) /\ DomainsGood(S)
  BY DEF Good
<1>2. Shared(S, "sched_domain") /\ f \in Owners
  BY <1>1, Constants DEF ListsGood
<1>3. Listing(UsedDomains(S, f), ToSet(UsedDomains(S, f)))
  BY <1>2 DEF Shared, Distinct, UsedDomains
<1> QED
  BY <1>1, <1>2, <1>3, DomainPlace DEF DomainsGood

(* The next used domain is reset; by its virtual id it is found first.     *)
LEMMA ResetNext ==
  ASSUME NEW S, Good(S), NEW f \in Functions, NEW i \in 1 .. Len(UsedDomains(S, f)),
         NEW A, ResetSome(S, A, f, i - 1), NEW d, d = UsedDomains(S, f)[i],
         NEW T, T = domain_reset_software_state(A, d)
  PROVE  /\ ResetSome(S, T, f, i)
         /\ d \in ToSet(UsedDomains(A, f)) /\ ResetIs(A, T, f, d) /\ ResetDone(A, T, f, d)
         /\ f # PF => Found(A, f, d) = d
<1>1. PICK s : s = UsedDomains(S, f)
  OBVIOUS
<1>2. PICK r : r = Rest(s, i - 1)
  OBVIOUS
<1>3. Good(A) /\ UsedDomains(A, f) = r
  BY <1>1, <1>2 DEF ResetSome
<1>4. PICK n : n = Len(s)
  OBVIOUS
<1>12. i \in 1 .. n /\ Listing(s, ToSet(s)) /\ d = s[i]
  BY <1>1, <1>4, GoodUsed
<1>5. /\ Listing(r, ToSet(r)) /\ r[1] = d /\ d \in ToSet(r) /\ Len(r) \in Nat \ {0}
      /\ Tail(r) = Rest(s, i)
  <2>1. PICK t : t = Rest(s, i)
    OBVIOUS
  <2>2. StartsWith(Rest(s, i - 1), s[i], Rest(s, i))
    <3>1. \A j \in 1 .. n : StartsWith(Rest(s, j - 1), s[j], Rest(s, j))
      BY <1>4, <1>12, RestSteps, Zenon
    <3> QED
      BY <3>1, <1>12, Zenon
  <2>3. StartsWith(r, d, t)
    BY <1>2, <1>12, <2>1, <2>2
  <2> QED
    BY <2>1, <2>3 DEF StartsWith
<1>6. d \in Domains /\ A.domain[d].configured /\ A.domain[d].parent = f
  BY <1>3, <1>5, GoodUsed
<1>7. ResetDone(A, T, f, d) /\ ResetIs(A, T, f, d)
  BY <1>3, <1>6, ResetGood
<1>8. UsedDomains(T, f) = Rest(s, i)
  <2>1. Unlink(r, d) = Tail(r)
    BY <1>5, ListingUnlink
  <2> QED
    BY <2>1, <1>3, <1>5, <1>7 DEF ResetDone
<1>9. \A g \in Functions : Keeps(S, T, g)
  BY <1>7, KeepsTwice DEF ResetSome, ResetDone
<1>13. CountsKept(S, T)
  <2>1. CountsKept(A, T)
    <3>1. f \in Functions /\ d \in Domains /\ Good(A)
      BY <1>3, <1>6
    <3> QED
      BY <1>7, <3>1, ResetKept
  <2> QED
    BY <2>1, CountsKeptTwice DEF ResetSome
<1>10. ResetSome(S, T, f, i)
  BY <1>1, <1>7, <1>8, <1>9, <1>13 DEF ResetSome, ResetDone
<1>11. ASSUME f # PF PROVE Found(A, f, d) = d
  <2>1. PICK same : same = SelectInSeq(r, LAMBDA e : A.virt_id[e] = A.virt_id[d])
    OBVIOUS
  <2>2. Found(A, f, d) = r[same]
    BY <1>3, <1>11, <2>1 DEF Found
  <2>3. same = 1
    <3>1. PICK I : I = {j \in 1 .. Len(r) : A.virt_id[r[j]] = A.virt_id[d]}
      OBVIOUS
    <3>2. 1 \in I /\ I \in SUBSET Nat /\ \A j \in I : 1 <= j
      BY <1>5, <3>1
    <3>3. Min(I) = 1
      <4>1. PICK m : m = Min(I)
        OBVIOUS
      <4>2. m \in I /\ m <= 1
        BY <3>2, <4>1, LeastNumber
      <4>3. m \in Nat /\ 1 <= m
        BY <3>2, <4>2
      <4> QED
        BY <4>1, <4>2, <4>3
    <3>4. same = IF I # {} THEN Min(I) ELSE 0
      BY <2>1, <3>1 DEF SelectInSeq
    <3> QED
      BY <3>2, <3>3, <3>4
  <2> QED
    BY <2>2, <2>3, <1>5
<1> QED
  BY <1>3, <1>5, <1>7, <1>10, <1>11

(* None of them has been reset yet.                                        *)
LEMMA ResetNone ==
  ASSUME NEW S, Good(S), NEW f \in Functions
  PROVE  S \in HwType /\ ResetSome(S, S, f, 0)
<1>1. Rest(UsedDomains(S, f), 0) = UsedDomains(S, f)
  BY GoodUsed, RestSteps
<1> QED
  BY <1>1 DEF ResetSome, Keeps, SameHolds, Good, CountsKept

(* dlb2_reset_vdev, by recursion over the domains, to where it fails.      *)
LEMMA VdevResetGood ==
  ASSUME NEW S, Good(S), NEW v \in Vdevs, NEW N \in 0 .. Len(UsedDomains(S, v)),
         NEW T, T = reset_vdev(S, v, N)
  PROVE  ResetSome(S, T, v, N)
<1>1. N \in Nat /\ v \in Functions /\ v # PF /\ \A i \in 1 .. N : i \in 1 .. Len(UsedDomains(S, v))
  <2>1. Len(UsedDomains(S, v)) \in Nat
    BY GoodUsed, RestSteps, Constants
  <2> QED
    BY <2>1, Constants
<1> DEFINE after[i \in 0 .. N] == IF i = 0 THEN S ELSE reset_by_id(after[i - 1], v, UsedDomains(S, v)[i])
           H == [i \in 0 .. N |-> {A \in HwType : ResetSome(S, A, v, i)}]
           F == [i \in 1 .. N |-> [A \in H[i - 1] |-> reset_by_id(A, v, UsedDomains(S, v)[i])]]
<1>2. S \in H[0]
  BY <1>1, ResetNone
<1>3. ASSUME NEW i \in 1 .. N, NEW A \in H[i - 1]
      PROVE  reset_by_id(A, v, UsedDomains(S, v)[i]) \in H[i]
  <2>1. ResetSome(S, A, v, i - 1)
    BY <1>1, <1>3
  <2>2. PICK d : d = UsedDomains(S, v)[i]
    OBVIOUS
  <2>3. PICK U : U = domain_reset_software_state(A, d)
    OBVIOUS
  <2>4. ResetSome(S, U, v, i) /\ Found(A, v, d) = d
    BY <1>1, <2>1, <2>2, <2>3, ResetNext
  <2>5. U \in HwType
    BY <2>4 DEF ResetSome, Good
  <2> QED
    BY <1>1, <2>2, <2>3, <2>4, <2>5 DEF reset_by_id
<1>4. \E g : g = [i \in 0 .. N |-> IF i = 0 THEN S ELSE reset_by_id(g[i - 1], v, UsedDomains(S, v)[i])]
  <2>1. Leads(N, H, F, S)
    BY <1>1, <1>2, <1>3 DEF Leads
  <2>2. PICK g : Follows(N, H, F, S, g)
    <3> HIDE DEF H, F, after
    <3> QED
      BY <1>1, <2>1, Recursion
  <2>3. ASSUME NEW i \in 1 .. N PROVE g[i] = reset_by_id(g[i - 1], v, UsedDomains(S, v)[i])
    <3>1. i - 1 \in 0 .. N
      BY <1>1
    <3>2. g[i - 1] \in H[i - 1]
      BY <3>1, <2>2 DEF Follows
    <3> HIDE DEF H
    <3> QED
      BY <3>2, <2>2 DEF Follows
  <2> HIDE DEF after, H, F
  <2>4. ASSUME NEW i \in 0 .. N PROVE g[i] = IF i = 0 THEN S ELSE reset_by_id(g[i - 1], v, UsedDomains(S, v)[i])
    <3>1. CASE i = 0
      BY <3>1, <2>2 DEF Follows
    <3>2. CASE i # 0
      BY <1>1, <3>2, <2>3
    <3> QED
      BY <3>1, <3>2
  <2> QED
    BY <2>2, <2>4 DEF Follows
<1>5. after = [i \in 0 .. N |-> IF i = 0 THEN S ELSE reset_by_id(after[i - 1], v, UsedDomains(S, v)[i])]
  BY <1>4 DEF after
<1>6. T = after[N]
  BY DEF reset_vdev
<1> HIDE DEF after
<1>7. \A i \in 0 .. N : after[i] \in H[i]
  <2>1. after[0] \in H[0]
    BY <1>1, <1>2, <1>5
  <2>2. ASSUME NEW i \in 1 .. N, after[i - 1] \in H[i - 1] PROVE after[i] \in H[i]
    <3> HIDE DEF H
    <3>1. after[i] = reset_by_id(after[i - 1], v, UsedDomains(S, v)[i])
      BY <1>1, <1>5
    <3> QED
      BY <2>2, <1>3, <3>1
  <2> HIDE DEF H
  <2> QED
    BY <1>1, <2>1, <2>2, Steps
<1>8. after[N] \in H[N]
  BY <1>1, <1>7
<1> QED
  BY <1>1, <1>6, <1>8

(* The domains of one function, all of them.                               *)
LEMMA FunctionResetGood ==
  ASSUME NEW S, Good(S), NEW f \in Functions, NEW N, N = Len(UsedDomains(S, f)),
         NEW T, T = reset_function(S, f)
  PROVE  ResetSome(S, T, f, N)
<1>1. N \in Nat
  BY GoodUsed, RestSteps
<1> DEFINE after[i \in 0 .. N] == IF i = 0 THEN S ELSE domain_reset_software_state(after[i - 1], UsedDomains(S, f)[i])
           H == [i \in 0 .. N |-> {A \in HwType : ResetSome(S, A, f, i)}]
           F == [i \in 1 .. N |-> [A \in H[i - 1] |-> domain_reset_software_state(A, UsedDomains(S, f)[i])]]
<1>2. S \in H[0]
  BY <1>1, ResetNone
<1>3. ASSUME NEW i \in 1 .. N, NEW A \in H[i - 1]
      PROVE  domain_reset_software_state(A, UsedDomains(S, f)[i]) \in H[i]
  <2>1. ResetSome(S, A, f, i - 1)
    BY <1>1, <1>3
  <2>2. PICK d : d = UsedDomains(S, f)[i]
    OBVIOUS
  <2>3. PICK U : U = domain_reset_software_state(A, d)
    OBVIOUS
  <2>4. ResetSome(S, U, f, i)
    BY <2>1, <2>2, <2>3, ResetNext
  <2>5. U \in HwType
    BY <2>4 DEF ResetSome, Good
  <2> QED
    BY <1>1, <2>2, <2>3, <2>4, <2>5
<1>4. \E g : g = [i \in 0 .. N |-> IF i = 0 THEN S ELSE domain_reset_software_state(g[i - 1], UsedDomains(S, f)[i])]
  <2>1. Leads(N, H, F, S)
    BY <1>1, <1>2, <1>3 DEF Leads
  <2>2. PICK g : Follows(N, H, F, S, g)
    <3> HIDE DEF H, F, after
    <3> QED
      BY <1>1, <2>1, Recursion
  <2>3. ASSUME NEW i \in 1 .. N PROVE g[i] = domain_reset_software_state(g[i - 1], UsedDomains(S, f)[i])
    <3>1. i - 1 \in 0 .. N
      BY <1>1
    <3>2. g[i - 1] \in H[i - 1]
      BY <3>1, <2>2 DEF Follows
    <3> HIDE DEF H
    <3> QED
      BY <3>2, <2>2 DEF Follows
  <2> HIDE DEF after, H, F
  <2>4. ASSUME NEW i \in 0 .. N PROVE g[i] = IF i = 0 THEN S ELSE domain_reset_software_state(g[i - 1], UsedDomains(S, f)[i])
    <3>1. CASE i = 0
      BY <3>1, <2>2 DEF Follows
    <3>2. CASE i # 0
      BY <1>1, <3>2, <2>3
    <3> QED
      BY <3>1, <3>2
  <2> QED
    BY <2>2, <2>4 DEF Follows
<1>5. after = [i \in 0 .. N |-> IF i = 0 THEN S ELSE domain_reset_software_state(after[i - 1], UsedDomains(S, f)[i])]
  BY <1>4 DEF after
<1>6. T = after[N]
  BY DEF reset_function
<1> HIDE DEF after
<1>7. \A i \in 0 .. N : after[i] \in H[i]
  <2>1. after[0] \in H[0]
    BY <1>1, <1>2, <1>5
  <2>2. ASSUME NEW i \in 1 .. N, after[i - 1] \in H[i - 1] PROVE after[i] \in H[i]
    <3> HIDE DEF H
    <3>1. after[i] = domain_reset_software_state(after[i - 1], UsedDomains(S, f)[i])
      BY <1>1, <1>5
    <3> QED
      BY <2>2, <1>3, <3>1
  <2> HIDE DEF H
  <2> QED
    BY <1>1, <2>1, <2>2, Steps
<1>8. after[N] \in H[N]
  BY <1>1, <1>7
<1> QED
  BY <1>1, <1>6, <1>8

(* Resets leave every function what it has.                                *)
KeptAll(S, A) ==
  /\ Good(A) /\ A.locked = S.locked /\ CountsKept(S, A)
  /\ \A g \in Functions : Keeps(S, A, g)

(* Every function has its turn in a reset, every vdev in an unlock.        *)
LEMMA FunctionsFinite ==
  ASSUME NEW X, X \in {Functions, Vdevs}
  PROVE  /\ Len(SetToSeq(X)) \in Nat
         /\ \A i \in 1 .. Len(SetToSeq(X)) : SetToSeq(X)[i] \in X
         /\ \A x \in X : \E i \in 1 .. Len(SetToSeq(X)) : SetToSeq(X)[i] = x
<1>1. IsFiniteSet(Functions) /\ IsFiniteSet(Vdevs)
  BY MembersAssumption, FS_AddElement, FS_Union, FS_Singleton DEF Functions
<1>2. Numbered(SetToSeq(X), Len(SetToSeq(X)), X)
  BY <1>1, ListingSet, ListingNumbered
<1> QED
  BY <1>2 DEF Numbered

(* dlb2_resource_reset, by recursion over the functions.                   *)
LEMMA AllResetGood ==
  ASSUME NEW S, Good(S), NEW T, T = resource_reset(S)
  PROVE  KeptAll(S, T)
<1>0. PICK order : order = SetToSeq(Functions)
  OBVIOUS
<1>9. PICK N : N = Len(order)
  OBVIOUS
<1>1. N \in Nat /\ \A i \in 1 .. N : order[i] \in Functions
  BY <1>0, <1>9, FunctionsFinite
<1> DEFINE after[i \in 0 .. N] == IF i = 0 THEN S ELSE reset_function(after[i - 1], order[i])
           H == [i \in 0 .. N |-> {A \in HwType : KeptAll(S, A)}]
           F == [i \in 1 .. N |-> [A \in H[i - 1] |-> reset_function(A, order[i])]]
<1>2. S \in H[0]
  BY <1>1 DEF KeptAll, Keeps, SameHolds, Good, CountsKept
<1>3. ASSUME NEW i \in 1 .. N, NEW A \in H[i - 1]
      PROVE  reset_function(A, order[i]) \in H[i]
  <2>1. KeptAll(S, A)
    BY <1>1, <1>3
  <2>2. PICK U : U = reset_function(A, order[i])
    OBVIOUS
  <2>3. PICK n : n = Len(UsedDomains(A, order[i]))
    OBVIOUS
  <2>4. ResetSome(A, U, order[i], n)
    BY <1>1, <2>1, <2>2, <2>3, FunctionResetGood DEF KeptAll
  <2>5. KeptAll(S, U) /\ U \in HwType
    BY <2>1, <2>4, KeepsTwice, CountsKeptTwice DEF KeptAll, ResetSome, Good
  <2> QED
    BY <1>1, <2>2, <2>5
<1>4. \E g : g = [i \in 0 .. N |-> IF i = 0 THEN S ELSE reset_function(g[i - 1], order[i])]
  <2>1. Leads(N, H, F, S)
    BY <1>1, <1>2, <1>3 DEF Leads
  <2>2. PICK g : Follows(N, H, F, S, g)
    <3> HIDE DEF H, F, after
    <3> QED
      BY <1>1, <2>1, Recursion
  <2>3. ASSUME NEW i \in 1 .. N PROVE g[i] = reset_function(g[i - 1], order[i])
    <3>1. i - 1 \in 0 .. N
      BY <1>1
    <3>2. g[i - 1] \in H[i - 1]
      BY <3>1, <2>2 DEF Follows
    <3> HIDE DEF H
    <3> QED
      BY <3>2, <2>2 DEF Follows
  <2> HIDE DEF after, H, F
  <2>4. ASSUME NEW i \in 0 .. N PROVE g[i] = IF i = 0 THEN S ELSE reset_function(g[i - 1], order[i])
    <3>1. CASE i = 0
      BY <3>1, <2>2 DEF Follows
    <3>2. CASE i # 0
      BY <1>1, <3>2, <2>3
    <3> QED
      BY <3>1, <3>2
  <2> QED
    BY <2>2, <2>4 DEF Follows
<1>5. after = [i \in 0 .. N |-> IF i = 0 THEN S ELSE reset_function(after[i - 1], order[i])]
  BY <1>4 DEF after
<1>6. T = after[N]
  BY <1>0, <1>9 DEF resource_reset
<1> HIDE DEF after
<1>7. \A i \in 0 .. N : after[i] \in H[i]
  <2>1. after[0] \in H[0]
    BY <1>1, <1>2, <1>5
  <2>2. ASSUME NEW i \in 1 .. N, after[i - 1] \in H[i - 1] PROVE after[i] \in H[i]
    <3> HIDE DEF H
    <3>1. after[i] = reset_function(after[i - 1], order[i])
      BY <1>1, <1>5
    <3> QED
      BY <2>2, <1>3, <3>1
  <2> HIDE DEF H
  <2> QED
    BY <1>1, <2>1, <2>2, Steps
<1>8. after[N] \in H[N]
  BY <1>1, <1>7
<1> QED
  BY <1>1, <1>6, <1>8

UnlockedSome(S, A, order, i) ==
  Good(A) /\ CountsKept(S, A) /\ \A j \in 1 .. i : ~A.locked[order[j]]

(* dlb2_pci_sriov_disable, by recursion over the vdevs.                    *)
LEMMA AllUnlockedGood ==
  ASSUME NEW S, Good(S), NEW T, T = unlock_vdevs(S)
  PROVE  Good(T) /\ CountsKept(S, T) /\ \A v \in Vdevs : ~T.locked[v]
<1>0. PICK order : order = SetToSeq(Vdevs)
  OBVIOUS
<1>9. PICK N : N = Len(order)
  OBVIOUS
<1>1. /\ N \in Nat /\ \A i \in 1 .. N : order[i] \in Vdevs
      /\ \A v \in Vdevs : \E i \in 1 .. N : order[i] = v
  BY <1>0, <1>9, FunctionsFinite
<1> DEFINE after[i \in 0 .. N] == IF i = 0 THEN S ELSE unlock_vdev(after[i - 1], order[i])
           H == [i \in 0 .. N |-> {A \in HwType : UnlockedSome(S, A, order, i)}]
           F == [i \in 1 .. N |-> [A \in H[i - 1] |-> unlock_vdev(A, order[i])]]
<1>2. S \in H[0]
  BY <1>1 DEF UnlockedSome, Good, CountsKept
<1>3. ASSUME NEW i \in 1 .. N, NEW A \in H[i - 1]
      PROVE  unlock_vdev(A, order[i]) \in H[i]
  <2>1. UnlockedSome(S, A, order, i - 1)
    BY <1>1, <1>3
  <2>2. PICK v \in Vdevs : v = order[i]
    BY <1>1
  <2>3. PICK B : B = [A EXCEPT !.locked[v] = FALSE]
    OBVIOUS
  <2>4. Turned(A, B, v, FALSE)
    BY <2>1, <2>3, UnlockGood DEF UnlockedSome
  <2>5. PICK U : U = reset_vdev_resources(B, v)
    OBVIOUS
  <2>6. Changed(B, U, v) /\ MovedCounts(B, U, v)
    BY <2>4, <2>5, GiveBackGood DEF Turned
  <2>12. CountsKept(S, U)
    <3>1. CountsKept(A, B)
      BY <2>4, TurnedKept
    <3>2. CountsKept(B, U)
      BY <2>4, <2>6, MovedKept DEF Turned, Changed
    <3> QED
      BY <2>1, <3>1, <3>2, CountsKeptTwice DEF UnlockedSome
  <2>7. Good(U) /\ U \in HwType /\ U.locked = [A.locked EXCEPT ![v] = FALSE]
    BY <2>4, <2>6 DEF Changed, Turned, Good
  <2>8. A.locked \in [Vdevs -> BOOLEAN]
    BY <2>1, Typed DEF UnlockedSome, Good
  <2>9. ASSUME NEW j \in 1 .. i PROVE ~U.locked[order[j]]
    <3>1. CASE j = i
      BY <3>1, <2>2, <2>7, <2>8
    <3>2. CASE j # i
      <4>1. j \in 1 .. i - 1 /\ j \in 1 .. N
        BY <1>1, <3>2
      <4> QED
        BY <4>1, <1>1, <2>1, <2>7, <2>8 DEF UnlockedSome
    <3> QED
      BY <3>1, <3>2
  <2>10. U = unlock_vdev(A, order[i])
    BY <2>2, <2>3, <2>5 DEF unlock_vdev
  <2>11. UnlockedSome(S, U, order, i) /\ i \in 0 .. N
    BY <1>1, <2>7, <2>9, <2>12 DEF UnlockedSome
  <2> QED
    BY <2>7, <2>10, <2>11
<1>4. \E g : g = [i \in 0 .. N |-> IF i = 0 THEN S ELSE unlock_vdev(g[i - 1], order[i])]
  <2>1. Leads(N, H, F, S)
    BY <1>1, <1>2, <1>3 DEF Leads
  <2>2. PICK g : Follows(N, H, F, S, g)
    <3> HIDE DEF H, F, after
    <3> QED
      BY <1>1, <2>1, Recursion
  <2>3. ASSUME NEW i \in 1 .. N PROVE g[i] = unlock_vdev(g[i - 1], order[i])
    <3>1. i - 1 \in 0 .. N
      BY <1>1
    <3>2. g[i - 1] \in H[i - 1]
      BY <3>1, <2>2 DEF Follows
    <3> HIDE DEF H
    <3> QED
      BY <3>2, <2>2 DEF Follows
  <2> HIDE DEF after, H, F
  <2>4. ASSUME NEW i \in 0 .. N PROVE g[i] = IF i = 0 THEN S ELSE unlock_vdev(g[i - 1], order[i])
    <3>1. CASE i = 0
      BY <3>1, <2>2 DEF Follows
    <3>2. CASE i # 0
      BY <1>1, <3>2, <2>3
    <3> QED
      BY <3>1, <3>2
  <2> QED
    BY <2>2, <2>4 DEF Follows
<1>5. after = [i \in 0 .. N |-> IF i = 0 THEN S ELSE unlock_vdev(after[i - 1], order[i])]
  BY <1>4 DEF after
<1>6. T = after[N]
  BY <1>0, <1>9 DEF unlock_vdevs
<1> HIDE DEF after
<1>7. \A i \in 0 .. N : after[i] \in H[i]
  <2>1. after[0] \in H[0]
    BY <1>1, <1>2, <1>5
  <2>2. ASSUME NEW i \in 1 .. N, after[i - 1] \in H[i - 1] PROVE after[i] \in H[i]
    <3> HIDE DEF H
    <3>1. after[i] = unlock_vdev(after[i - 1], order[i])
      BY <1>1, <1>5
    <3> QED
      BY <2>2, <1>3, <3>1
  <2> HIDE DEF H
  <2> QED
    BY <1>1, <2>1, <2>2, Steps
<1>8. after[N] \in H[N]
  BY <1>1, <1>7
<1>10. UnlockedSome(S, T, order, N)
  BY <1>1, <1>6, <1>8
<1> QED
  BY <1>1, <1>10 DEF UnlockedSome

(* What a locked vdev has stays the same.                                  *)
LockedKept(S, T) ==
  \A v \in Vdevs : S.locked[v] /\ T.locked[v] => SameHolds(S, T, v)
StepGood(S, T) == Good(T) /\ LockedKept(S, T) /\ CountsKept(S, T) /\ IdsKept(S, T)

(* A step that leaves everyone what it has, and locks no vdev.             *)
LEMMA KeepsStep ==
  ASSUME NEW S, NEW T, Good(T), CountsKept(S, T), \A f \in Functions : Keeps(S, T, f),
         \A v \in Vdevs : T.locked[v] => S.locked[v]
  PROVE  StepGood(S, T)
<1>1. IdsKept(S, T)
  BY Constants, SameIdsKept
<1> QED
  BY <1>1, Constants DEF StepGood, LockedKept, Keeps

(* A step of the administrator: nothing happens to v while it is locked.   *)
LEMMA AdministratorStep ==
  ASSUME NEW S, NEW T, NEW v \in Vdevs, Good(S), Changed(S, T, v), S.locked[v] => T = S,
         MovedCounts(S, T, v) \/ SameRest(S, T)
  PROVE  StepGood(S, T)
<1>1. \A w \in Vdevs : w \in Functions /\ w # PF
  BY Constants
<1>2. Keeps(S, S, v)
  BY DEF SameHolds, Keeps
<1>3. ASSUME NEW w \in Vdevs, S.locked[w] PROVE Keeps(S, T, w)
  <2>1. CASE w = v
    BY <2>1, <1>2, <1>3
  <2>2. CASE w # v
    BY <2>2, <1>1 DEF Changed
  <2> QED
    BY <2>1, <2>2
<1>4. CountsKept(S, T) /\ T.locked = S.locked /\ Good(T)
  BY MovedKept DEF Changed
<1>5. IdsKept(S, T)
  BY <1>1, <1>3, <1>4, SameIdsKept
<1> QED
  BY <1>3, <1>4, <1>5 DEF StepGood, LockedKept, Keeps

AdminStep(S, T, v) ==
  /\ Changed(S, T, v) /\ (S.locked[v] => T = S)
  /\ MovedCounts(S, T, v) \/ SameRest(S, T)

(* Administrator                                                           *)
LEMMA AdministratorGood ==
  ASSUME Good(hw), Administrator
  PROVE  StepGood(hw, hw')
<1>1. PICK v \in Vdevs, n \in 0 .. MaxAssigned :
        \/ \E k \in Kinds : UpdateVdevList(v, k, n)
        \/ UpdateVdevPorts(v, n)
        \/ \E k \in Counted : UpdateVdevCount(v, k, n)
        \/ UpdateVdevHist(v, n)
  BY DEF Administrator
<1>2. n \in Nat
  BY NumbersAssumption
<1>3. PICK T : T = hw'
  OBVIOUS
<1>4. PICK S : S = hw
  OBVIOUS
<1>5. AdminStep(S, T, v)
  <2>1. ASSUME NEW k \in Kinds, UpdateVdevList(v, k, n)
        PROVE  AdminStep(S, T, v)
    <3>1. T = update_vdev_list(S, v, k, n)
      BY <2>1, <1>3, <1>4 DEF UpdateVdevList
    <3> QED
      BY <3>1, <1>2, <1>4, UpdateGood DEF AdminStep
  <2>2. ASSUME UpdateVdevPorts(v, n)
        PROVE  AdminStep(S, T, v)
    <3>1. T = update_vdev_ldb_ports(S, v, n)
      BY <2>2, <1>3, <1>4 DEF UpdateVdevPorts
    <3> QED
      BY <3>1, <1>2, <1>4, PortsGood DEF AdminStep
  <2>3. ASSUME NEW k \in Counted, UpdateVdevCount(v, k, n)
        PROVE  AdminStep(S, T, v)
    <3>1. T = update_vdev_count(S, v, k, n)
      BY <2>3, <1>3, <1>4 DEF UpdateVdevCount
    <3> QED
      BY <3>1, <1>2, <1>4, UpdateCountGood DEF AdminStep
  <2>4. ASSUME UpdateVdevHist(v, n)
        PROVE  AdminStep(S, T, v)
    <3>1. T = update_vdev_hist_list_entries(S, v, n)
      BY <2>4, <1>3, <1>4 DEF UpdateVdevHist
    <3> QED
      BY <3>1, <1>2, <1>4, UpdateHistGood DEF AdminStep
  <2> QED
    BY <2>1, <2>2, <2>3, <2>4, <1>1
<1> QED
  BY <1>3, <1>4, <1>5, AdministratorStep DEF AdminStep

(* SetGroup: the group is not in use, and no slot of it is promised.       *)
LEMMA SetGroupGood ==
  ASSUME Good(hw), NEW g \in SnGroups, NEW n \in SnModes, SetGroup(g, n)
  PROVE  StepGood(hw, hw')
<1>1. PICK S : S = hw
  OBVIOUS
<1>2. PICK T : T = hw'
  OBVIOUS
<1>3. Good(S) /\ S \in HwType /\ HwRecord(S)
  BY <1>1, Typed DEF Good
<1>4. PICK m \in Nat : m = SnTotal \div n
  <2>1. SnTotal \in Nat /\ n \in Nat \ {0}
    BY SnAssumption
  <2> QED
    BY <2>1
<1>5. S.group \in [SnGroups -> GroupType] /\ S.count \in [Functions -> [Counted -> Nat]]
  BY <1>3, Typed
<1>6. PF \in Functions /\ g \in Counted
  BY Constants DEF Counted
<1>7. PICK c \in Nat : c = IF S.group[g].per_queue = n THEN S.count[PF][g] ELSE m
  <2>1. S.count[PF][g] \in Nat
    BY <1>5, <1>6
  <2> QED
    BY <2>1
<1>8. PICK G : G = [S.group[g] EXCEPT !.per_queue = n]
  OBVIOUS
<1>9. G \in GroupType
  <2>1. S.group[g] \in GroupType /\ S.group[g].used = {}
    BY <1>1, <1>5 DEF SetGroup
  <2> QED
    BY <2>1, <1>8 DEF GroupType
<1>10. PICK groups \in [SnGroups -> GroupType] : groups = [S.group EXCEPT ![g] = G]
  <2>1. [S.group EXCEPT ![g] = G] \in [SnGroups -> GroupType]
    BY <1>5, <1>9
  <2> QED
    BY <2>1, Zenon
<1>11. PICK counts \in [Functions -> [Counted -> Nat]] : counts = [S.count EXCEPT ![PF][g] = c]
  <2>1. [S.count EXCEPT ![PF][g] = c] \in [Functions -> [Counted -> Nat]]
    BY <1>5, <1>6, <1>7
  <2> QED
    BY <2>1, Zenon
<1>12. T = [S EXCEPT !.group = groups, !.count = counts]
  <2>1. T = [S EXCEPT !.group[g].per_queue = n, !.count[PF][g] = c]
    BY <1>1, <1>2, <1>4, <1>7 DEF SetGroup
  <2>2. T = [S EXCEPT !.group[g] = G, !.count[PF][g] = c]
    BY <2>1, <1>8
  <2>3. T = [S EXCEPT !.group = groups, !.count[PF][g] = c]
    BY <2>2, <1>10
  <2> QED
    BY <2>3, <1>11
<1>13. /\ HwRecord(T) /\ SameBooks(S, T) /\ T.domain = S.domain /\ T.virt_id = S.virt_id
       /\ T.locked = S.locked /\ T.sn = S.sn /\ T.group = groups /\ T.count = counts
  BY <1>3, <1>12 DEF HwRecord, SameBooks
<1>14. T \in HwType
  BY <1>3, <1>10, <1>11, <1>13, Typed DEF SameBooks
<1>15. Good(T) /\ \A f \in Functions : Keeps(S, T, f)
  BY <1>3, <1>13, <1>14, BooksKept
<1>16. CountsKept(S, T)
  <2>1. /\ \A f \in Functions \ {PF} : T.count[f] = S.count[f]
        /\ \A k \in Counted \ {g} : T.count[PF][k] = S.count[PF][k]
        /\ T.count[PF][g] = c
    BY <1>5, <1>6, <1>11, <1>13
  <2>2. /\ \A h \in SnGroups \ {g} : T.group[h] = S.group[h]
        /\ T.group[g] = G
    BY <1>5, <1>10, <1>13
  <2>3. G.per_queue = n /\ G.used = S.group[g].used
    <3>1. S.group[g] \in GroupType
      BY <1>5
    <3> QED
      BY <1>8, <3>1 DEF GroupType
  <2>4. SameSlots(S, T)
    <3>1. \A h \in SnGroups : T.group[h].used = S.group[h].used
      BY <2>2, <2>3
    <3> QED
      BY <3>1, <1>13 DEF SameSlots, SameBooks, QueuesInUse
  <2>5. \/ S.group[g].per_queue = n /\ T.count[PF][g] = S.count[PF][g]
        \/ /\ S.count[PF][g] * S.group[g].per_queue = SnTotal
           /\ T.count[PF][g] = SnTotal \div n
    <3>1. S.count[PF][g] * S.group[g].per_queue # SnTotal => S.group[g].per_queue = n
      BY <1>1 DEF SetGroup
    <3> QED
      BY <1>4, <1>7, <2>1, <3>1
  <2> QED
    BY <1>3, <1>13, <1>14, <2>1, <2>2, <2>3, <2>4, <2>5, GroupCounts DEF CountsKept
<1> QED
  BY <1>1, <1>2, <1>13, <1>15, <1>16, KeepsStep

(* The same books have the same used domains.                              *)
LEMMA LengthUsed ==
  ASSUME NEW S, NEW T, SameBooks(S, T), NEW v
  PROVE  UsedDomains(T, v) = UsedDomains(S, v)
BY DEF SameBooks, UsedDomains

(* Two steps that leave f what it has.                                     *)
LEMMA SameHoldsTwice ==
  ASSUME NEW S, NEW T, NEW U, NEW f, SameHolds(S, T, f), SameHolds(T, U, f)
  PROVE  SameHolds(S, U, f)
BY DEF SameHolds

(* Register, Unregister, VfFlr                                             *)
LEMMA VdevGood ==
  ASSUME Good(hw), NEW v \in Vdevs, Register(v) \/ Unregister(v) \/ VfFlr(v)
  PROVE  StepGood(hw, hw')
<1>1. PICK S : S = hw
  OBVIOUS
<1>2. PICK T : T = hw'
  OBVIOUS
<1>3. Good(S)
  BY <1>1
<1>4. CASE Register(v)
  <2>1. PICK A : A = lock_vdev(S, v)
    OBVIOUS
  <2>2. PICK n \in 0 .. Len(UsedDomains(S, v)) : T = reset_vdev(A, v, n)
    BY <1>1, <1>2, <1>4, <2>1 DEF Register
  <2>3. Turned(S, A, v, TRUE) /\ \A f \in Functions \ {v} : Keeps(S, A, f)
    BY <1>3, <2>1, LockGood
  <2>4. /\ Good(A) /\ UsedDomains(A, v) = UsedDomains(S, v)
        /\ \A f \in Functions : SameHolds(S, A, f)
    BY <1>3, <2>3, LengthUsed, SameBooksGood DEF Turned, Good
  <2>5. ResetSome(A, T, v, n)
    BY <2>2, <2>4, VdevResetGood
  <2>6. Good(T) /\ \A f \in Functions : SameHolds(S, T, f)
    BY <2>4, <2>5, SameHoldsTwice DEF ResetSome, Keeps
  <2>7. CountsKept(S, T)
    <3>1. CountsKept(S, A)
      BY <2>3, TurnedKept
    <3> QED
      BY <2>5, <3>1, CountsKeptTwice DEF ResetSome
  <2>8. \A w \in Vdevs \ {v} : T.locked[w] => S.locked[w] /\ Keeps(S, T, w)
    <3>1. \A w \in Vdevs \ {v} : T.locked[w] = S.locked[w]
      <4>1. S.locked \in [Vdevs -> BOOLEAN]
        BY <1>3, Typed DEF Good
      <4> QED
        BY <2>3, <2>5, <4>1 DEF Turned, ResetSome
    <3>2. \A w \in Vdevs \ {v} : Keeps(S, A, w) /\ Keeps(A, T, w)
      BY <2>3, <2>5, Constants DEF ResetSome
    <3> QED
      BY <3>1, <3>2, KeepsTwice
  <2>9. ~ReregisterInUse => UniqueIds(T, v)
    <3> SUFFICES ASSUME ~ReregisterInUse PROVE UniqueIds(T, v)
      OBVIOUS
    <3>1. UsedDomains(S, v) = << >>
      BY <1>1, <1>4 DEF Register
    <3>2. UniqueIds(A, v)
      BY <1>3, <2>1, <3>1, LockUnique
    <3>3. Keeps(A, T, v)
      BY <2>5, Constants DEF ResetSome
    <3> QED
      BY <3>2, <3>3, KeepsUnique
  <2>10. IdsKept(S, T)
    BY <2>8, <2>9, SameIdsKept
  <2> QED
    BY <1>1, <1>2, <2>6, <2>7, <2>10, Constants DEF StepGood, LockedKept
<1>5. CASE Unregister(v)
  <2>1. PICK n \in 0 .. Len(UsedDomains(S, v)) : T = [reset_vdev(S, v, n) EXCEPT !.locked[v] = FALSE]
    BY <1>1, <1>2, <1>5 DEF Unregister
  <2>2. PICK A : A = reset_vdev(S, v, n)
    OBVIOUS
  <2>3. ResetSome(S, A, v, n)
    BY <1>3, <2>2, VdevResetGood
  <2>4. Turned(A, T, v, FALSE) /\ \A f \in Functions : Keeps(A, T, f)
    BY <2>1, <2>2, <2>3, UnlockGood DEF ResetSome
  <2>5. Good(T) /\ \A f \in Functions : Keeps(S, T, f)
    BY <2>3, <2>4, KeepsTwice DEF ResetSome, Turned
  <2>6. CountsKept(S, T)
    BY <2>3, <2>4, TurnedKept, CountsKeptTwice DEF ResetSome
  <2>7. \A w \in Vdevs : T.locked[w] => S.locked[w]
    <3>1. S.locked \in [Vdevs -> BOOLEAN]
      BY <1>3, Typed DEF Good
    <3> QED
      BY <2>3, <2>4, <3>1 DEF Turned, ResetSome
  <2> QED
    BY <1>1, <1>2, <2>5, <2>6, <2>7, KeepsStep
<1>6. CASE VfFlr(v)
  <2>1. PICK n \in 0 .. Len(UsedDomains(S, v)) : T = reset_vdev(S, v, n)
    BY <1>1, <1>2, <1>6 DEF VfFlr
  <2>2. ResetSome(S, T, v, n)
    BY <1>3, <2>1, VdevResetGood
  <2> QED
    BY <1>1, <1>2, <2>2, KeepsStep DEF ResetSome
<1> QED
  BY <1>4, <1>5, <1>6

(* The domain that is found is one of the function's own.                  *)
LEMMA FoundIn ==
  ASSUME NEW S, Good(S), NEW f \in Functions, NEW d \in ToSet(UsedDomains(S, f))
  PROVE  Found(S, f, d) \in ToSet(UsedDomains(S, f))
<1>1. CASE f = PF
  BY <1>1 DEF Found
<1>2. CASE f # PF
  <2>1. PICK u : u = UsedDomains(S, f)
    OBVIOUS
  <2>2. PICK n : n = Len(u)
    OBVIOUS
  <2>3. Numbered(u, n, ToSet(u))
    BY <2>1, <2>2, GoodUsed, ListingNumbered
  <2>4. PICK I : I = {j \in 1 .. n : S.virt_id[u[j]] = S.virt_id[d]}
    OBVIOUS
  <2>5. n \in Nat /\ d \in ToSet(u) /\ \E j \in 1 .. n : u[j] = d
    BY <2>1, <2>3 DEF Numbered
  <2>6. I # {} /\ I \in SUBSET Nat
    BY <2>4, <2>5
  <2>7. Min(I) \in I
    BY <2>6, LeastNumber
  <2>8. Found(S, f, d) = u[Min(I)]
    <3>1. SelectInSeq(u, LAMBDA e : S.virt_id[e] = S.virt_id[d]) = Min(I)
      BY <2>2, <2>4, <2>6 DEF SelectInSeq
    <3> QED
      BY <3>1, <2>1, <1>2 DEF Found
  <2>9. PICK i \in 1 .. n : i = Min(I)
    BY <2>4, <2>7
  <2> QED
    BY <2>1, <2>3, <2>8, <2>9 DEF Numbered
<1> QED
  BY <1>1, <1>2

RequestStep(S, T) ==
  /\ Good(T) /\ CountsKept(S, T) /\ T.locked = S.locked
  /\ \A g \in Functions : Keeps(S, T, g)

(* DomainRequest                                                           *)
LEMMA RequestGood ==
  ASSUME Good(hw), NEW f \in Functions, NEW d \in ToSet(UsedDomains(hw, f)), DomainRequest(f, d)
  PROVE  StepGood(hw, hw')
<1>1. PICK S : S = hw
  OBVIOUS
<1>2. PICK T : T = hw'
  OBVIOUS
<1>3. Good(S) /\ d \in Domains /\ S.domain[d].configured /\ S.domain[d].parent = f
  BY <1>1, GoodUsed
<1>4. RequestStep(S, T)
  <2>1. ASSUME NEW a \in QueueArgs, CreateLdbQueue(f, d, a)
        PROVE  RequestStep(S, T)
    <3>1. PICK g \in SnGroups :
            /\ a.sequence_numbers > 0 => g \in Groups(S, d, a.sequence_numbers)
            /\ T = create_ldb_queue(S, d, a, g)
      BY <2>1, <1>1, <1>2 DEF CreateLdbQueue
    <3>2. CanCreateQueue(S, d, a)
      BY <2>1, <1>1 DEF CreateLdbQueue
    <3> QED
      BY <3>1, <3>2, <1>3, QueueGood, QueueKept DEF RequestStep
  <2>2. ASSUME NEW a \in PortArgs, CreateLdbPort(f, d, a)
        PROVE  RequestStep(S, T)
    <3>1. CanCreatePort(S, d, a) /\ T = create_ldb_port(S, d, a)
      BY <2>2, <1>1, <1>2 DEF CreateLdbPort
    <3> QED
      BY <3>1, <1>3, PortGood, PortKept DEF RequestStep
  <2>3. ASSUME CreateDirPair(f, d)
        PROVE  RequestStep(S, T)
    <3>1. S.avail[d]["dir_port"] # << >> /\ T = use(S, d, "dir_port")
      BY <2>3, <1>1, <1>2 DEF CreateDirPair
    <3> QED
      BY <3>1, <1>3, PairGood, PairKept DEF RequestStep
  <2>4. ASSUME ResetDomain(f, d)
        PROVE  RequestStep(S, T)
    <3>1. T = domain_reset_software_state(S, d)
      BY <2>4, <1>1, <1>2 DEF ResetDomain
    <3>2. ResetDone(S, T, f, d) /\ ResetIs(S, T, f, d)
      BY <3>1, <1>3, ResetGood
    <3>3. CountsKept(S, T)
      BY <1>3, <3>2, ResetKept
    <3> QED
      BY <3>2, <3>3 DEF ResetDone, RequestStep
  <2> QED
    BY <2>1, <2>2, <2>3, <2>4 DEF DomainRequest
<1> QED
  BY <1>1, <1>2, <1>4, KeepsStep DEF RequestStep

(* Next                                                                    *)
LEMMA NextGood ==
  ASSUME Good(hw), [Next]_vars
  PROVE  StepGood(hw, hw')
<1>1. CASE Administrator
  BY <1>1, AdministratorGood
<1>2. ASSUME NEW g \in SnGroups, NEW n \in SnModes, SetGroup(g, n) PROVE StepGood(hw, hw')
  BY <1>2, SetGroupGood
<1>3. ASSUME NEW v \in Vdevs, Register(v) \/ Unregister(v) \/ VfFlr(v) PROVE StepGood(hw, hw')
  BY <1>3, VdevGood
<1>4. CASE SriovDisable
  <2>1. PICK S : S = hw
    OBVIOUS
  <2>2. PICK T : T = unlock_vdevs(S)
    OBVIOUS
  <2>3. T = hw'
    BY <1>4, <2>1, <2>2 DEF SriovDisable
  <2>4. Good(T) /\ CountsKept(S, T) /\ \A v \in Vdevs : ~T.locked[v]
    BY <2>1, <2>2, AllUnlockedGood
  <2> QED
    BY <2>1, <2>3, <2>4 DEF StepGood, LockedKept, IdsKept, IdsGood
<1>5. CASE DeviceReset
  <2>1. PICK S : S = hw
    OBVIOUS
  <2>2. PICK T : T = resource_reset(S)
    OBVIOUS
  <2>3. T = hw'
    BY <1>5, <2>1, <2>2 DEF DeviceReset
  <2>4. KeptAll(S, T)
    BY <2>1, <2>2, AllResetGood
  <2> QED
    BY <2>1, <2>3, <2>4, KeepsStep DEF KeptAll
<1>6. ASSUME NEW f \in Functions, NEW r \in Requests, CreateDomain(f, r)
      PROVE  StepGood(hw, hw')
  <2>1. PICK S : S = hw
    OBVIOUS
  <2>2. PICK T : T = create_sched_domain(S, f, r)
    OBVIOUS
  <2>3. T = hw' /\ CanCreate(S, f, r)
    BY <1>6, <2>1, <2>2 DEF CreateDomain
  <2>4. RequestStep(S, T)
    <3>1. Good(S)
      BY <2>1
    <3>2. Good(T) /\ T.locked = S.locked /\ \A g \in Functions : Keeps(S, T, g)
      BY <2>2, <2>3, <3>1, CreateGood
    <3>3. CountsKept(S, T)
      BY <2>2, <2>3, <3>1, CreateKept
    <3> QED
      BY <3>2, <3>3 DEF RequestStep
  <2> QED
    BY <2>1, <2>3, <2>4, KeepsStep DEF RequestStep
<1>7. ASSUME NEW f \in Functions, NEW d \in ToSet(UsedDomains(hw, f)),
             DomainRequest(f, Found(hw, f, d))
      PROVE  StepGood(hw, hw')
  <2>1. PICK e : e = Found(hw, f, d)
    OBVIOUS
  <2>2. e \in ToSet(UsedDomains(hw, f))
    BY <2>1, FoundIn
  <2> QED
    BY <1>7, <2>1, <2>2, RequestGood
<1>8. CASE UNCHANGED vars
  <2>1. PICK S : S = hw
    OBVIOUS
  <2>2. hw' = S
    BY <1>8, <2>1 DEF vars
  <2>3. Good(S) /\ CountsKept(S, S) /\ \A f \in Functions : Keeps(S, S, f)
    BY <2>1 DEF SameHolds, Keeps, CountsKept
  <2>4. StepGood(S, S)
    BY <2>3, KeepsStep
  <2> QED
    BY <2>1, <2>2, <2>4
<1> QED
  BY <1>1, <1>2, <1>3, <1>4, <1>5, <1>6, <1>7, <1>8 DEF Next

(* The counts of the start are numbers.                                    *)
LEMMA InitialCounts ==
  /\ Min(SnModes) \in SnModes /\ \A k \in Counted : InitialCount(k) \in Nat
<1>1. SnModes \in SUBSET Nat /\ SnModes # {} /\ \A m \in SnModes : m \in Nat \ {0}
  BY SnAssumption
<1>2. PICK m \in SnModes : m = Min(SnModes)
  BY <1>1, LeastNumber
<1>3. SnTotal \div m \in Nat
  BY <1>1, <1>2, SnAssumption
<1>4. \A k \in Counts : k \notin SnGroups /\ Amount[k] \in Nat
  BY NumbersAssumption, SnAssumption
<1>5. \A k \in Counted : InitialCount(k) \in Nat
  BY <1>2, <1>3, <1>4 DEF InitialCount, Counted
<1> QED
  BY <1>2, <1>5

(* Init                                                                    *)
LEMMA InitGood ==
  ASSUME Init
  PROVE  Good(hw) /\ CountsGood(hw) /\ IdsGood(hw)
<1>1. PICK S : S = hw
  OBVIOUS
<1>2. PICK m : m = Min(SnModes)
  OBVIOUS
<1>3. m \in SnModes
  BY <1>2, InitialCounts
<1>4. /\ HwRecord(S)
      /\ S.avail = [o \in Owners |-> [k \in Kinds |->
                     IF o = PF THEN SetToSeq(Members[k]) ELSE << >>]]
      /\ S.used = [o \in Owners |-> [k \in Kinds |-> << >>]]
      /\ S.num = [f \in Functions |-> [k \in Kinds |->
                    IF f = PF THEN Cardinality(Members[k]) ELSE 0]]
      /\ S.hist = [f \in Functions |-> IF f = PF THEN HistEntries ELSE {}]
      /\ S.count = [f \in Functions |-> [k \in Counted |->
                     IF f = PF THEN InitialCount(k) ELSE 0]]
      /\ S.locked = [v \in Vdevs |-> FALSE]
      /\ S.virt_id = [r \in Things |-> NoId]
      /\ S.group = [g \in SnGroups |-> [per_queue |-> m, used |-> {}]]
      /\ S.domain = [d \in Domains |->
          [parent |-> PF, configured |-> FALSE, hist |-> NoHist,
           count |-> [k \in Counted |-> 0], used_count |-> [k \in Counted |-> 0]]]
      /\ S.sn = [q \in Members["ldb_queue"] |-> NoSlot]
      /\ S.port_hist = [p \in UNION {Members[c] : c \in Cos} |-> {}]
  BY <1>1, <1>2 DEF Init, HwRecord
<1>5. ToSet(<< >>) = {} /\ Distinct(<< >>) /\ Len(<< >>) = 0
  <2>1. ToSet(<< >>) = {}
    BY DEF ToSet
  <2> QED
    BY <2>1, ListingNone DEF Distinct
<1>6. ASSUME NEW k \in Kinds
      PROVE  /\ Distinct(SetToSeq(Members[k])) /\ ToSet(SetToSeq(Members[k])) = Members[k]
             /\ Len(SetToSeq(Members[k])) = Cardinality(Members[k])
             /\ SetToSeq(Members[k]) \in Seq(Things) /\ Cardinality(Members[k]) \in Nat
  <2>1. IsFiniteSet(Members[k]) /\ Members[k] \subseteq Things
    BY MembersAssumption, Constants
  <2>2. PICK s : s = SetToSeq(Members[k])
    OBVIOUS
  <2>3. Listing(s, Members[k]) /\ Len(s) = Cardinality(Members[k])
    BY <2>1, <2>2, ListingSet
  <2>4. ToSet(s) = Members[k] /\ s \in Seq(Members[k]) /\ Len(s) \in Nat
    BY <2>3, ListingEmpty
  <2>5. s \in Seq(Things)
    BY <2>1, <2>4
  <2> QED
    BY <2>2, <2>3, <2>4, <2>5 DEF Distinct
<1>7. /\ \A o \in Owners, k \in Kinds : /\ S.used[o][k] = << >>
                                        /\ o # PF => S.avail[o][k] = << >>
      /\ \A k \in Kinds : S.avail[PF][k] = SetToSeq(Members[k])
      /\ PF \in Owners /\ PF \in Functions
      /\ \A f \in Functions : f \in Owners
      /\ \A d \in Domains : d \in Owners /\ d # PF
  BY <1>4, Constants
<1>8. ListsGood(S)
  <2>1. ASSUME NEW k \in Kinds PROVE Shared(S, k)
    <3>1. \A o \in Owners : Distinct(S.avail[o][k]) /\ Distinct(S.used[o][k])
      BY <1>5, <1>6, <1>7
    <3>2. \A o \in Owners : /\ ToSet(S.used[o][k]) = {}
                            /\ o # PF => ToSet(S.avail[o][k]) = {}
      BY <1>5, <1>7
    <3>3. ToSet(S.avail[PF][k]) = Members[k]
      BY <1>6, <1>7
    <3>4. \A o, p \in Owners :
            /\ ToSet(S.avail[o][k]) \cap ToSet(S.used[p][k]) = {}
            /\ o # p => /\ ToSet(S.avail[o][k]) \cap ToSet(S.avail[p][k]) = {}
                        /\ ToSet(S.used[o][k]) \cap ToSet(S.used[p][k]) = {}
      BY <3>2
    <3>5. \A r : r \in Members[k] <=>
            \E o \in Owners : r \in ToSet(S.avail[o][k]) \/ r \in ToSet(S.used[o][k])
      BY <3>2, <3>3, <1>7
    <3> QED
      BY <3>1, <3>4, <3>5 DEF Shared
  <2>2. \A f \in Functions, k \in Kinds : S.num[f][k] = Len(S.avail[f][k])
    <3> SUFFICES ASSUME NEW f \in Functions, NEW k \in Kinds
                 PROVE  S.num[f][k] = Len(S.avail[f][k])
      OBVIOUS
    <3>1. CASE f = PF
      BY <3>1, <1>4, <1>6, <1>7
    <3>2. CASE f # PF
      <4>1. S.num[f][k] = 0
        BY <3>2, <1>4
      <4>2. S.avail[f][k] = << >>
        BY <3>2, <1>7
      <4> QED
        BY <4>1, <4>2, <1>5
    <3> QED
      BY <3>1, <3>2
  <2> QED
    BY <2>1, <2>2 DEF ListsGood
<1>9. \A d \in Domains : S.domain[d].parent = PF /\ Idle(S, d)
  BY <1>4, <1>7 DEF Idle
<1>10. DomainsGood(S)
  <2>1. Shared(S, "sched_domain")
    BY <1>8, Constants DEF ListsGood
  <2>2. ASSUME NEW f \in Functions
        PROVE  /\ \A d \in ToSet(S.avail[f]["sched_domain"]) : S.domain[d].parent = f /\ Idle(S, d)
               /\ \A d \in ToSet(UsedDomains(S, f)) : S.domain[d].parent = f /\ S.domain[d].configured
               /\ \A k \in Kinds \ {"sched_domain"} : S.used[f][k] = << >>
    <3>1. ToSet(S.avail[f]["sched_domain"]) \subseteq Domains
      BY <2>1, <1>7, DomainPlace
    <3>2. f # PF => ToSet(S.avail[f]["sched_domain"]) = {}
      BY <1>5, <1>7, Constants
    <3>3. ToSet(UsedDomains(S, f)) = {}
      BY <1>5, <1>7, Constants DEF UsedDomains
    <3> QED
      BY <3>1, <3>2, <3>3, <1>7, <1>9
  <2>3. \A d \in Domains : S.avail[d]["sched_domain"] = << >> /\ S.used[d]["sched_domain"] = << >>
    BY <1>7, Constants
  <2> QED
    BY <2>2, <2>3 DEF DomainsGood
<1>11. HistGood(S)
  <2>1. \A d \in Domains : DomainHist(S, d) = {}
    <3>1. \A d \in Domains : S.domain[d].hist = [base |-> 0, total |-> 0, offset |-> 0]
      BY <1>4 DEF NoHist
    <3>2. 0 .. 0 + 0 - 1 = {}
      OBVIOUS
    <3> QED
      BY <3>1, <3>2 DEF DomainHist
  <2>2. HistOf(S, PF) = HistEntries /\ \A o \in Owners : o # PF => HistOf(S, o) = {}
    BY <2>1, <1>4, <1>7 DEF HistOf, Owners
  <2>3. \A d \in Domains : PortsInUse(S, d) = {}
    BY <1>5, <1>7, Constants DEF PortsInUse
  <2>4. \A d \in Domains : S.domain[d].hist.offset <= S.domain[d].hist.total
    BY <1>4 DEF NoHist
  <2>5. \A o \in Owners : HistOf(S, o) \subseteq HistEntries
    BY <2>2
  <2>6. \A o, p \in Owners : o # p => HistOf(S, o) \cap HistOf(S, p) = {}
    BY <2>2
  <2>7. \A e \in HistEntries : \E o \in Owners : e \in HistOf(S, o)
    BY <2>2, <1>7
  <2> QED
    BY <2>3, <2>4, <2>5, <2>6, <2>7 DEF HistGood
<1>12. S \in HwType
  <2>1. S.avail \in [Owners -> [Kinds -> Seq(Things)]]
    <3>1. \A k \in Kinds : SetToSeq(Members[k]) \in Seq(Things) /\ << >> \in Seq(Things)
      BY <1>6
    <3> QED
      BY <3>1, <1>4
  <2>2. S.used \in [Owners -> [Kinds -> Seq(Things)]]
    BY <1>4
  <2>3. S.num \in [Functions -> [Kinds -> Nat]]
    BY <1>4, <1>6
  <2>4. S.count \in [Functions -> [Counted -> Nat]]
    BY <1>4, InitialCounts
  <2>5. S.group \in [SnGroups -> GroupType]
    <3>1. [per_queue |-> m, used |-> {}] \in GroupType
      BY <1>3 DEF GroupType
    <3> QED
      BY <3>1, <1>4
  <2>6. S.domain \in [Domains -> DomainType]
    <3>1. [parent |-> PF, configured |-> FALSE, hist |-> NoHist,
           count |-> [k \in Counted |-> 0], used_count |-> [k \in Counted |-> 0]] \in DomainType
      BY <1>7 DEF DomainType, NoHist
    <3> QED
      BY <3>1, <1>4
  <2>7. S.sn \in [Members["ldb_queue"] -> [group : SnGroups \cup {"none"}, slot : Nat]]
    BY <1>4 DEF NoSlot
  <2>8. S.port_hist \in [UNION {Members[c] : c \in Cos} -> SUBSET HistEntries]
    BY <1>4
  <2>9. S.hist \in [Functions -> SUBSET HistEntries] /\ S.locked \in [Vdevs -> BOOLEAN]
        /\ S.virt_id \in [Things -> Int]
    BY <1>4 DEF NoId
  <2>10. S.domain \in [Domains ->
     [parent : Functions, configured : BOOLEAN,
      hist : [base : Nat, total : Nat, offset : Nat],
      count : [Counted -> Nat], used_count : [Counted -> Nat]]]
    BY <2>6 DEF DomainType
  <2>11. HwRecord(S)
    BY <1>4
  <2> QED
    BY <2>1, <2>2, <2>3, <2>4, <2>5, <2>7, <2>8, <2>9, <2>10, <2>11, Typed
<1> QED
  <2>1. Good(S)
    BY <1>8, <1>10, <1>11, <1>12 DEF Good
  <2>2. CountsGood(S)
    <3>1. \A d \in Domains : /\ S.domain[d].count = [k \in Counted |-> 0]
                             /\ S.domain[d].used_count = [k \in Counted |-> 0]
                             /\ S.used[d]["ldb_queue"] = << >>
      BY <1>4, <1>7, Constants
    <3>2. S.count = [f \in Functions |-> [k \in Counted |-> IF f = PF THEN InitialCount(k) ELSE 0]]
      BY <1>4
    <3>3. S.group = [g \in SnGroups |-> [per_queue |-> Min(SnModes), used |-> {}]]
      BY <1>2, <1>4
    <3> QED
      BY <2>1, <3>1, <3>2, <3>3, InitCounts
  <2>3. IdsGood(S)
    BY <1>4 DEF IdsGood
  <2> QED
    BY <1>1, <2>1, <2>2, <2>3

(* A resource is in one place of one list.                                 *)
LEMMA OneSpot ==
  ASSUME NEW S, ListsGood(S), NEW r \in Things
  PROVE  \E z : Spots(S, r) = {z}
<1>1. PICK k \in Kinds : r \in Members[k]
  BY DEF Things
<1>2. \A l \in Kinds : r \in Members[l] => l = k
  BY <1>1, Constants
<1>3. \A l \in Kinds : Shared(S, l)
  BY DEF ListsGood
<1>4. PICK o \in Owners : r \in ToSet(S.avail[o][k]) \/ r \in ToSet(S.used[o][k])
  BY <1>1, <1>3 DEF Shared
<1>5. PICK w \in {"avail", "used"} : r \in ToSet(List(S, <<w, o, k>>))
  <2>1. List(S, <<"avail", o, k>>) = S.avail[o][k] /\ List(S, <<"used", o, k>>) = S.used[o][k]
    BY DEF List
  <2> QED
    BY <2>1, <1>4
<1>6. PICK x \in Lists : x = <<w, o, k>>
  BY DEF Lists
<1>7. \A y \in Lists : r \in ToSet(List(S, y)) => y = x
  <2> SUFFICES ASSUME NEW a \in {"avail", "used"}, NEW p \in Owners, NEW l \in Kinds,
                      r \in ToSet(List(S, <<a, p, l>>))
               PROVE  <<a, p, l>> = x
    BY DEF Lists
  <2>1. /\ a = "avail" => r \in ToSet(S.avail[p][l])
        /\ a = "used" => r \in ToSet(S.used[p][l])
    BY DEF List
  <2>2. /\ w = "avail" => r \in ToSet(S.avail[o][k])
        /\ w = "used" => r \in ToSet(S.used[o][k])
    BY <1>5 DEF List
  <2>3. l = k
    <3>1. r \in Members[l]
      BY <2>1, <1>3 DEF Shared
    <3> QED
      BY <3>1, <1>2
  <2>4. a = w /\ p = o
    BY <2>1, <2>2, <2>3, <1>3 DEF Shared
  <2> QED
    BY <2>3, <2>4, <1>6
<1>8. PICK s : s = List(S, x)
  OBVIOUS
<1>9. Distinct(s) /\ r \in ToSet(s)
  <2>1. s = S.avail[o][k] \/ s = S.used[o][k]
    BY <1>6, <1>8 DEF List
  <2> QED
    BY <2>1, <1>3, <1>5, <1>6, <1>8 DEF Shared
<1>10. Numbered(s, Len(s), ToSet(s))
  BY <1>9, ListingNumbered DEF Distinct
<1>11. PICK i \in DOMAIN s : s[i] = r /\ \A j \in DOMAIN s : s[j] = r => j = i
  BY <1>9, <1>10 DEF Numbered
<1>12. \A y \in Lists : \A j \in DOMAIN List(S, y) :
         List(S, y)[j] = r => <<y, j>> = <<x, i>>
  <2> SUFFICES ASSUME NEW y \in Lists, NEW j \in DOMAIN List(S, y), List(S, y)[j] = r
               PROVE  <<y, j>> = <<x, i>>
    OBVIOUS
  <2>1. r \in ToSet(List(S, y))
    BY DEF ToSet
  <2>2. y = x
    BY <2>1, <1>7
  <2> QED
    BY <2>2, <1>8, <1>11
<1>13. Spots(S, r) = {<<x, i>>}
  <2>1. <<x, i>> \in Spots(S, r)
    BY <1>8, <1>11 DEF Spots
  <2>2. \A z \in Spots(S, r) : z = <<x, i>>
    BY <1>12 DEF Spots
  <2> QED
    BY <2>1, <2>2
<1> QED
  BY <1>13

(* Hence the first part of the property,                                   *)
LEMMA GoodInOneList ==
  ASSUME Good(hw)
  PROVE  InOneList
<1>1. PICK S : S = hw
  OBVIOUS
<1>2. ListsGood(S) /\ DomainsGood(S)
  BY <1>1 DEF Good
<1>3. ASSUME NEW r \in Things PROVE Cardinality(Spots(S, r)) = 1
  <2>1. PICK z : Spots(S, r) = {z}
    BY <1>2, OneSpot
  <2>2. Cardinality({z}) = 1
    BY FS_Singleton
  <2> QED
    BY <2>1, <2>2
<1> QED
  BY <1>1, <1>2, <1>3 DEF InOneList, ListsGood, DomainsGood

(* and the second.                                                         *)
LEMMA GoodHistShared ==
  ASSUME Good(hw)
  PROVE  HistShared
<1>1. PICK S : S = hw
  OBVIOUS
<1>2. HistGood(S) /\ S \in HwType
  BY <1>1 DEF Good
<1>3. ASSUME NEW e \in HistEntries
      PROVE  Cardinality({f \in Functions : e \in S.hist[f]})
               + Cardinality({d \in Domains : e \in DomainHist(S, d)}) = 1
  <2>1. PICK A : A = {f \in Functions : e \in S.hist[f]}
    OBVIOUS
  <2>2. PICK B : B = {d \in Domains : e \in DomainHist(S, d)}
    OBVIOUS
  <2>3. PICK o \in Owners : e \in HistOf(S, o) /\ \A p \in Owners : e \in HistOf(S, p) => p = o
    BY <1>2 DEF HistGood
  <2>4. \A p \in Owners : p \in Functions \/ p \in Domains
    BY DEF Owners
  <2>5. /\ A = {p \in Functions : e \in HistOf(S, p)}
        /\ B = {p \in Domains : e \in HistOf(S, p)}
    BY <2>1, <2>2, Constants DEF HistOf
  <2>6. CASE o \in Functions
    <3>1. A = {o} /\ B = {}
      BY <2>3, <2>5, <2>6, Constants
    <3>2. Cardinality(A) = 1 /\ Cardinality(B) = 0
      BY <3>1, FS_Singleton, FS_EmptySet
    <3> QED
      BY <2>1, <2>2, <3>2
  <2>7. CASE o \in Domains
    <3>1. A = {} /\ B = {o}
      BY <2>3, <2>5, <2>7, Constants
    <3>2. Cardinality(A) = 0 /\ Cardinality(B) = 1
      BY <3>1, FS_Singleton, FS_EmptySet
    <3> QED
      BY <2>1, <2>2, <3>2
  <2> QED
    BY <2>3, <2>4, <2>6, <2>7
<1>4. ASSUME NEW d \in Domains, NEW p \in PortsInUse(S, d), NEW q \in PortsInUse(S, d)
      PROVE  /\ S.port_hist[p] \subseteq DomainHist(S, d)
             /\ p # q => S.port_hist[p] \cap S.port_hist[q] = {}
  <2>1. PICK h \in [base : Nat, total : Nat, offset : Nat] : h = S.domain[d].hist
    <3>1. S.domain \in [Domains -> DomainType]
      BY <1>2, Typed DEF DomainType
    <3> QED
      BY <3>1 DEF DomainType
  <2>2. h.offset <= h.total /\ S.port_hist[p] \subseteq h.base .. h.base + h.offset - 1
    BY <2>1, <1>2 DEF HistGood, HandedOut
  <2>3. h.base .. h.base + h.offset - 1 \subseteq h.base .. h.base + h.total - 1
    BY <2>1, <2>2
  <2>4. S.port_hist[p] \subseteq DomainHist(S, d)
    BY <2>1, <2>2, <2>3 DEF DomainHist
  <2> QED
    BY <2>4, <1>2 DEF HistGood
<1> QED
  BY <1>1, <1>3, <1>4 DEF HistShared

(* The invariant about ids is the property.                                *)
LEMMA GoodVirtualIds ==
  ASSUME IdsGood(hw)
  PROVE  VirtualIdsUnique
BY DEF IdsGood, UniqueIds, Names, VirtualIdsUnique

(* The books of the device are in order: the inductive invariant.          *)
Books ==
  /\ Good(hw) /\ CountsGood(hw)
  /\ ~ReregisterInUse => IdsGood(hw)

(* The lists, the domains and the history lists agree with one another,    *)
(* and with the counts and the ids, whatever the administrator, the        *)
(* functions and resets do.                                                *)
THEOREM BooksInOrder == Spec => []Books
<1>1. Init => Books
  BY InitGood DEF Books
<1>2. Books /\ [Next]_vars => Books'
  BY NextGood DEF StepGood, CountsKept, IdsKept, Books
<1> QED
  BY <1>1, <1>2, PTL DEF Spec

(* Every resource is in one list and every history-list entry with one     *)
(* owner, for any number of vdevs, resources and classes of ports.         *)
THEOREM OwnedOnce == Spec => []OneOwner
<1>1. Books => OneOwner
  BY GoodInOneList, GoodHistShared DEF OneOwner, Books
<1> QED
  BY <1>1, BooksInOrder, PTL

(* Credits and inflights are conserved, and the slots a group has left are *)
(* those that are promised, for any amounts and any modes of the groups.   *)
THEOREM CountsAreKept == Spec => []CountsConserved
<1>1. Books => CountsConserved
  BY CountsAreConserved DEF Books
<1> QED
  BY <1>1, BooksInOrder, PTL

(* If no VF registers while domains of its are in use, a virtual id names  *)
(* one resource of its kind in a locked vdev.                              *)
THEOREM IdsNameOne == Spec => [](~ReregisterInUse => VirtualIdsUnique)
<1>1. Books => (~ReregisterInUse => VirtualIdsUnique)
  BY GoodVirtualIds DEF Books
<1> QED
  BY <1>1, BooksInOrder, PTL

(* No step takes anything from a vdev that stays locked, or adds to it.    *)
THEOREM LockedKeeps == Spec => LockedKeepsResources
<1>1. Books /\ [Next]_vars =>
        [\A v \in Vdevs : hw.locked[v] /\ hw'.locked[v] =>
           /\ \A k \in Kinds : Holds(hw', v, k) = Holds(hw, v, k)
           /\ HoldsHist(hw', v) = HoldsHist(hw, v)]_vars
  <2> SUFFICES ASSUME Books, [Next]_vars
               PROVE  \A v \in Vdevs : hw.locked[v] /\ hw'.locked[v] =>
                        /\ \A k \in Kinds : Holds(hw', v, k) = Holds(hw, v, k)
                        /\ HoldsHist(hw', v) = HoldsHist(hw, v)
    OBVIOUS
  <2>1. StepGood(hw, hw')
    BY NextGood DEF Books
  <2> QED
    BY <2>1 DEF StepGood, LockedKept, SameHolds
<1> QED
  BY <1>1, BooksInOrder, PTL DEF Spec, LockedKeepsResources
===========================================================================
