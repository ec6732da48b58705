---------------------------- MODULE VectorLemmas ----------------------------
(***************************************************************************)
(* Facts about finite vectors and sets of indices that the proofs about the *)
(* analyses share.  They hold for any elements.  What the library states    *)
(* about sequences is proved here as far as it is needed: every fact in     *)
(* scope makes each step of a long proof slower to check.                   *)
(***************************************************************************)
EXTENDS Integers, Sequences, Functions, WellFoundedInduction, TLAPS

(* The indices of a vector and what it has at them.                         *)
LEMMA LenProperties ==
  ASSUME NEW S, NEW s \in Seq(S)
  PROVE  Len(s) \in Nat /\ DOMAIN s = 1 .. Len(s) /\ s \in [1 .. Len(s) -> S]
  OBVIOUS

(* What a vector has at an index is one of its elements.                    *)
LEMMA ElementOfSeq ==
  ASSUME NEW S, NEW s \in Seq(S), NEW i \in 1 .. Len(s)
  PROVE  s[i] \in S
  OBVIOUS

(* A function from 1 .. n is a vector.                                      *)
LEMMA IsASeq ==
  ASSUME NEW n \in Nat, NEW S, NEW f \in [1 .. n -> S]
  PROVE  f \in Seq(S)
  OBVIOUS

(* A vector over a set is one over any larger set.                          *)
LEMMA SeqMonotonic ==
  ASSUME NEW S, NEW T, S \subseteq T, NEW s \in Seq(S)
  PROVE  s \in Seq(T)
  OBVIOUS

(* Two vectors of one length with the same elements are equal.              *)
LEMMA SeqEqual ==
  ASSUME NEW S, NEW s \in Seq(S), NEW t \in Seq(S), Len(s) = Len(t),
         \A i \in 1 .. Len(s) : s[i] = t[i]
  PROVE  s = t
  OBVIOUS

(* The empty vector, and that every other one has a positive length.        *)
LEMMA EmptySeq ==
  ASSUME NEW S
  PROVE  /\ <<>> \in Seq(S) /\ Len(<<>>) = 0
         /\ \A s \in Seq(S) : s # <<>> => Len(s) \in Nat \ {0}
  OBVIOUS

(* What \o returns.                                                         *)
LEMMA ConcatProperties ==
  ASSUME NEW S, NEW s \in Seq(S), NEW t \in Seq(S)
  PROVE  /\ s \o t \in Seq(S) /\ Len(s \o t) = Len(s) + Len(t)
         /\ \A i \in 1 .. Len(s) + Len(t) :
              (s \o t)[i] = IF i <= Len(s) THEN s[i] ELSE t[i - Len(s)]
  OBVIOUS

(* What SubSeq returns.                                                     *)
LEMMA SubSeqProperties ==
  ASSUME NEW S, NEW s, NEW m \in Int, NEW n \in Int, \A i \in m .. n : s[i] \in S
  PROVE  /\ SubSeq(s, m, n) \in Seq(S)
         /\ Len(SubSeq(s, m, n)) = IF m <= n THEN n - m + 1 ELSE 0
         /\ \A i \in 1 .. n - m + 1 : SubSeq(s, m, n)[i] = s[m + i - 1]
  OBVIOUS

(* What Head and Tail return.                                               *)
LEMMA HeadTailProperties ==
  ASSUME NEW S, NEW s \in Seq(S), s # <<>>
  PROVE  /\ Head(s) \in S /\ Tail(s) \in Seq(S) /\ Len(Tail(s)) = Len(s) - 1
         /\ \A i \in 1 .. Len(Tail(s)) : Tail(s)[i] = s[i + 1]
  OBVIOUS

(* A non-empty set of naturals has a least element.                         *)
LEMMA LeastNatural ==
  ASSUME NEW T \in SUBSET Nat, T # {}
  PROVE  \E x \in T : \A y \in T : x <= y
<1> DEFINE R == OpToRel(<, Nat)
<1>1. IsWellFoundedOn(R, Nat)
  BY NatLessThanWellFounded
<1>2. \A x, y \in Nat : <<x, y>> \in R <=> x < y
  BY DEF OpToRel
<1> HIDE DEF R
<1>3. PICK x \in T : \A y \in T : ~ (<<y, x>> \in R)
  BY <1>1, WFMin
<1>4. ASSUME NEW y \in T
      PROVE  x <= y
  <2>1. x \in Nat /\ y \in Nat
    OBVIOUS
  <2>2. ~ (y < x)
    BY <1>2, <1>3, <2>1
  <2>3. QED
    BY <2>1, <2>2
<1>5. QED
  BY <1>4

(* A non-empty set of naturals with an upper bound has a greatest element.  *)
LEMMA GreatestNatural ==
  ASSUME NEW N \in Nat, NEW T \in SUBSET (0 .. N), T # {}
  PROVE  \E x \in T : \A y \in T : y <= x
<1> DEFINE U == {N - t : t \in T}
<1>1. U \in SUBSET Nat /\ U # {}
  <2>1. \A t \in T : t \in 0 .. N /\ N - t \in Nat
    OBVIOUS
  <2>2. PICK t \in T : TRUE
    OBVIOUS
  <2>3. N - t \in U
    OBVIOUS
  <2>4. QED
    BY <2>1, <2>3
<1>2. PICK u \in U : \A v \in U : u <= v
  BY <1>1, LeastNatural
<1>3. PICK x \in T : u = N - x
  OBVIOUS
<1>4. ASSUME NEW y \in T
      PROVE  y <= x
  <2>1. N - y \in U
    OBVIOUS
  <2>2. N - x <= N - y
    BY <1>2, <1>3, <2>1
  <2>3. QED
    BY <2>2
<1>5. QED
  BY <1>4

(* The vector s with e inserted after its first n elements, and without the  *)
(* element that follows them.                                               *)
WithElement(s, n, e) == SubSeq(s, 1, n) \o <<e>> \o SubSeq(s, n + 1, Len(s))
WithoutElement(s, n) == SubSeq(s, 1, n) \o SubSeq(s, n + 2, Len(s))

(* std::vector::insert: the elements from the insertion point on move up.   *)
LEMMA InsertAtElements ==
  ASSUME NEW S, NEW s \in Seq(S), NEW e \in S, NEW n \in 0 .. Len(s)
  PROVE  /\ WithElement(s, n, e) \in Seq(S)
         /\ Len(WithElement(s, n, e)) = Len(s) + 1
         /\ \A k \in 1 .. n : WithElement(s, n, e)[k] = s[k]
         /\ WithElement(s, n, e)[n + 1] = e
         /\ \A k \in n + 2 .. Len(s) + 1 : WithElement(s, n, e)[k] = s[k - 1]
<1> DEFINE left == SubSeq(s, 1, n)
           right == SubSeq(s, n + 1, Len(s))
<1>1. /\ left \in Seq(S) /\ Len(left) = n
      /\ \A k \in 1 .. n : left[k] = s[k]
  BY SubSeqProperties, ElementOfSeq
<1>2. /\ right \in Seq(S) /\ Len(right) = Len(s) - n
      /\ \A k \in 1 .. Len(s) - n : right[k] = s[n + k]
  BY SubSeqProperties, ElementOfSeq
<1>3. /\ left \o <<e>> \in Seq(S) /\ Len(left \o <<e>>) = n + 1
      /\ \A k \in 1 .. n + 1 : (left \o <<e>>)[k] = IF k <= n THEN s[k] ELSE e
  <2>1. <<e>> \in Seq(S) /\ Len(<<e>>) = 1 /\ <<e>>[1] = e
    OBVIOUS
  <2> HIDE DEF left
  <2>2. QED
    BY <1>1, <2>1, ConcatProperties
<1> DEFINE prefix == left \o <<e>>
<1>4. WithElement(s, n, e) = prefix \o right
  BY Zenon DEF WithElement
<1>5. /\ prefix \in Seq(S) /\ Len(prefix) = n + 1
      /\ \A k \in 1 .. n + 1 : prefix[k] = IF k <= n THEN s[k] ELSE e
  BY <1>3
<1> HIDE DEF left, right, prefix
<1>6. /\ prefix \o right \in Seq(S)
      /\ Len(prefix \o right) = Len(prefix) + Len(right)
      /\ \A k \in 1 .. Len(prefix) + Len(right) :
           (prefix \o right)[k] =
             IF k <= Len(prefix) THEN prefix[k] ELSE right[k - Len(prefix)]
  BY <1>2, <1>5, ConcatProperties
<1>7. Len(prefix \o right) = Len(s) + 1
  BY <1>2, <1>5, <1>6
<1>8. /\ \A k \in 1 .. n : (prefix \o right)[k] = s[k]
      /\ (prefix \o right)[n + 1] = e
  BY <1>2, <1>5, <1>6
<1>9. ASSUME NEW k \in n + 2 .. Len(s) + 1
      PROVE  (prefix \o right)[k] = s[k - 1]
  <2>1. (prefix \o right)[k] = right[k - (n + 1)]
    BY <1>2, <1>5, <1>6
  <2>2. /\ k - (n + 1) \in 1 .. Len(s) - n
        /\ n + (k - (n + 1)) = k - 1
    OBVIOUS
  <2>3. QED
    BY <1>2, <2>1, <2>2
<1>10. QED
  BY <1>4, <1>6, <1>7, <1>8, <1>9

(* std::vector::erase: the elements after the erased one move down.         *)
LEMMA RemoveAtElements ==
  ASSUME NEW S, NEW s \in Seq(S), NEW n \in 0 .. Len(s) - 1
  PROVE  /\ WithoutElement(s, n) \in Seq(S)
         /\ Len(WithoutElement(s, n)) = Len(s) - 1
         /\ \A k \in 1 .. Len(s) - 1 :
              WithoutElement(s, n)[k] = IF k <= n THEN s[k] ELSE s[k + 1]
<1> DEFINE left == SubSeq(s, 1, n)
           right == SubSeq(s, n + 2, Len(s))
<1>1. /\ left \in Seq(S) /\ Len(left) = n
      /\ \A k \in 1 .. n : left[k] = s[k]
  BY SubSeqProperties, ElementOfSeq
<1>2. /\ right \in Seq(S) /\ Len(right) = Len(s) - n - 1
      /\ \A k \in 1 .. Len(s) - n - 1 : right[k] = s[n + 1 + k]
  BY SubSeqProperties, ElementOfSeq
<1>3. WithoutElement(s, n) = left \o right
  BY Zenon DEF WithoutElement
<1> HIDE DEF left, right
<1>4. /\ left \o right \in Seq(S)
      /\ Len(left \o right) = Len(left) + Len(right)
      /\ \A k \in 1 .. Len(left) + Len(right) :
           (left \o right)[k] =
             IF k <= Len(left) THEN left[k] ELSE right[k - Len(left)]
  BY <1>1, <1>2, ConcatProperties
<1>5. Len(left \o right) = Len(s) - 1
  BY <1>1, <1>2, <1>4
<1>6. ASSUME NEW k \in 1 .. Len(s) - 1
      PROVE  (left \o right)[k] = IF k <= n THEN s[k] ELSE s[k + 1]
  <2>1. CASE k <= n
    BY <1>1, <1>2, <1>4, <2>1
  <2>2. CASE k > n
    <3>1. (left \o right)[k] = right[k - n]
      BY <1>1, <1>2, <1>4, <2>2
    <3>2. /\ k - n \in 1 .. Len(s) - n - 1
          /\ n + 1 + (k - n) = k + 1
      BY <2>2
    <3>3. QED
      BY <1>2, <2>2, <3>1, <3>2
  <2>3. k <= n \/ k > n
    OBVIOUS
  <2>4. QED
    BY <2>1, <2>2, <2>3, Zenon
<1>7. QED
  BY <1>3, <1>4, <1>5, <1>6

(* Erasing an element from a vector without repetitions.                    *)
LEMMA RemoveAtDistinct ==
  ASSUME NEW S, NEW s \in Seq(S), NEW n \in 1 .. Len(s),
         \A i, j \in DOMAIN s : s[i] = s[j] => i = j
  PROVE  /\ WithoutElement(s, n - 1) \in Seq(S)
         /\ Len(WithoutElement(s, n - 1)) = Len(s) - 1
         /\ \A k \in 1 .. Len(s) - 1 :
              WithoutElement(s, n - 1)[k] = IF k < n THEN s[k] ELSE s[k + 1]
         /\ \A i, j \in DOMAIN WithoutElement(s, n - 1) :
              WithoutElement(s, n - 1)[i] = WithoutElement(s, n - 1)[j] => i = j
         /\ Range(WithoutElement(s, n - 1)) = Range(s) \ {s[n]}
<1> DEFINE t == WithoutElement(s, n - 1)
           m == Len(s)
           At(k) == IF k < n THEN k ELSE k + 1
<1>1. m \in Nat /\ n \in 1 .. m /\ DOMAIN s = 1 .. m
  OBVIOUS
<1>2. n - 1 \in 0 .. m - 1 /\ (n - 1) + 1 = n
  BY <1>1
<1>3. /\ t \in Seq(S) /\ Len(t) = m - 1
      /\ \A k \in 1 .. m - 1 : t[k] = IF k <= n - 1 THEN s[k] ELSE s[k + 1]
  <2> DEFINE p == n - 1
  <2>1. p \in 0 .. Len(s) - 1 /\ p + 1 = n
    BY <1>2
  <2> HIDE DEF p
  <2>2. /\ WithoutElement(s, p) \in Seq(S) /\ Len(WithoutElement(s, p)) = Len(s) - 1
        /\ \A k \in 1 .. Len(s) - 1 :
             WithoutElement(s, p)[k] = IF k <= p THEN s[k] ELSE s[k + 1]
    BY <2>1, RemoveAtElements, Zenon
  <2>3. WithoutElement(s, p) = t
    BY Zenon DEF p
  <2>4. QED
    BY <2>2, <2>3, Zenon DEF p
<1>4. DOMAIN t = 1 .. m - 1
  BY <1>3
<1> HIDE DEF t, m
<1>5. \A k \in 1 .. m - 1 : t[k] = IF k < n THEN s[k] ELSE s[k + 1]
  <2> SUFFICES ASSUME NEW k \in 1 .. m - 1
               PROVE  t[k] = IF k < n THEN s[k] ELSE s[k + 1]
    OBVIOUS
  <2>1. k <= n - 1 <=> k < n
    BY <1>1
  <2>2. QED
    BY <1>3, <2>1
<1>6. \A k \in 1 .. m - 1 : At(k) \in 1 .. m /\ t[k] = s[At(k)] /\ At(k) # n
  <2> SUFFICES ASSUME NEW k \in 1 .. m - 1
               PROVE  At(k) \in 1 .. m /\ t[k] = s[At(k)] /\ At(k) # n
    OBVIOUS
  <2>1. CASE k < n
    BY <1>1, <1>5, <2>1
  <2>2. CASE ~ (k < n)
    BY <1>1, <1>5, <2>2
  <2>3. QED
    BY <2>1, <2>2
<1>7. \A i, j \in 1 .. m - 1 : At(i) = At(j) => i = j
  <2> SUFFICES ASSUME NEW i \in Int, NEW j \in Int, At(i) = At(j)
               PROVE  i = j
    BY <1>1
  <2>1. n \in Int
    OBVIOUS
  <2>2. CASE i < n /\ j < n
    BY <2>2
  <2>3. CASE ~ (i < n) /\ ~ (j < n)
    BY <2>3
  <2>4. CASE i < n /\ ~ (j < n)
    BY <2>1, <2>4
  <2>5. CASE ~ (i < n) /\ j < n
    BY <2>1, <2>5
  <2>6. QED
    BY <2>2, <2>3, <2>4, <2>5
<1>8. \A k \in 1 .. m : k # n => \E i \in 1 .. m - 1 : At(i) = k
  <2> SUFFICES ASSUME NEW k \in 1 .. m, k # n
               PROVE  \E i \in 1 .. m - 1 : At(i) = k
    OBVIOUS
  <2>1. CASE k < n
    <3>1. k \in 1 .. m - 1 /\ At(k) = k
      BY <1>1, <2>1
    <3>2. QED
      BY <3>1
  <2>2. CASE k > n
    <3>1. k - 1 \in 1 .. m - 1 /\ At(k - 1) = k
      BY <1>1, <2>2
    <3>2. QED
      BY <3>1
  <2>3. QED
    BY <1>1, <2>1, <2>2
<1> HIDE DEF At
<1>9. \A i, j \in 1 .. m - 1 : t[i] = t[j] => i = j
  BY <1>1, <1>6, <1>7
<1>10. Range(t) = Range(s) \ {s[n]}
  <2>1. ASSUME NEW x \in Range(t)
        PROVE  x \in Range(s) /\ x # s[n]
    <3>1. PICK i \in 1 .. m - 1 : x = t[i]
      BY <1>4 DEF Range
    <3>2. x = s[At(i)] /\ At(i) \in 1 .. m /\ At(i) # n
      BY <1>6, <3>1
    <3>3. QED
      BY <1>1, <3>2 DEF Range
  <2>2. ASSUME NEW x \in Range(s), x # s[n]
        PROVE  x \in Range(t)
    <3>1. PICK k \in 1 .. m : x = s[k]
      BY <1>1 DEF Range
    <3>2. PICK i \in 1 .. m - 1 : At(i) = k
      BY <1>8, <2>2, <3>1
    <3>3. x = t[i]
      BY <1>6, <3>1, <3>2
    <3>4. QED
      BY <1>4, <3>3 DEF Range
  <2>3. QED
    BY <2>1, <2>2
<1>11. QED
  BY <1>3, <1>4, <1>5, <1>9, <1>10 DEF t, m

(* Taking the first element from a list.                                    *)
LEMMA HeadAndTail ==
  ASSUME NEW S, NEW s \in Seq(S), s # <<>>
  PROVE  /\ Head(s) \in S /\ Head(s) \in Range(s)
         /\ Tail(s) \in Seq(S)
         /\ Range(s) = {Head(s)} \union Range(Tail(s))
         /\ (\A i, j \in DOMAIN s : s[i] = s[j] => i = j) =>
              /\ Head(s) \notin Range(Tail(s))
              /\ \A i, j \in DOMAIN Tail(s) : Tail(s)[i] = Tail(s)[j] => i = j
<1> DEFINE t == Tail(s)
           m == Len(t)
<1>1. /\ s[1] \in S /\ t \in Seq(S) /\ m \in Nat /\ Len(s) = m + 1
      /\ \A i \in 1 .. m : t[i] = s[i + 1]
  BY HeadTailProperties, LenProperties, EmptySeq
<1>2. Head(s) = s[1]
  OBVIOUS
<1>3. DOMAIN s = 1 .. m + 1 /\ DOMAIN t = 1 .. m
  BY <1>1
<1> HIDE DEF t, m
<1>4. ASSUME NEW x \in Range(s)
      PROVE  x = s[1] \/ x \in Range(t)
  <2>1. PICK i \in 1 .. m + 1 : x = s[i]
    BY <1>3, Zenon DEF Range
  <2>2. CASE i = 1
    BY <2>1, <2>2
  <2>3. CASE i # 1
    <3>1. i - 1 \in 1 .. m /\ (i - 1) + 1 = i
      BY <1>1, <2>3
    <3>2. t[i - 1] = x
      BY <1>1, <2>1, <3>1
    <3>3. QED
      BY <1>3, <3>1, <3>2 DEF Range
  <2>4. QED
    BY <2>2, <2>3
<1>5. \A i \in 1 .. m : i + 1 \in 1 .. m + 1 /\ t[i] = s[i + 1]
  BY <1>1
<1>6. s[1] \in Range(s) /\ Range(t) \subseteq Range(s)
  <2>1. 1 \in DOMAIN s
    BY <1>1, <1>3
  <2>2. \A i \in DOMAIN t : \E j \in DOMAIN s : t[i] = s[j]
    BY <1>3, <1>5
  <2>3. QED
    BY <2>1, <2>2, Zenon DEF Range
<1>7. ASSUME \A i, j \in DOMAIN s : s[i] = s[j] => i = j
      PROVE  /\ s[1] \notin Range(t)
             /\ \A i, j \in DOMAIN t : t[i] = t[j] => i = j
  <2>1. ASSUME NEW i \in 1 .. m
        PROVE  s[1] # t[i]
    <3>1. 1 \in DOMAIN s /\ i + 1 \in DOMAIN s /\ i + 1 # 1
      BY <1>1, <1>3
    <3>2. QED
      BY <1>5, <1>7, <3>1
  <2>2. ASSUME NEW i \in 1 .. m, NEW j \in 1 .. m, t[i] = t[j]
        PROVE  i = j
    <3>1. i + 1 \in DOMAIN s /\ j + 1 \in DOMAIN s /\ s[i + 1] = s[j + 1]
      BY <1>3, <1>5, <2>2
    <3>2. i + 1 = j + 1
      BY <1>7, <3>1, Zenon
    <3>3. QED
      BY <3>2
  <2>3. QED
    BY <1>3, <2>1, <2>2 DEF Range
<1>8. QED
  BY <1>1, <1>2, <1>4, <1>6, <1>7 DEF t

(* Two lists, one after the other.                                          *)
LEMMA ConcatElements ==
  ASSUME NEW S, NEW s \in Seq(S), NEW t \in Seq(S)
  PROVE  /\ s \o t \in Seq(S)
         /\ DOMAIN (s \o t) = 1 .. Len(s) + Len(t)
         /\ \A i \in 1 .. Len(s) : i \in 1 .. Len(s) + Len(t) /\ (s \o t)[i] = s[i]
         /\ \A i \in 1 .. Len(t) :
              Len(s) + i \in 1 .. Len(s) + Len(t) /\ (s \o t)[Len(s) + i] = t[i]
         /\ \A i \in 1 .. Len(s) + Len(t) :
              i \in 1 .. Len(s) \/ \E j \in 1 .. Len(t) : i = Len(s) + j
         /\ Range(s \o t) = Range(s) \union Range(t)
<1> DEFINE u == s \o t
           m == Len(s)
           n == Len(t)
<1>1. /\ u \in Seq(S) /\ Len(u) = m + n
      /\ \A i \in 1 .. m + n : u[i] = IF i <= m THEN s[i] ELSE t[i - m]
  BY ConcatProperties
<1>2. /\ m \in Nat /\ n \in Nat /\ DOMAIN s = 1 .. m /\ DOMAIN t = 1 .. n
      /\ DOMAIN u = 1 .. m + n
  BY <1>1
<1> HIDE DEF u, m, n
<1>3. \A i \in 1 .. m : i \in 1 .. m + n /\ u[i] = s[i]
  BY <1>1, <1>2
<1>4. ASSUME NEW i \in 1 .. n
      PROVE  m + i \in 1 .. m + n /\ u[m + i] = t[i]
  <2>1. m + i \in 1 .. m + n /\ ~ (m + i <= m) /\ (m + i) - m = i
    BY <1>2
  <2>2. u[m + i] = t[(m + i) - m]
    BY <1>1, <2>1
  <2>3. QED
    BY <2>1, <2>2
<1>5. ASSUME NEW i \in 1 .. m + n, i \notin 1 .. m
      PROVE  \E j \in 1 .. n : i = m + j
  <2>1. i - m \in 1 .. n /\ i = m + (i - m)
    BY <1>2, <1>5
  <2>2. QED
    BY <2>1
<1>6. Range(u) = Range(s) \union Range(t)
  <2>1. Range(u) = {u[i] : i \in 1 .. m + n}
    BY <1>2, Zenon DEF Range
  <2>2. Range(s) = {s[i] : i \in 1 .. m} /\ Range(t) = {t[i] : i \in 1 .. n}
    BY <1>2, Zenon DEF Range
  <2>3. Range(s) \subseteq Range(u) /\ Range(t) \subseteq Range(u)
    BY <1>3, <1>4, <2>1, <2>2
  <2>4. ASSUME NEW i \in 1 .. m + n
        PROVE  u[i] \in Range(s) \union Range(t)
    BY <1>3, <1>4, <1>5, <2>2
  <2>5. QED
    BY <2>1, <2>3, <2>4
<1>7. \A i \in 1 .. m + n : i \in 1 .. m \/ \E j \in 1 .. n : i = m + j
  BY <1>5, Zenon
<1>8. \A i \in 1 .. n : m + i \in 1 .. m + n /\ u[m + i] = t[i]
  BY <1>4, Zenon
<1>9. QED
  BY <1>1, <1>2, <1>3, <1>6, <1>7, <1>8, Zenon DEF u, m, n

(* A list with one more element at its end.                                 *)
LEMMA AppendElements ==
  ASSUME NEW S, NEW s \in Seq(S), NEW e \in S
  PROVE  /\ Append(s, e) \in Seq(S)
         /\ Len(Append(s, e)) = Len(s) + 1
         /\ \A i \in 1 .. Len(s) : i \in 1 .. Len(s) + 1 /\ Append(s, e)[i] = s[i]
         /\ Append(s, e)[Len(s) + 1] = e
         /\ Range(Append(s, e)) = Range(s) \union {e}
         /\ e \notin Range(s) /\ (\A i, j \in DOMAIN s : s[i] = s[j] => i = j) =>
              \A i, j \in DOMAIN Append(s, e) : Append(s, e)[i] = Append(s, e)[j] => i = j
<1> DEFINE t == Append(s, e)
           m == Len(s)
<1>1. /\ t \in Seq(S) /\ Len(t) = m + 1 /\ m \in Nat /\ DOMAIN t = 1 .. m + 1
      /\ DOMAIN s = 1 .. m
      /\ \A i \in 1 .. m : i \in 1 .. m + 1 /\ t[i] = s[i]
      /\ t[m + 1] = e /\ m + 1 \in 1 .. m + 1
  OBVIOUS
<1> HIDE DEF t, m
<1>2. \A i \in 1 .. m + 1 : i \in 1 .. m \/ i = m + 1
  BY <1>1
<1>3. Range(t) = Range(s) \union {e}
  BY <1>1, <1>2 DEF Range
<1>4. ASSUME e \notin Range(s), \A i, j \in DOMAIN s : s[i] = s[j] => i = j
      PROVE  \A i, j \in DOMAIN t : t[i] = t[j] => i = j
  <2>1. \A i \in 1 .. m : t[i] # e
    BY <1>1, <1>4 DEF Range
  <2>2. QED
    BY <1>1, <1>2, <1>4, <2>1
<1>5. QED
  BY <1>1, <1>3, <1>4 DEF t, m

(* The first n + 1 values of a function that is given by its value at 0 and *)
(* by how each value follows from the one before.                           *)
IsPrefixOfRecursion(g, n, T, a, step) ==
  /\ g \in [0 .. n -> T] /\ g[0] = a
  /\ \A k \in 1 .. n : g[k] = step[<<k, g[k - 1]>>]

(* There is such a function.                                                *)
LEMMA RecursionExists ==
  ASSUME NEW T, NEW a \in T, NEW step \in [Nat \X T -> T], NEW n \in Nat
  PROVE  \E g : IsPrefixOfRecursion(g, n, T, a, step)
<1> DEFINE Bad == {m \in Nat : ~ \E g : IsPrefixOfRecursion(g, m, T, a, step)}
<1>1. SUFFICES ASSUME Bad # {}
               PROVE  FALSE
  OBVIOUS
<1>2. PICK m \in Bad : \A y \in Bad : m <= y
  <2>1. Bad \in SUBSET Nat
    OBVIOUS
  <2>2. QED
    BY <1>1, <2>1, LeastNatural
<1>3. m # 0
  <2>1. IsPrefixOfRecursion([k \in 0 .. 0 |-> a], 0, T, a, step)
    BY DEF IsPrefixOfRecursion
  <2>2. QED
    BY <2>1
<1>4. m - 1 \in Nat /\ m - 1 \notin Bad /\ m \in Nat
  BY <1>2, <1>3
<1>5. PICK g : IsPrefixOfRecursion(g, m - 1, T, a, step)
  BY <1>4
<1> DEFINE h == [k \in 0 .. m |-> IF k = m THEN step[<<m, g[m - 1]>>] ELSE g[k]]
<1>6. /\ g \in [0 .. m - 1 -> T] /\ g[0] = a
      /\ \A k \in 1 .. m - 1 : g[k] = step[<<k, g[k - 1]>>]
  BY <1>5 DEF IsPrefixOfRecursion
<1>7. m - 1 \in 0 .. m - 1 /\ step[<<m, g[m - 1]>>] \in T
  BY <1>4, <1>6
<1>8. \A k \in 0 .. m : k # m => k \in 0 .. m - 1
  BY <1>4
<1>9. h \in [0 .. m -> T]
  BY <1>6, <1>7, <1>8
<1>10. h[0] = a
  BY <1>3, <1>4, <1>6
<1>11. ASSUME NEW k \in 1 .. m
       PROVE  h[k] = step[<<k, h[k - 1]>>]
  <2>1. k - 1 \in 0 .. m /\ k - 1 # m /\ k \in 0 .. m /\ h[k - 1] = g[k - 1]
    BY <1>4
  <2>2. CASE k = m
    BY <2>1, <2>2
  <2>3. CASE k # m
    <3>1. k \in 1 .. m - 1 /\ h[k] = g[k]
      BY <1>4, <2>1, <2>3
    <3>2. QED
      BY <1>6, <2>1, <3>1
  <2>4. QED
    BY <2>2, <2>3
<1>12. IsPrefixOfRecursion(h, m, T, a, step)
  BY <1>9, <1>10, <1>11 DEF IsPrefixOfRecursion
<1>13. QED
  BY <1>2, <1>12
=============================================================================
