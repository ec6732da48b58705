------------------------ MODULE InsertionPointProofs ------------------------
(***************************************************************************)
(* What a pass may rely on when it inserts an operation at the point that   *)
(* FindInsertionPoint returns: the operation is next to one that is in all  *)
(* of its loops, and the nests stay a tree.                                 *)
(***************************************************************************)
EXTENDS InsertionPoint, VectorLemmas

(* The order of two operations of a sequence without repetitions.           *)
IsDistinct(s) == \A i, j \in DOMAIN s : s[i] = s[j] => i = j
Precedes(s, x, y) == Number(s, x) < Number(s, y)
-----------------------------------------------------------------------------
(* Insertion into a sequence of loop nests.                                 *)

(* t is s with e inserted after the first m elements.                       *)
IsInserted(t, s, m, e) ==
  /\ DOMAIN t = 1 .. Len(s) + 1
  /\ \A k \in 1 .. m : t[k] = s[k]
  /\ t[m + 1] = e
  /\ \A k \in m + 2 .. Len(s) + 1 : t[k] = s[k - 1]

(* The two nests have no loop in common beyond the first n.                 *)
ShareAtMost(a, b, n) == \A p \in DOMAIN a : p \in DOMAIN b /\ a[p] = b[p] => p <= n

(* Loops that nests of a tree share, and the nests between them.            *)
LEMMA SharedInTree ==
  ASSUME NEW nests \in Seq(Seq(LoopNames)), IsTree(nests),
         NEW i \in DOMAIN nests, NEW j \in DOMAIN nests,
         NEW p \in DOMAIN nests[i], NEW q \in DOMAIN nests[j], nests[i][p] = nests[j][q]
  PROVE  /\ p = q
         /\ \A k \in i .. j : SharesLoops(nests[i], nests[k], p)
         /\ \A k \in j .. i : SharesLoops(nests[j], nests[k], p)
<1>1. p = q /\ \A k \in i .. j : SharesLoops(nests[i], nests[k], p)
  BY DEF IsTree
<1>2. \A k \in j .. i : SharesLoops(nests[j], nests[k], q)
  BY DEF IsTree
<1>3. QED
  BY <1>1, <1>2

(* Two elements around the gap after the first m, before and after the      *)
(* insertion.                                                               *)
LEMMA AroundGap ==
  ASSUME NEW L \in Nat, NEW m \in Nat, NEW i \in 1 .. L + 1, NEW j \in 1 .. L + 1,
         i # m + 1, j # m + 1, m + 1 \in i .. j
  PROVE  /\ i <= m /\ j > m /\ m + 1 <= j - 1 /\ 0 < m /\ m < L
         /\ m \in i .. j - 1 /\ m + 1 \in i .. j - 1 /\ m \in 1 .. L /\ m + 1 \in 1 .. L
OBVIOUS

(* A place in a nest.                                                       *)
LEMMA PlaceInNest ==
  ASSUME NEW n \in Nat, NEW p \in 1 .. n
  PROVE  p \in 1 .. p /\ p \in Nat /\ 1 <= p
OBVIOUS

(* A nest that is the start of one of its neighbours, and holds all loops   *)
(* that both have in common, splits no loop.                                *)
LEMMA TreeWith ==
  ASSUME NEW nests \in Seq(Seq(LoopNames)), IsTree(nests),
         NEW new \in Seq(LoopNames), NEW m \in 0 .. Len(nests),
         NEW t, IsInserted(t, nests, m, new),
         NEW b \in DOMAIN nests, b \in {m, m + 1},
         SharesLoops(new, nests[b], Len(new)),
         0 < m /\ m < Len(nests) => ShareAtMost(nests[m], nests[m + 1], Len(new))
  PROVE  IsTree(t)
<1> DEFINE L == Len(nests)
           Old(k) == IF k <= m THEN k ELSE k - 1
<1>1. L \in Nat /\ DOMAIN nests = 1 .. L /\ m \in Nat /\ b \in Nat /\ 1 <= b /\ b <= L
  BY LenProperties
<1>2. \A k \in 1 .. L + 1 : k # m + 1 => Old(k) \in 1 .. L /\ t[k] = nests[Old(k)]
  BY <1>1 DEF IsInserted
<1>3. DOMAIN t = 1 .. L + 1 /\ t[m + 1] = new
  BY <1>1 DEF IsInserted
<1>4. \A k \in 1 .. L : nests[k] \in Seq(LoopNames)
  BY <1>1, ElementOfSeq
<1>5. /\ Len(new) \in Nat /\ DOMAIN new = 1 .. Len(new)
      /\ \A k \in 1 .. L : Len(nests[k]) \in Nat /\ DOMAIN nests[k] = 1 .. Len(nests[k])
  BY <1>4, LenProperties
<1>6. /\ Len(new) <= Len(nests[b])
      /\ \A k \in 1 .. Len(new) : new[k] = nests[b][k]
  BY DEF SharesLoops
<1> HIDE DEF L
  \* what shares loops with the neighbour shares them with the new nest
<1>7. ASSUME NEW k \in 1 .. L, NEW p \in 1 .. Len(new), SharesLoops(nests[b], nests[k], p)
      PROVE  SharesLoops(new, nests[k], p)
  BY <1>1, <1>5, <1>6, <1>7 DEF SharesLoops
<1>8. ASSUME NEW k \in 1 .. L, NEW p \in 1 .. Len(new), SharesLoops(nests[k], nests[b], p)
      PROVE  SharesLoops(nests[k], new, p)
  BY <1>1, <1>5, <1>6, <1>8 DEF SharesLoops
<1>9. ASSUME NEW i \in 1 .. L, NEW j \in 1 .. L, NEW p \in DOMAIN nests[i], NEW q \in DOMAIN nests[j],
             nests[i][p] = nests[j][q]
      PROVE  /\ p = q /\ p \in Nat
             /\ \A k \in i .. j : k \in 1 .. L /\ SharesLoops(nests[i], nests[k], p)
  <2>1. p = q /\ \A k \in i .. j : SharesLoops(nests[i], nests[k], p)
    <3>1. i \in DOMAIN nests /\ j \in DOMAIN nests
      BY <1>1
    <3>2. QED
      BY <1>9, <3>1, Zenon DEF IsTree
  <2>2. QED
    BY <1>1, <1>5, <2>1
<1>10. ASSUME NEW i \in 1 .. L + 1, NEW j \in 1 .. L + 1,
              NEW p \in DOMAIN t[i], NEW q \in DOMAIN t[j], t[i][p] = t[j][q]
       PROVE  p = q /\ \A k \in i .. j : SharesLoops(t[i], t[k], p)
  <2>1. CASE i # m + 1 /\ j # m + 1
    <3> DEFINE x == Old(i)
               y == Old(j)
    <3>1. x \in 1 .. L /\ y \in 1 .. L /\ t[i] = nests[x] /\ t[j] = nests[y]
      BY <1>2, <2>1
    <3>0. /\ i <= m => x = i
          /\ i > m => x = i - 1 /\ x > m
          /\ j <= m => y = j
          /\ j > m => y = j - 1 /\ y > m
      BY <1>1, <2>1
    <3> HIDE DEF x, y
    <3>2. p = q /\ p \in Nat /\ \A k \in x .. y : k \in 1 .. L /\ SharesLoops(nests[x], nests[k], p)
      <4>1. p \in DOMAIN nests[x] /\ q \in DOMAIN nests[y] /\ nests[x][p] = nests[y][q]
        BY <1>10, <3>1, Zenon
      <4>2. QED
        BY <1>9, <3>1, <4>1, Zenon
    <3>3. ASSUME NEW k \in i .. j, k # m + 1
          PROVE  SharesLoops(t[i], t[k], p)
      <4>1. Old(k) \in x .. y /\ k \in 1 .. L + 1
        BY <1>1, <2>1, <3>0, <3>1, <3>3, SMTT(30)
      <4>2. t[k] = nests[Old(k)]
        BY <1>2, <3>3, <4>1
      <4>3. QED
        BY <3>1, <3>2, <4>1, <4>2, SMTT(30)
    <3>4. ASSUME m + 1 \in i .. j
          PROVE  SharesLoops(t[i], t[m + 1], p)
      <4>0. /\ i <= m /\ j > m /\ 0 < m /\ m < L
            /\ m \in i .. j - 1 /\ m + 1 \in i .. j - 1 /\ m \in 1 .. L /\ m + 1 \in 1 .. L
        BY <1>1, <2>1, <3>4, AroundGap
      <4>1. 0 < m /\ m < L /\ x = i /\ y = j - 1
        BY <3>0, <4>0, Zenon
      <4>2. /\ m \in x .. y /\ m + 1 \in x .. y /\ b \in x .. y /\ m \in 1 .. L /\ m + 1 \in 1 .. L
        BY <4>0, <4>1, Zenon
      <4>3. /\ SharesLoops(nests[x], nests[m], p) /\ SharesLoops(nests[x], nests[m + 1], p)
            /\ SharesLoops(nests[x], nests[b], p)
        BY <3>2, <4>2
      <4>4. p \in 1 .. Len(nests[m]) /\ p \in 1 .. Len(nests[m + 1])
            /\ nests[m][p] = nests[m + 1][p]
        <5>1. p \in 1 .. Len(nests[x])
          BY <1>5, <1>10, <3>1, Zenon
        <5>2. Len(nests[m]) \in Nat /\ Len(nests[m + 1]) \in Nat /\ Len(nests[x]) \in Nat
          BY <1>5, <3>1, <4>2
        <5>3. p \in 1 .. p /\ p \in Nat /\ 1 <= p
          BY <5>1, <5>2, PlaceInNest, Zenon
        <5>4. /\ p <= Len(nests[m]) /\ nests[x][p] = nests[m][p]
              /\ p <= Len(nests[m + 1]) /\ nests[x][p] = nests[m + 1][p]
          BY <4>3, <5>3, Zenon DEF SharesLoops
        <5>5. QED
          BY <5>2, <5>3, <5>4
      <4>5. p <= Len(new)
        <5>1. ShareAtMost(nests[m], nests[m + 1], Len(new))
          BY <4>1 DEF L
        <5>2. QED
          BY <1>5, <4>2, <4>4, <5>1, SMTT(30) DEF ShareAtMost
      <4>6. p \in 1 .. Len(new)
        BY <1>5, <4>4, <4>5
      <4>7. QED
        BY <1>3, <1>8, <3>1, <4>3, <4>6
    <3>5. QED
      BY <3>2, <3>3, <3>4
  <2>2. CASE i = m + 1 /\ j # m + 1
    <3> DEFINE y == Old(j)
    <3>1. y \in 1 .. L /\ t[i] = new /\ t[j] = nests[y]
      BY <1>2, <1>3, <2>2
    <3>2. p \in 1 .. Len(new) /\ p \in DOMAIN nests[b] /\ nests[b][p] = nests[y][q]
      BY <1>1, <1>5, <1>6, <1>10, <3>1
    <3>3. p = q /\ \A k \in b .. y : k \in 1 .. L /\ SharesLoops(nests[b], nests[k], p)
      BY <1>1, <1>9, <1>10, <3>1, <3>2
    <3>4. ASSUME NEW k \in i .. j
          PROVE  SharesLoops(t[i], t[k], p)
      <4>1. CASE k = m + 1
        <5>1. t[k] = new /\ p <= Len(new)
          BY <1>3, <1>5, <3>2, <4>1
        <5>2. QED
          BY <3>1, <5>1 DEF SharesLoops
      <4>2. CASE k # m + 1
        <5>1. Old(k) \in b .. y /\ k \in 1 .. L + 1
          BY <1>1, <2>2, <4>2
        <5>2. t[k] = nests[Old(k)]
          BY <1>2, <4>2, <5>1
        <5>3. QED
          BY <1>7, <3>1, <3>2, <3>3, <5>1, <5>2, SMTT(30)
      <4>3. QED
        BY <4>1, <4>2
    <3>5. QED
      BY <3>3, <3>4
  <2>3. CASE i # m + 1 /\ j = m + 1
    <3> DEFINE x == Old(i)
    <3>1. x \in 1 .. L /\ t[i] = nests[x] /\ t[j] = new
      BY <1>2, <1>3, <2>3
    <3>2. q \in 1 .. Len(new) /\ q \in DOMAIN nests[b] /\ nests[x][p] = nests[b][q]
      BY <1>1, <1>5, <1>6, <1>10, <3>1
    <3>3. p = q /\ \A k \in x .. b : k \in 1 .. L /\ SharesLoops(nests[x], nests[k], p)
      BY <1>1, <1>9, <1>10, <3>1, <3>2
    <3>4. ASSUME NEW k \in i .. j
          PROVE  SharesLoops(t[i], t[k], p)
      <4>1. CASE k = m + 1
        <5>1. b \in x .. b
          BY <1>1, <2>3, <3>1, <4>1
        <5>2. QED
          BY <1>3, <1>8, <3>1, <3>2, <3>3, <4>1, <5>1, SMTT(30)
      <4>2. CASE k # m + 1
        <5>1. Old(k) \in x .. b /\ k \in 1 .. L + 1
          BY <1>1, <2>3, <4>2
        <5>2. t[k] = nests[Old(k)]
          BY <1>2, <4>2, <5>1
        <5>3. QED
          BY <3>1, <3>3, <5>1, <5>2, SMTT(30)
      <4>3. QED
        BY <4>1, <4>2
    <3>5. QED
      BY <3>3, <3>4
  <2>4. CASE i = m + 1 /\ j = m + 1
    <3>1. t[i] = new /\ t[j] = new
      BY <1>3, <2>4
    <3>2. p \in 1 .. Len(new) /\ q \in 1 .. Len(new) /\ nests[b][p] = nests[b][q]
      BY <1>5, <1>6, <1>10, <3>1
    <3>3. p \in DOMAIN nests[b] /\ q \in DOMAIN nests[b]
      BY <1>1, <1>5, <1>6, <3>2
    <3>4. p = q
      BY <1>1, <1>9, <3>2, <3>3
    <3>5. \A k \in i .. j : t[k] = new
      BY <1>1, <1>3, <2>4
    <3>6. QED
      BY <1>5, <3>1, <3>2, <3>4, <3>5 DEF SharesLoops
  <2>5. QED
    BY <2>1, <2>2, <2>3, <2>4
<1>11. QED
  BY <1>3, <1>10 DEF IsTree
-----------------------------------------------------------------------------
(* Insertion into the sequence.                                             *)

(* Operations are numbered from 0.                                          *)
LEMMA NumberIs ==
  ASSUME NEW S, NEW s \in Seq(S), IsDistinct(s), NEW i \in DOMAIN s
  PROVE  Number(s, s[i]) = i - 1 /\ i \in 1 .. Len(s) /\ Len(s) \in Nat
<1>1. (CHOOSE k \in DOMAIN s : s[k] = s[i]) = i
  BY DEF IsDistinct
<1>2. QED
  BY <1>1, LenProperties, Zenon DEF Number

(* Every operation has a number.                                            *)
LEMMA NumberExists ==
  ASSUME NEW S, NEW s \in Seq(S), IsDistinct(s), NEW x \in Range(s)
  PROVE  /\ Number(s, x) \in 0 .. Len(s) - 1 /\ Len(s) \in Nat
         /\ Number(s, x) + 1 \in DOMAIN s /\ s[Number(s, x) + 1] = x
<1>1. PICK i \in DOMAIN s : x = s[i]
  BY DEF Range
<1>2. Number(s, x) = i - 1 /\ i \in 1 .. Len(s) /\ Len(s) \in Nat
  BY <1>1, NumberIs
<1>3. i - 1 + 1 = i
  BY <1>2
<1>4. QED
  BY <1>1, <1>2, <1>3

(* The gap that a point is about comes after the first Gap elements.        *)
Gap(b, direction) == IF direction = "kAfter" THEN b ELSE b - 1

(* The sequence after an insertion.                                         *)
LEMMA InsertElements ==
  ASSUME NEW T, NEW s \in Seq(T), IsDistinct(s), NEW e \in T, e \notin Range(s),
         NEW b \in DOMAIN s, NEW direction, NEW nest
  PROVE  LET t == Insert(s, e, Point(s[b], direction, nest))
             m == Gap(b, direction)
         IN  /\ m \in 0 .. Len(s) /\ Len(s) \in Nat
             /\ t \in Seq(T) /\ Len(t) = Len(s) + 1
             /\ IsInserted(t, s, m, e)
             /\ IsDistinct(t)
             /\ Range(t) = Range(s) \union {e}
<1> DEFINE m == Gap(b, direction)
           point == Point(s[b], direction, nest)
           t == Insert(s, e, point)
<1>1. Number(s, s[b]) = b - 1 /\ b \in 1 .. Len(s) /\ Len(s) \in Nat
  BY NumberIs
<1>2. m \in 0 .. Len(s) /\ InsertionIndex(s, point) = m
  BY <1>1 DEF Gap, InsertionIndex, Point
<1>3. t = WithElement(s, m, e)
  BY <1>2, Zenon DEF Insert, WithElement
<1> HIDE DEF m, t, point
<1>4. /\ t \in Seq(T) /\ Len(t) = Len(s) + 1
      /\ \A k \in 1 .. m : t[k] = s[k]
      /\ t[m + 1] = e
      /\ \A k \in m + 2 .. Len(s) + 1 : t[k] = s[k - 1]
  <2>1. m \in 0 .. Len(s)
    BY <1>2
  <2>2. t \in Seq(T) /\ Len(t) = Len(s) + 1
    BY <1>3, <2>1, InsertAtElements
  <2>3. \A k \in 1 .. m : t[k] = s[k]
    BY <1>3, <2>1, InsertAtElements
  <2>4. t[m + 1] = e
    BY <1>3, <2>1, InsertAtElements
  <2>5. \A k \in m + 2 .. Len(s) + 1 : t[k] = s[k - 1]
    BY <1>3, <2>1, InsertAtElements
  <2>6. QED
    BY <2>2, <2>3, <2>4, <2>5, Zenon
<1>5. DOMAIN t = 1 .. Len(s) + 1 /\ DOMAIN s = 1 .. Len(s)
  BY <1>4, LenProperties
<1>6. IsInserted(t, s, m, e)
  BY <1>4, <1>5 DEF IsInserted
<1>7. \A k \in 1 .. Len(s) : s[k] # e
  BY <1>5 DEF Range
<1>8. \A k \in 1 .. Len(s) + 1 :
        \/ k = m + 1 /\ t[k] = e
        \/ k <= m /\ k \in 1 .. Len(s) /\ t[k] = s[k]
        \/ k > m + 1 /\ k - 1 \in 1 .. Len(s) /\ t[k] = s[k - 1]
  BY <1>1, <1>2, <1>4
<1>9. IsDistinct(t)
  <2> SUFFICES ASSUME NEW i \in 1 .. Len(s) + 1, NEW j \in 1 .. Len(s) + 1, t[i] = t[j]
               PROVE  i = j
    BY <1>5 DEF IsDistinct
  <2>1. \A k, l \in 1 .. Len(s) : s[k] = s[l] => k = l
    BY <1>5 DEF IsDistinct
  <2>2. /\ m \in Nat /\ i \in Nat /\ j \in Nat
        /\ \A k \in 1 .. Len(s) : k \in Nat
    BY <1>1, <1>2
  <2>3. CASE i = m + 1
    BY <1>7, <1>8, <2>2, <2>3
  <2>4. CASE j = m + 1
    BY <1>7, <1>8, <2>2, <2>4
  <2>5. CASE i <= m /\ j <= m
    <3>1. i \in 1 .. Len(s) /\ j \in 1 .. Len(s) /\ t[i] = s[i] /\ t[j] = s[j]
      BY <1>8, <2>2, <2>5
    <3>2. QED
      BY <2>1, <3>1, Zenon
  <2>6. CASE i <= m /\ j > m + 1
    <3>1. i \in 1 .. Len(s) /\ j - 1 \in 1 .. Len(s) /\ t[i] = s[i] /\ t[j] = s[j - 1]
      BY <1>8, <2>2, <2>6
    <3>2. i = j - 1
      BY <2>1, <3>1, Zenon
    <3>3. QED
      BY <2>2, <2>6, <3>2
  <2>7. CASE i > m + 1 /\ j <= m
    <3>1. i - 1 \in 1 .. Len(s) /\ j \in 1 .. Len(s) /\ t[i] = s[i - 1] /\ t[j] = s[j]
      BY <1>8, <2>2, <2>7
    <3>2. i - 1 = j
      BY <2>1, <3>1, Zenon
    <3>3. QED
      BY <2>2, <2>7, <3>2
  <2>8. CASE i > m + 1 /\ j > m + 1
    <3>1. /\ i - 1 \in 1 .. Len(s) /\ j - 1 \in 1 .. Len(s)
          /\ t[i] = s[i - 1] /\ t[j] = s[j - 1]
      BY <1>8, <2>2, <2>8
    <3>2. i - 1 = j - 1
      BY <2>1, <3>1, Zenon
    <3>3. QED
      BY <2>2, <3>2
  <2>9. QED
    BY <2>2, <2>3, <2>4, <2>5, <2>6, <2>7, <2>8
<1>10. Range(t) = Range(s) \union {e}
  <2>1. \A x \in Range(t) : x \in Range(s) \union {e}
    BY <1>5, <1>8 DEF Range
  <2>2. e \in Range(t)
    <3>1. m + 1 \in 1 .. Len(s) + 1
      BY <1>1, <1>2
    <3>2. QED
      BY <1>4, <1>5, <3>1 DEF Range
  <2>3. ASSUME NEW k \in 1 .. Len(s)
        PROVE  s[k] \in Range(t)
    <3>1. CASE k <= m
      <4>1. k \in 1 .. m /\ k \in 1 .. Len(s) + 1
        BY <1>1, <1>2, <3>1
      <4>2. QED
        BY <1>4, <1>5, <4>1 DEF Range
    <3>2. CASE k > m
      <4>1. k + 1 \in m + 2 .. Len(s) + 1 /\ k + 1 \in 1 .. Len(s) + 1 /\ k + 1 - 1 = k
        BY <1>1, <1>2, <3>2
      <4>2. t[k + 1] = s[k]
        BY <1>4, <4>1
      <4>3. QED
        BY <1>5, <4>1, <4>2 DEF Range
    <3>3. QED
      BY <1>1, <1>2, <3>1, <3>2
  <2>4. \A x \in Range(s) : x \in Range(t)
    BY <1>5, <2>3 DEF Range
  <2>5. QED
    BY <2>1, <2>2, <2>4
<1>11. QED
  BY <1>1, <1>2, <1>4, <1>6, <1>9, <1>10 DEF m, t, point

(* The order after an insertion.                                            *)
LEMMA InsertOrder ==
  ASSUME NEW T, NEW s \in Seq(T), IsDistinct(s), NEW t \in Seq(T), IsDistinct(t),
         Len(t) = Len(s) + 1, NEW m \in 0 .. Len(s), NEW e, IsInserted(t, s, m, e)
  PROVE  /\ Number(t, e) = m
         /\ \A x \in Range(s) :
              Number(t, x) = IF Number(s, x) < m THEN Number(s, x) ELSE Number(s, x) + 1
<1>1. Len(s) \in Nat /\ DOMAIN s = 1 .. Len(s) /\ DOMAIN t = 1 .. Len(s) + 1
  BY LenProperties DEF IsInserted
<1>2. Number(t, e) = m
  <2>0. PICK i : i = m + 1
    BY Zenon
  <2>1. i \in DOMAIN t /\ t[i] = e
    BY <1>1, <2>0 DEF IsInserted
  <2>2. Number(t, e) = i - 1
    BY <2>1, NumberIs
  <2>3. QED
    BY <1>1, <2>0, <2>2
<1>3. ASSUME NEW x \in Range(s)
      PROVE  Number(t, x) = IF Number(s, x) < m THEN Number(s, x) ELSE Number(s, x) + 1
  <2>1. PICK n : n = Number(s, x)
    BY Zenon
  <2>2. n \in 0 .. Len(s) - 1 /\ s[n + 1] = x
    BY <2>1, NumberExists
  <2>3. CASE n < m
    <3>0. PICK i : i = n + 1
      BY Zenon
    <3>1. i \in 1 .. m /\ i \in DOMAIN t /\ i - 1 = n
      BY <1>1, <2>2, <2>3, <3>0
    <3>2. t[i] = x
      BY <2>2, <3>0, <3>1 DEF IsInserted
    <3>3. QED
      BY <2>1, <2>3, <3>1, <3>2, NumberIs, Zenon
  <2>4. CASE ~ (n < m)
    <3>0. PICK i : i = n + 2
      BY Zenon
    <3>1. i \in m + 2 .. Len(s) + 1 /\ i \in DOMAIN t /\ i - 1 = n + 1
      BY <1>1, <2>2, <2>4, <3>0
    <3>2. t[i] = x
      BY <2>2, <3>1 DEF IsInserted
    <3>3. Number(t, x) = i - 1
      BY <3>1, <3>2, NumberIs
    <3>4. QED
      BY <2>1, <2>4, <3>1, <3>3
  <2>5. QED
    BY <2>3, <2>4
<1>4. QED
  BY <1>2, <1>3
-----------------------------------------------------------------------------
(* The walk of FindInsertionPoint.                                          *)

(* The greatest of the places where two nests agree.                        *)
LEMMA CommonLoopsAre ==
  ASSUME NEW start, NEW nest, NEW common \in Nat
  PROVE  LET n == NumCommonLoops(start, nest, common)
         IN  /\ n \in 0 .. common
             /\ n # 0 => n <= Len(nest) /\ nest[n] = start[n]
             /\ \A k \in 1 .. common : k <= Len(nest) /\ nest[k] = start[k] => k <= n
<1> DEFINE K == {0} \union {k \in 1 .. common : k <= Len(nest) /\ nest[k] = start[k]}
<1>1. K \in SUBSET (0 .. common) /\ K # {}
  OBVIOUS
<1>2. PICK x \in K : \A y \in K : y <= x
  BY <1>1, GreatestNatural, Zenon
<1>3. Max(K) \in K /\ \A y \in K : y <= Max(K)
  <2>1. \A y \in K : x >= y
    BY <1>1, <1>2
  <2>2. Max(K) \in K /\ \A y \in K : Max(K) >= y
    BY <2>1, Zenon DEF Max
  <2>3. QED
    BY <1>1, <2>2
<1>4. QED
  BY <1>1, <1>3 DEF NumCommonLoops

(* How many loops are in common after k steps, as FindInsertionPoint counts *)
(* them.                                                                    *)
At(s, start, direction, k) == Number(s, start) + k * Delta(direction)
InProgram(s, start, direction, k) == At(s, start, direction, k) \in 0 .. Len(s) - 1

Common(s, nestOf, start, direction) ==
  LET nest == nestOf[start]
      common[k \in 0 .. Len(s)] ==
        IF k = 0 \/ ~ InProgram(s, start, direction, k) THEN Len(nest)
        ELSE NumCommonLoops(nest, nestOf[s[At(s, start, direction, k) + 1]], common[k - 1])
  IN  common

IsCommon(common, s, nestOf, start, direction) ==
  /\ common \in [0 .. Len(s) -> 0 .. Len(nestOf[start])]
  /\ common[0] = Len(nestOf[start])
  /\ \A k \in 1 .. Len(s) : InProgram(s, start, direction, k) =>
       common[k] =
         NumCommonLoops(nestOf[start], nestOf[s[At(s, start, direction, k) + 1]], common[k - 1])

(* The counts are what each step makes of the one before.                   *)
LEMMA CommonIs ==
  ASSUME NEW s, Len(s) \in Nat, NEW nestOf, NEW start, NEW direction, Len(nestOf[start]) \in Nat
  PROVE  IsCommon(Common(s, nestOf, start, direction), s, nestOf, start, direction)
<1> DEFINE nest == nestOf[start]
           L == Len(nest)
           Step(k, c) == IF ~ InProgram(s, start, direction, k) THEN L
                         ELSE NumCommonLoops(nest, nestOf[s[At(s, start, direction, k) + 1]], c)
           step == [kc \in Nat \X (0 .. L) |-> Step(kc[1], kc[2])]
           Is(f) == f = [k \in 0 .. Len(s) |->
                           IF k = 0 \/ ~ InProgram(s, start, direction, k) THEN L
                           ELSE NumCommonLoops(nest, nestOf[s[At(s, start, direction, k) + 1]], f[k - 1])]
<1>1. \A k \in Nat, c \in 0 .. L : Step(k, c) \in 0 .. L
  <2> SUFFICES ASSUME NEW k \in Nat, NEW c \in 0 .. L
               PROVE  Step(k, c) \in 0 .. L
    OBVIOUS
  <2>1. NumCommonLoops(nest, nestOf[s[At(s, start, direction, k) + 1]], c) \in 0 .. c
    BY CommonLoopsAre
  <2>2. QED
    BY <2>1
<1>2. step \in [Nat \X (0 .. L) -> 0 .. L]
  BY <1>1
<1>3. \A k \in Nat, c \in 0 .. L : step[<<k, c>>] = Step(k, c)
  OBVIOUS
<1>4. L \in 0 .. L
  OBVIOUS
<1> HIDE DEF step, Step, L
<1>5. PICK g : IsPrefixOfRecursion(g, Len(s), 0 .. L, L, step)
  BY <1>2, <1>4, RecursionExists, Zenon
<1>6. /\ g \in [0 .. Len(s) -> 0 .. L] /\ g[0] = L
      /\ \A k \in 1 .. Len(s) : g[k] = Step(k, g[k - 1])
  <2>1. /\ g \in [0 .. Len(s) -> 0 .. L] /\ g[0] = L
        /\ \A k \in 1 .. Len(s) : g[k] = step[<<k, g[k - 1]>>]
    BY <1>5, SMTT(30) DEF IsPrefixOfRecursion
  <2>2. \A k \in 1 .. Len(s) : k \in Nat /\ k - 1 \in 0 .. Len(s)
    OBVIOUS
  <2>3. QED
    BY <1>3, <2>1, <2>2, Zenon
<1>7. Is(g)
  <2>1. \A k \in 0 .. Len(s) : k # 0 => k \in 1 .. Len(s)
    OBVIOUS
  <2>2. \A k \in 0 .. Len(s) :
          g[k] = IF k = 0 \/ ~ InProgram(s, start, direction, k) THEN L
                 ELSE NumCommonLoops(nest, nestOf[s[At(s, start, direction, k) + 1]], g[k - 1])
    BY <1>6, <2>1 DEF Step
  <2>3. QED
    BY <1>6, <2>2
<1>8. Common(s, nestOf, start, direction) = CHOOSE f : Is(f)
  BY DEF Common, L
<1>9. Is(Common(s, nestOf, start, direction))
  BY <1>7, <1>8, Zenon
<1>10. PICK f : f = Common(s, nestOf, start, direction)
  BY Zenon
<1>11. Is(f)
  BY <1>9, <1>10
<1>12. f[0] = L /\ DOMAIN f = 0 .. Len(s) /\ \A k \in 1 .. Len(s) : f[k] = Step(k, f[k - 1])
  BY <1>11 DEF Step
<1> DEFINE Bad == {k \in 0 .. Len(s) : f[k] \notin 0 .. L}
<1>13. Bad = {}
  <2>1. SUFFICES ASSUME Bad # {}
                 PROVE  FALSE
    OBVIOUS
  <2>2. PICK k \in Bad : \A y \in Bad : k <= y
    <3>1. Bad \in SUBSET Nat
      OBVIOUS
    <3>2. QED
      BY <2>1, <3>1, LeastNatural, Zenon
  <2>3. k \in Nat /\ k # 0 /\ k \in 1 .. Len(s)
    BY <1>4, <1>12, <2>2
  <2>4. k - 1 \in 0 .. Len(s) /\ k - 1 \notin Bad
    BY <2>2, <2>3
  <2>5. f[k - 1] \in 0 .. L
    BY <2>4
  <2>6. f[k] \in 0 .. L
    BY <1>1, <1>12, <2>3, <2>5
  <2>7. QED
    BY <2>2, <2>6
<1>14. f = [k \in 0 .. Len(s) |-> f[k]]
  BY <1>11
<1>15. f \in [0 .. Len(s) -> 0 .. L]
  BY <1>13, <1>14
<1>16. QED
  BY <1>10, <1>12, <1>15 DEF Step, L, IsCommon

(* After how many steps the walk ends.                                      *)
Ends(s, nestOf, start, numLoops, direction) ==
  {k \in 1 .. Len(s) :
     ~ InProgram(s, start, direction, k)
       \/ StopsAt(Common(s, nestOf, start, direction)[k], numLoops)}

(* The point that FindInsertionPoint returns.                               *)
LEMMA FoundPointIs ==
  ASSUME NEW s, NEW nestOf, NEW start, NEW numLoops, NEW direction
  PROVE  FindInsertionPoint(s, nestOf, start, numLoops, direction) =
           Point(s[At(s, start, direction, Min(Ends(s, nestOf, start, numLoops, direction)) - 1) + 1],
                 direction, SubSeq(nestOf[start], 1, numLoops))
BY DEF FindInsertionPoint, Ends, Common, At, InProgram

(* The walk ends, after one step or when the loops are left.                *)
LEMMA WalkEnds ==
  ASSUME NEW T, NEW s \in Seq(T), IsDistinct(s), NEW nestOf, NEW start \in Range(s),
         NEW numLoops, NEW direction \in {"kBefore", "kAfter"}
  PROVE  LET E == Ends(s, nestOf, start, numLoops, direction)
         IN  /\ Min(E) \in E /\ Min(E) \in 1 .. Len(s)
             /\ \A k \in 1 .. Min(E) - 1 : k \in 1 .. Len(s) /\ k \notin E
<1> DEFINE E == Ends(s, nestOf, start, numLoops, direction)
           n == Number(s, start)
<1>1. n \in 0 .. Len(s) - 1 /\ Len(s) \in Nat
  BY NumberExists
<1>2. E \in SUBSET Nat /\ E \in SUBSET (1 .. Len(s))
  BY <1>1 DEF Ends
<1> HIDE DEF n
<1>3. E # {}
  <2>1. CASE direction = "kBefore"
    <3>1. PICK k : k = n + 1
      BY Zenon
    <3>2. k \in 1 .. Len(s) /\ k * Delta(direction) = - k
      BY <1>1, <2>1, <3>1 DEF Delta
    <3>3. ~ InProgram(s, start, direction, k)
      BY <1>1, <3>1, <3>2 DEF InProgram, At, n
    <3>4. QED
      BY <3>2, <3>3 DEF Ends
  <2>2. CASE direction = "kAfter"
    <3>1. PICK k : k = Len(s) - n
      BY Zenon
    <3>2. k \in 1 .. Len(s) /\ k * Delta(direction) = k
      BY <1>1, <2>2, <3>1 DEF Delta
    <3>3. ~ InProgram(s, start, direction, k)
      BY <1>1, <3>1, <3>2 DEF InProgram, At, n
    <3>4. QED
      BY <3>2, <3>3 DEF Ends
  <2>3. QED
    BY <2>1, <2>2
<1> HIDE DEF E
<1>4. PICK x \in E : \A y \in E : x <= y
  BY <1>2, <1>3, LeastNatural
<1>5. Min(E) \in E /\ \A y \in E : Min(E) <= y
  BY <1>4 DEF Min
<1>6. Min(E) \in 1 .. Len(s)
  BY <1>2, <1>5, Zenon
<1>7. \A k \in 1 .. Min(E) - 1 : k \in 1 .. Len(s) /\ k \notin E
  BY <1>1, <1>5, <1>6
<1>8. QED
  BY <1>5, <1>6, <1>7 DEF E

(* The point is on the right side of start, inside the loops that are kept, *)
(* and next to an operation that has at most these in common with it.       *)
LEMMA FoundPoint ==
  ASSUME NEW T, NEW s \in Seq(T), IsDistinct(s), NEW nestOf,
         \A x \in Range(s) : nestOf[x] \in Seq(LoopNames),
         IsTree(Nests(s, nestOf)), NEW start \in Range(s),
         NEW numLoops \in 0 .. Len(nestOf[start]), NEW direction \in {"kBefore", "kAfter"}
  PROVE  \E b \in DOMAIN s :
           /\ FindInsertionPoint(s, nestOf, start, numLoops, direction) =
                Point(s[b], direction, SubSeq(nestOf[start], 1, numLoops))
           /\ direction = "kBefore" => b <= Number(s, start) + 1
           /\ direction = "kAfter" => b >= Number(s, start) + 1
           /\ SharesLoops(nestOf[start], nestOf[s[b]], numLoops)
           /\ b + Delta(direction) \in DOMAIN s =>
                ShareAtMost(nestOf[s[b]], nestOf[s[b + Delta(direction)]], numLoops)
<1> DEFINE n == Number(s, start)
           nest == nestOf[start]
           common == Common(s, nestOf, start, direction)
           E == Ends(s, nestOf, start, numLoops, direction)
           d == Delta(direction)
           nests == Nests(s, nestOf)
<1>1. n \in 0 .. Len(s) - 1 /\ Len(s) \in Nat /\ s[n + 1] = start /\ DOMAIN s = 1 .. Len(s)
  BY NumberExists, LenProperties
<1>2. nest \in Seq(LoopNames) /\ Len(nest) \in Nat /\ DOMAIN nest = 1 .. Len(nest)
  BY LenProperties
<1>3. /\ common \in [0 .. Len(s) -> 0 .. Len(nest)] /\ common[0] = Len(nest)
      /\ \A k \in 1 .. Len(s) : InProgram(s, start, direction, k) =>
           common[k] = NumCommonLoops(nest, nestOf[s[At(s, start, direction, k) + 1]], common[k - 1])
  <2>1. IsCommon(Common(s, nestOf, start, direction), s, nestOf, start, direction)
    BY <1>1, <1>2, CommonIs
  <2>2. QED
    BY <2>1 DEF IsCommon
<1>4. PICK e : e = Min(E)
  BY Zenon
<1>5. e \in E /\ e \in 1 .. Len(s) /\ \A k \in 1 .. e - 1 : k \in 1 .. Len(s) /\ k \notin E
  BY <1>4, WalkEnds, Zenon
<1>6. d \in {-1, 1} /\ (direction = "kBefore" => d = -1) /\ (direction = "kAfter" => d = 1)
  BY DEF Delta
<1>7. /\ \A x \in DOMAIN s : s[x] \in Range(s) /\ nests[x] = nestOf[s[x]]
      /\ nests \in Seq(Seq(LoopNames)) /\ DOMAIN nests = 1 .. Len(s)
  <2>1. \A x \in DOMAIN s : s[x] \in Range(s) /\ nests[x] = nestOf[s[x]]
    BY DEF Nests, Range
  <2>2. DOMAIN nests = 1 .. Len(s)
    BY <1>1 DEF Nests
  <2>3. \A x \in 1 .. Len(s) : nests[x] \in Seq(LoopNames)
    BY <1>1, <2>1
  <2>4. nests = [x \in 1 .. Len(s) |-> nests[x]]
    BY <1>1 DEF Nests
  <2>5. QED
    BY <1>1, <2>1, <2>2, <2>3, <2>4, IsASeq
<1> HIDE DEF n, nest, common, E, d, nests
<1>8. IsTree(nests)
  BY DEF nests
<1>9. PICK b : b = n + (e - 1) * d + 1
  BY Zenon
<1>10. FindInsertionPoint(s, nestOf, start, numLoops, direction) =
         Point(s[b], direction, SubSeq(nest, 1, numLoops))
  BY <1>4, <1>9, FoundPointIs DEF E, nest, n, d, At
<1>11. CASE e = 1
  <2>1. b = n + 1 /\ b \in DOMAIN s /\ s[b] = start
    BY <1>1, <1>6, <1>9, <1>11
  <2>2. SharesLoops(nest, nestOf[s[b]], numLoops)
    BY <1>2, <2>1 DEF SharesLoops, nest
  <2>3. ASSUME b + d \in DOMAIN s
        PROVE  ShareAtMost(nestOf[s[b]], nestOf[s[b + d]], numLoops)
    <3>1. At(s, start, direction, 1) = n + d /\ n + d \in 0 .. Len(s) - 1 /\ n + d + 1 = b + d
      BY <1>1, <1>6, <2>1, <2>3 DEF At, n, d
    <3>2. InProgram(s, start, direction, 1)
      BY <3>1 DEF InProgram
    <3>3. StopsAt(common[1], numLoops)
      BY <1>5, <1>11, <3>2 DEF E, Ends, common
    <3>4. 1 \in 1 .. Len(s) /\ 1 - 1 = 0
      BY <1>1
    <3>5. common[1] = NumCommonLoops(nest, nestOf[s[b + d]], Len(nest))
      BY <1>3, <3>1, <3>2, <3>4
    <3>6. nestOf[s[b + d]] \in Seq(LoopNames)
      BY <1>7, <2>3
    <3>7. \A k \in 1 .. Len(nest) : k <= Len(nestOf[s[b + d]]) /\ nestOf[s[b + d]][k] = nest[k] => k <= common[1]
      BY <1>2, <3>5, CommonLoopsAre
    <3>8. common[1] \in Nat /\ common[1] <= numLoops /\ numLoops \in Nat
      <4>1. common[1] \in 0 .. Len(nest)
        BY <1>3, <3>4
      <4>2. QED
        BY <1>2, <3>3, <4>1 DEF StopsAt
    <3>9. ASSUME NEW p \in DOMAIN nest, p \in DOMAIN nestOf[s[b + d]], nest[p] = nestOf[s[b + d]][p]
          PROVE  p <= numLoops
      <4>1. p \in 1 .. Len(nest) /\ p <= Len(nestOf[s[b + d]])
        BY <1>2, <3>6, <3>9, LenProperties
      <4>2. p <= common[1]
        BY <3>7, <3>9, <4>1
      <4>3. QED
        BY <1>2, <3>8, <4>1, <4>2
    <3>10. QED
      BY <2>1, <3>9 DEF ShareAtMost, nest
  <2>4. b <= n + 1 /\ b >= n + 1
    BY <1>1, <2>1
  <2>5. QED
    BY <1>10, <2>1, <2>2, <2>3, <2>4 DEF nest, d, n
<1>12. CASE e # 1
  <2> DEFINE c == e - 1
  <2>1. c \in 1 .. e - 1 /\ c \in 1 .. Len(s) /\ c \notin E /\ c \in Nat
    BY <1>1, <1>5, <1>12
  <2> HIDE DEF c
  <2>2. InProgram(s, start, direction, c) /\ ~ StopsAt(common[c], numLoops)
    BY <2>1 DEF E, Ends, common
  <2>3. /\ c * d \in Int /\ e * d = c * d + d /\ c = e - 1
        /\ d = 1 => c * d = c
        /\ d = -1 => c * d = - c
    <3>1. CASE d = 1
      BY <1>5, <2>1, <3>1 DEF c
    <3>2. CASE d = -1
      BY <1>5, <2>1, <3>2 DEF c
    <3>3. QED
      BY <1>6, <3>1, <3>2
  <2>4. /\ b = n + c * d + 1 /\ At(s, start, direction, c) = n + c * d
        /\ At(s, start, direction, e) = n + e * d
    BY <1>9 DEF c, At, n, d
  <2>5. /\ b \in 1 .. Len(s) /\ At(s, start, direction, c) + 1 = b
        /\ At(s, start, direction, e) + 1 = b + d /\ b + d \in Int
        /\ d = 1 => b >= n + 1
        /\ d = -1 => b <= n + 1
    <3>1. n + c * d \in 0 .. Len(s) - 1
      BY <2>2, <2>4 DEF InProgram
    <3>2. b \in 1 .. Len(s) /\ At(s, start, direction, c) + 1 = b
      BY <1>1, <2>3, <2>4, <3>1
    <3>3. CASE d = 1
      <4>1. c * d = c /\ e * d = c + 1
        BY <2>3, <3>3
      <4>2. QED
        BY <1>1, <2>1, <2>4, <3>2, <3>3, <4>1
    <3>4. CASE d = -1
      <4>1. c * d = - c /\ e * d = - c - 1
        BY <2>1, <2>3, <3>4
      <4>2. QED
        BY <1>1, <2>1, <2>4, <3>2, <3>4, <4>1
    <3>5. QED
      BY <1>6, <3>3, <3>4
  <2>6. PICK a : a = common[c]
    BY Zenon
  <2>7. /\ a \in 1 .. Len(nest) /\ a > numLoops /\ numLoops \in Nat
        /\ a <= Len(nests[b]) /\ nests[b][a] = nest[a]
    <3>1. c - 1 \in 0 .. Len(s) /\ c \in 0 .. Len(s)
      BY <1>1, <2>1
    <3>2. a = NumCommonLoops(nest, nests[b], common[c - 1])
      BY <1>1, <1>3, <1>7, <2>1, <2>2, <2>5, <2>6, Zenon
    <3>3. common[c - 1] \in Nat /\ a \in 0 .. Len(nest)
      <4>1. common[c - 1] \in 0 .. Len(nest) /\ common[c] \in 0 .. Len(nest)
        BY <1>3, <3>1, Zenon
      <4>2. QED
        BY <1>2, <2>6, <4>1
    <3>4. a > numLoops /\ numLoops \in Nat
      BY <1>2, <2>2, <2>6, <3>3 DEF StopsAt, nest
    <3>5. a # 0 => a <= Len(nests[b]) /\ nests[b][a] = nest[a]
      BY <3>2, <3>3, CommonLoopsAre
    <3>6. QED
      BY <1>2, <3>3, <3>4, <3>5
  <2>8. nests[n + 1] = nest /\ n + 1 \in DOMAIN nests /\ b \in DOMAIN nests
    <3>1. PICK x : x = n + 1
      BY Zenon
    <3>2. x \in 1 .. Len(s) /\ s[x] = start
      BY <1>1, <3>1
    <3>3. nests[x] = nestOf[s[x]] /\ x \in DOMAIN nests /\ b \in DOMAIN nests
      BY <1>1, <1>7, <2>5, <3>2, Zenon
    <3>4. QED
      BY <3>1, <3>2, <3>3 DEF nest
  <2>9. nests[b] \in Seq(LoopNames) /\ Len(nests[b]) \in Nat /\ DOMAIN nests[b] = 1 .. Len(nests[b])
    BY <1>7, <2>8, ElementOfSeq, LenProperties
  <2>10. a \in DOMAIN nest /\ a \in DOMAIN nests[b]
    BY <1>2, <2>7, <2>9
  <2>11. \A k \in 1 .. a : nest[k] = nests[b][k]
    <3>1. /\ \A k \in n + 1 .. b : SharesLoops(nests[n + 1], nests[k], a)
          /\ \A k \in b .. n + 1 : SharesLoops(nests[b], nests[k], a)
      BY <1>7, <1>8, <2>7, <2>8, <2>10, SharedInTree, Zenon
    <3>2. b \in n + 1 .. b \/ n + 1 \in b .. n + 1
      BY <1>1, <1>6, <2>5
    <3>3. SharesLoops(nest, nests[b], a) \/ SharesLoops(nests[b], nest, a)
      BY <2>8, <3>1, <3>2
    <3>4. QED
      BY <3>3 DEF SharesLoops
  <2>12. SharesLoops(nest, nests[b], numLoops)
    <3>1. numLoops <= Len(nest) /\ numLoops <= Len(nests[b])
      BY <1>2, <2>7, <2>9
    <3>2. \A k \in 1 .. numLoops : k \in 1 .. a
      BY <2>7
    <3>3. QED
      BY <2>11, <3>1, <3>2 DEF SharesLoops
  <2>13. ASSUME b + d \in DOMAIN s
         PROVE  ShareAtMost(nests[b], nests[b + d], numLoops)
    <3>1. InProgram(s, start, direction, e)
      <4>1. b + d \in 1 .. Len(s)
        BY <1>1, <2>13
      <4>2. At(s, start, direction, e) = n + e * d /\ n + e * d + 1 = b + d /\ e * d \in Int
        BY <1>6, <2>3, <2>4, <2>5
      <4>3. n + e * d \in 0 .. Len(s) - 1
        BY <1>1, <4>1, <4>2
      <4>4. QED
        BY <4>2, <4>3 DEF InProgram
    <3>2. StopsAt(common[e], numLoops)
      BY <1>5, <3>1 DEF E, Ends, common
    <3>3. common[e] = NumCommonLoops(nest, nests[b + d], a)
      BY <1>3, <1>5, <1>7, <2>3, <2>5, <2>6, <2>13, <3>1, Zenon
    <3>4. a \in Nat /\ b + d \in DOMAIN nests
      BY <1>1, <1>7, <2>7, <2>13
    <3>5. /\ common[e] \in 0 .. a
          /\ \A k \in 1 .. a : k <= Len(nests[b + d]) /\ nests[b + d][k] = nest[k] => k <= common[e]
      BY <3>3, <3>4, CommonLoopsAre
    <3>6. nests[b + d] \in Seq(LoopNames) /\ Len(nests[b + d]) \in Nat
          /\ DOMAIN nests[b + d] = 1 .. Len(nests[b + d])
      BY <1>7, <3>4, ElementOfSeq, LenProperties
    <3>7. ASSUME NEW p \in DOMAIN nests[b], p \in DOMAIN nests[b + d], nests[b][p] = nests[b + d][p],
                 p > numLoops
          PROVE  FALSE
      <4>1. PICK y, q : y = b + d /\ q = numLoops + 1
        BY Zenon
      <4>2. q \in 1 .. a /\ p \in Nat /\ q \in 1 .. p
        BY <2>7, <2>9, <3>7, <4>1
      <4>3. /\ \A k \in b .. y : SharesLoops(nests[b], nests[k], p)
            /\ \A k \in y .. b : SharesLoops(nests[y], nests[k], p)
        BY <1>7, <1>8, <2>8, <3>4, <3>7, <4>1, SharedInTree, Zenon
      <4>4. y \in b .. y \/ b \in y .. b
        BY <1>6, <2>5, <4>1
      <4>5. SharesLoops(nests[b], nests[y], p) \/ SharesLoops(nests[y], nests[b], p)
        BY <4>3, <4>4
      <4>6. nests[b][q] = nests[y][q] /\ p <= Len(nests[y])
        BY <4>2, <4>5 DEF SharesLoops
      <4>7. q <= Len(nests[b + d]) /\ nests[b + d][q] = nest[q]
        <5>1. nests[b][q] = nest[q]
          BY <2>11, <4>2
        <5>2. q <= Len(nests[y])
          BY <3>6, <4>1, <4>2, <4>6
        <5>3. QED
          BY <4>1, <4>6, <5>1, <5>2
      <4>8. q <= common[e]
        BY <3>5, <4>2, <4>7
      <4>9. QED
        BY <2>7, <3>2, <3>4, <3>5, <4>1, <4>8 DEF StopsAt
    <3>8. \A p \in DOMAIN nests[b] : p \in Nat
      BY <2>9
    <3>9. QED
      BY <2>7, <3>7, <3>8 DEF ShareAtMost
  <2>14. b \in DOMAIN s /\ nests[b] = nestOf[s[b]]
         /\ (b + d \in DOMAIN s => nests[b + d] = nestOf[s[b + d]])
    BY <1>1, <1>7, <2>5, SMTT(30)
  <2>15. /\ direction = "kBefore" => b <= n + 1
         /\ direction = "kAfter" => b >= n + 1
    BY <1>6, <2>5
  <2>16. QED
    BY <1>10, <2>12, <2>13, <2>14, <2>15 DEF nest, d, n
<1>13. QED
  BY <1>11, <1>12
-----------------------------------------------------------------------------
(* What an insertion at a point keeps.                                      *)

(* The order of the operations, and the place of the new one in it.         *)
LEMMA InsertPrecedes ==
  ASSUME NEW T, NEW s \in Seq(T), IsDistinct(s), NEW e \in T, e \notin Range(s),
         NEW b \in DOMAIN s, NEW direction, NEW nest
  PROVE  LET t == Insert(s, e, Point(s[b], direction, nest))
         IN  /\ \A x, y \in Range(s) : Precedes(t, x, y) <=> Precedes(s, x, y)
             /\ direction = "kBefore" =>
                  \A x \in Range(s) : /\ Precedes(t, x, e) <=> Precedes(s, x, s[b])
                                      /\ Precedes(t, e, x) <=> ~ Precedes(s, x, s[b])
             /\ direction = "kAfter" =>
                  \A x \in Range(s) : /\ Precedes(t, e, x) <=> Precedes(s, s[b], x)
                                      /\ Precedes(t, x, e) <=> ~ Precedes(s, s[b], x)
<1>1. PICK t, m : t = Insert(s, e, Point(s[b], direction, nest)) /\ m = Gap(b, direction)
  BY Zenon
<1>2. /\ m \in 0 .. Len(s) /\ Len(s) \in Nat /\ t \in Seq(T) /\ Len(t) = Len(s) + 1
      /\ IsInserted(t, s, m, e) /\ IsDistinct(t)
  BY <1>1, InsertElements
<1>3. /\ Number(t, e) = m
      /\ \A x \in Range(s) :
           Number(t, x) = IF Number(s, x) < m THEN Number(s, x) ELSE Number(s, x) + 1
  BY <1>2, InsertOrder
<1>4. \A x \in Range(s) : Number(s, x) \in Int
  BY <1>2, NumberExists
<1>5. Number(s, s[b]) = b - 1 /\ b \in Int
  BY NumberIs
<1>6. \A x, y \in Range(s) : Precedes(t, x, y) <=> Precedes(s, x, y)
  <2> SUFFICES ASSUME NEW x \in Range(s), NEW y \in Range(s)
               PROVE  Precedes(t, x, y) <=> Precedes(s, x, y)
    OBVIOUS
  <2>1. PICK n, k \in Int : n = Number(s, x) /\ k = Number(s, y)
    BY <1>4
  <2>2. /\ Number(t, x) = IF n < m THEN n ELSE n + 1
        /\ Number(t, y) = IF k < m THEN k ELSE k + 1
    BY <1>3, <2>1
  <2>3. m \in Int
    BY <1>2
  <2>4. QED
    BY <2>1, <2>2, <2>3 DEF Precedes
<1>7. ASSUME NEW x \in Range(s)
      PROVE  /\ Precedes(t, x, e) <=> Number(s, x) < m
             /\ Precedes(t, e, x) <=> ~ (Number(s, x) < m)
  <2>1. PICK n \in Int : n = Number(s, x)
    BY <1>4
  <2>2. Number(t, x) = IF n < m THEN n ELSE n + 1
    BY <1>3, <2>1
  <2>3. m \in Int
    BY <1>2
  <2>4. QED
    BY <1>3, <2>1, <2>2, <2>3 DEF Precedes
<1>8. ASSUME direction = "kBefore", NEW x \in Range(s)
      PROVE  /\ Precedes(t, x, e) <=> Precedes(s, x, s[b])
             /\ Precedes(t, e, x) <=> ~ Precedes(s, x, s[b])
  <2>1. m = Number(s, s[b])
    BY <1>1, <1>5, <1>8 DEF Gap
  <2>2. QED
    BY <1>7, <2>1 DEF Precedes
<1>9. ASSUME direction = "kAfter", NEW x \in Range(s)
      PROVE  /\ Precedes(t, e, x) <=> Precedes(s, s[b], x)
             /\ Precedes(t, x, e) <=> ~ Precedes(s, s[b], x)
  <2>1. PICK n \in Int : n = Number(s, x)
    BY <1>4
  <2>2. m = b
    BY <1>1, <1>9 DEF Gap
  <2>3. n < m <=> ~ (b - 1 < n)
    BY <1>5, <2>2
  <2>4. QED
    BY <1>5, <1>7, <2>1, <2>3 DEF Precedes
<1>10. QED
  BY <1>1, <1>6, <1>8, <1>9

(* The loops.                                                               *)
LEMMA InsertKeepsTree ==
  ASSUME NEW T, NEW s \in Seq(T), IsDistinct(s), NEW e \in T, e \notin Range(s),
         NEW nestOf, \A x \in Range(s) : nestOf[x] \in Seq(LoopNames), IsTree(Nests(s, nestOf)),
         NEW b \in DOMAIN s, NEW direction \in {"kBefore", "kAfter"}, NEW nest,
         NEW new \in Seq(LoopNames), SharesLoops(new, nestOf[s[b]], Len(new)),
         b + Delta(direction) \in DOMAIN s =>
           ShareAtMost(nestOf[s[b]], nestOf[s[b + Delta(direction)]], Len(new)),
         NEW after, \A x \in Range(s) : after[x] = nestOf[x], after[e] = new
  PROVE  IsTree(Nests(Insert(s, e, Point(s[b], direction, nest)), after))
<1>1. PICK t, m, ns : /\ t = Insert(s, e, Point(s[b], direction, nest)) /\ m = Gap(b, direction)
                      /\ ns = Nests(s, nestOf)
  OBVIOUS
<1>2. /\ m \in 0 .. Len(s) /\ Len(s) \in Nat /\ t \in Seq(T) /\ Len(t) = Len(s) + 1
      /\ IsInserted(t, s, m, e)
  BY <1>1, InsertElements
<1>3. DOMAIN s = 1 .. Len(s) /\ b \in 1 .. Len(s)
  BY LenProperties
<1>4. /\ DOMAIN ns = 1 .. Len(s)
      /\ \A k \in 1 .. Len(s) : s[k] \in Range(s) /\ ns[k] = nestOf[s[k]] /\ ns[k] \in Seq(LoopNames)
  BY <1>1, <1>3 DEF Nests, Range
<1>5. ns \in Seq(Seq(LoopNames)) /\ Len(ns) = Len(s)
  <2>1. ns = [k \in 1 .. Len(s) |-> ns[k]]
    BY <1>1, <1>3 DEF Nests
  <2>2. ns \in Seq(Seq(LoopNames))
    BY <1>2, <1>4, <2>1, IsASeq
  <2>3. QED
    BY <1>2, <1>4, <2>2, LenProperties
<1>6. IsInserted(Nests(t, after), ns, m, new)
  <2>1. DOMAIN t = 1 .. Len(s) + 1
    BY <1>2, LenProperties
  <2>2. \A k \in 1 .. Len(s) + 1 : Nests(t, after)[k] = after[t[k]]
    BY <2>1 DEF Nests
  <2>3. ASSUME NEW k \in 1 .. m
        PROVE  Nests(t, after)[k] = ns[k]
    <3>1. k \in 1 .. Len(s) /\ k \in 1 .. Len(s) + 1
      BY <1>2
    <3>2. t[k] = s[k]
      BY <1>2 DEF IsInserted
    <3>3. QED
      BY <1>4, <2>2, <3>1, <3>2
  <2>4. ASSUME NEW k \in m + 2 .. Len(s) + 1
        PROVE  Nests(t, after)[k] = ns[k - 1]
    <3>1. k - 1 \in 1 .. Len(s) /\ k \in 1 .. Len(s) + 1
      BY <1>2
    <3>2. t[k] = s[k - 1]
      BY <1>2 DEF IsInserted
    <3>3. QED
      BY <1>4, <2>2, <3>1, <3>2
  <2>5. Nests(t, after)[m + 1] = new
    <3>1. m + 1 \in 1 .. Len(s) + 1 /\ t[m + 1] = e
      BY <1>2 DEF IsInserted
    <3>2. QED
      BY <2>2, <3>1
  <2>6. DOMAIN Nests(t, after) = 1 .. Len(s) + 1
    BY <2>1 DEF Nests
  <2>7. QED
    BY <1>5, <2>3, <2>4, <2>5, <2>6 DEF IsInserted
<1>7. b \in {m, m + 1}
  BY <1>1, <1>3 DEF Gap
<1>8. 0 < m /\ m < Len(ns) => ShareAtMost(ns[m], ns[m + 1], Len(new))
  <2> SUFFICES ASSUME 0 < m, m < Len(ns)
               PROVE  ShareAtMost(ns[m], ns[m + 1], Len(new))
    OBVIOUS
  <2>1. m \in 1 .. Len(s) /\ m + 1 \in 1 .. Len(s)
    BY <1>2, <1>5
  <2>2. CASE direction = "kAfter"
    <3>1. m = b /\ b + Delta(direction) = m + 1
      BY <1>1, <1>3, <2>2 DEF Gap, Delta
    <3>2. QED
      BY <1>3, <1>4, <2>1, <3>1
  <2>3. CASE direction = "kBefore"
    <3>1. m + 1 = b /\ b + Delta(direction) = m
      BY <1>1, <1>2, <1>3, <2>3 DEF Gap, Delta
    <3>2. ShareAtMost(ns[m + 1], ns[m], Len(new))
      BY <1>3, <1>4, <2>1, <3>1
    <3>3. QED
      BY <3>2 DEF ShareAtMost
  <2>4. QED
    BY <2>2, <2>3
<1>9. IsTree(ns) /\ b \in DOMAIN ns /\ SharesLoops(new, ns[b], Len(new)) /\ m \in 0 .. Len(ns)
  BY <1>1, <1>2, <1>3, <1>4, <1>5
<1>10. QED
  BY <1>1, <1>5, <1>6, <1>7, <1>8, <1>9, TreeWith
-----------------------------------------------------------------------------
(* Order, spans and nests.                                                  *)

(* No operation precedes itself, nor one that precedes it.                  *)
LEMMA PrecedesIsStrict ==
  ASSUME NEW T, NEW s \in Seq(T), IsDistinct(s)
  PROVE  /\ \A x, y \in Range(s) : /\ ~ Precedes(s, x, x)
                                   /\ Precedes(s, x, y) => ~ Precedes(s, y, x)
         /\ \A x, y, z \in Range(s) : Precedes(s, x, y) /\ Precedes(s, y, z) => Precedes(s, x, z)
<1>1. \A x \in Range(s) : Number(s, x) \in Int
  BY NumberExists
<1>2. QED
  BY <1>1 DEF Precedes

(* The span of some operations is from the first of them to the last.       *)
LEMMA SpanIs ==
  ASSUME NEW T, NEW s \in Seq(T), IsDistinct(s), NEW A \in SUBSET Range(s), A # {}
  PROVE  /\ GetSpan(s, A)[1] \in A /\ GetSpan(s, A)[2] \in A
         /\ \A x \in A : /\ Number(s, GetSpan(s, A)[1]) <= Number(s, x)
                         /\ Number(s, x) <= Number(s, GetSpan(s, A)[2])
<1> DEFINE places == {Number(s, op) : op \in A}
<1>1. \A x \in A : /\ Number(s, x) \in 0 .. Len(s) - 1 /\ Len(s) \in Nat
                   /\ s[Number(s, x) + 1] = x
  BY NumberExists
<1>2. places \in SUBSET Nat /\ places # {} /\ \A k \in places : k <= Len(s)
  BY <1>1
<1>3. Len(s) \in Nat
  BY LenProperties
<1> HIDE DEF places
<1>4. Min(places) \in places /\ \A k \in places : Min(places) <= k
  <2>1. \E n \in places : \A k \in places : n <= k
    BY <1>2, LeastNatural
  <2>2. QED
    BY <2>1 DEF Min
<1>5. Max(places) \in places /\ \A k \in places : k <= Max(places)
  <2>0. places \in SUBSET (0 .. Len(s))
    BY <1>2, <1>3
  <2>1. \E n \in places : \A k \in places : k <= n
    BY <1>2, <1>3, <2>0, GreatestNatural, Zenon
  <2>2. \E n \in places : \A k \in places : n >= k
    BY <1>2, <2>1
  <2>3. Max(places) \in places /\ \A k \in places : Max(places) >= k
    BY <2>2 DEF Max
  <2>4. QED
    BY <1>2, <2>3
<1>6. PICK x \in A : Min(places) = Number(s, x)
  BY <1>4, Zenon DEF places
<1>7. PICK y \in A : Max(places) = Number(s, y)
  BY <1>5, Zenon DEF places
<1>8. GetSpan(s, A) = <<s[Min(places) + 1], s[Max(places) + 1]>>
  BY DEF GetSpan, places
<1>9. GetSpan(s, A)[1] = x /\ GetSpan(s, A)[2] = y
  BY <1>1, <1>6, <1>7, <1>8
<1>10. \A z \in A : Number(s, x) <= Number(s, z) /\ Number(s, z) <= Number(s, y)
  BY <1>4, <1>5, <1>6, <1>7 DEF places
<1>11. QED
  BY <1>9, <1>10

(* The loops around a buffer, as the start of those of an access.           *)
LEMMA OuterLoops ==
  ASSUME NEW nest \in Seq(LoopNames), NEW n \in 0 .. Len(nest)
  PROVE  /\ SubSeq(nest, 1, n) \in Seq(LoopNames) /\ Len(SubSeq(nest, 1, n)) = n
         /\ \A other : SharesLoops(nest, other, n) =>
                         SharesLoops(SubSeq(nest, 1, n), other, Len(SubSeq(nest, 1, n)))
         /\ \A other \in Seq(LoopNames) :
              SharesLoops(nest, other, n) => SubSeq(nest, 1, n) = SubSeq(other, 1, n)
<1>1. Len(nest) \in Nat /\ DOMAIN nest = 1 .. Len(nest) /\ n \in Nat /\ n <= Len(nest)
  BY LenProperties
<1>2. \A i \in 1 .. n : nest[i] \in LoopNames
  BY <1>1, ElementOfSeq
<1>3. /\ SubSeq(nest, 1, n) \in Seq(LoopNames) /\ Len(SubSeq(nest, 1, n)) = n
      /\ \A i \in 1 .. n : SubSeq(nest, 1, n)[i] = nest[i]
  <2>1. /\ SubSeq(nest, 1, n) \in Seq(LoopNames)
        /\ Len(SubSeq(nest, 1, n)) = IF 1 <= n THEN n - 1 + 1 ELSE 0
        /\ \A i \in 1 .. n - 1 + 1 : SubSeq(nest, 1, n)[i] = nest[1 + i - 1]
    BY <1>1, <1>2, SubSeqProperties
  <2>2. n - 1 + 1 = n /\ \A i \in 1 .. n : 1 + i - 1 = i
    BY <1>1
  <2>3. QED
    BY <1>1, <2>1, <2>2
<1>4. ASSUME NEW other, SharesLoops(nest, other, n)
      PROVE  SharesLoops(SubSeq(nest, 1, n), other, Len(SubSeq(nest, 1, n)))
  BY <1>1, <1>3, <1>4 DEF SharesLoops
<1>5. ASSUME NEW other \in Seq(LoopNames), SharesLoops(nest, other, n)
      PROVE  SubSeq(nest, 1, n) = SubSeq(other, 1, n)
  <2>1. n <= Len(other) /\ \A i \in 1 .. n : nest[i] = other[i]
    BY <1>5 DEF SharesLoops
  <2>2. SubSeq(nest, 1, n) = [i \in 1 .. n |-> nest[i]]
    BY <1>1
  <2>3. SubSeq(other, 1, n) = [i \in 1 .. n |-> other[i]]
    BY <1>1, <2>1
  <2>4. QED
    BY <2>1, <2>2, <2>3
<1>6. QED
  BY <1>3, <1>4, <1>5

(* All nests between two equal ones of a tree start with these.             *)
LEMMA NestsBetween ==
  ASSUME NEW nests \in Seq(Seq(LoopNames)), IsTree(nests),
         NEW i \in DOMAIN nests, NEW j \in DOMAIN nests, nests[i] = nests[j],
         NEW k \in i .. j
  PROVE  SharesLoops(nests[i], nests[k], Len(nests[i]))
<1>1. DOMAIN nests = 1 .. Len(nests) /\ Len(nests) \in Nat
  BY LenProperties
<1>2. k \in DOMAIN nests
  BY <1>1
<1>3. nests[i] \in Seq(LoopNames) /\ nests[k] \in Seq(LoopNames)
  BY <1>1, <1>2, ElementOfSeq
<1>4. /\ Len(nests[i]) \in Nat /\ DOMAIN nests[i] = 1 .. Len(nests[i])
      /\ Len(nests[k]) \in Nat
  BY <1>3, LenProperties
<1>5. CASE Len(nests[i]) = 0
  BY <1>4, <1>5 DEF SharesLoops
<1>6. CASE Len(nests[i]) # 0
  <2>1. PICK p : p = Len(nests[i])
    BY Zenon
  <2>2. p \in DOMAIN nests[i] /\ p \in DOMAIN nests[j] /\ nests[i][p] = nests[j][p]
    BY <1>4, <1>6, <2>1
  <2>3. SharesLoops(nests[i], nests[k], p)
    BY <2>2, SharedInTree
  <2>4. QED
    BY <2>1, <2>3
<1>7. QED
  BY <1>5, <1>6
-----------------------------------------------------------------------------
(* The accesses of the operations of a program, and memory around them.     *)

(* The accesses of operation k, and that they are in order.                 *)
Own(s, k) == {op \in Range(s) : op[1] \in {"load", "op", "store"} /\ op[2] = k}

InOrder(s, N) ==
  /\ \A i, j \in N : i < j => \A x \in Own(s, i), y \in Own(s, j) : Precedes(s, x, y)
  /\ \A i \in N : \A x \in Own(s, i) : /\ x[1] = "load" => Precedes(s, x, Op(i))
                                       /\ x[1] = "store" => Precedes(s, Op(i), x)

(* A load right before its operation, a store right after it and anything   *)
(* that is no access leave the accesses in order.                           *)
LEMMA InsertKeepsOrder ==
  ASSUME NEW T, NEW s \in Seq(T), IsDistinct(s), NEW e \in T, e \notin Range(s),
         NEW b \in DOMAIN s, NEW direction, NEW nest,
         NEW N \in SUBSET Int, \A i \in N : Op(i) \in Range(s), InOrder(s, N),
         \/ e[1] \notin {"load", "op", "store"}
         \/ e[1] = "load" /\ s[b] = Op(e[2]) /\ direction = "kBefore"
         \/ e[1] = "store" /\ s[b] = Op(e[2]) /\ direction = "kAfter"
  PROVE  InOrder(Insert(s, e, Point(s[b], direction, nest)), N)
<1>1. PICK t : t = Insert(s, e, Point(s[b], direction, nest))
  BY Zenon
<1>2. Range(t) = Range(s) \union {e}
  BY <1>1, InsertElements
<1>3. /\ \A x, y \in Range(s) : Precedes(t, x, y) <=> Precedes(s, x, y)
      /\ direction = "kBefore" =>
           \A x \in Range(s) : /\ Precedes(t, x, e) <=> Precedes(s, x, s[b])
                               /\ Precedes(t, e, x) <=> ~ Precedes(s, x, s[b])
      /\ direction = "kAfter" =>
           \A x \in Range(s) : /\ Precedes(t, e, x) <=> Precedes(s, s[b], x)
                               /\ Precedes(t, x, e) <=> ~ Precedes(s, s[b], x)
  BY <1>1, InsertPrecedes
<1>4. /\ \A i, j \in N : i < j => \A x \in Own(s, i), y \in Own(s, j) : Precedes(s, x, y)
      /\ \A i \in N : \A x \in Own(s, i) : /\ x[1] = "load" => Precedes(s, x, Op(i))
                                           /\ x[1] = "store" => Precedes(s, Op(i), x)
  BY DEF InOrder
<1>5. \A x, y \in Range(s) : /\ ~ Precedes(s, x, x)
                             /\ Precedes(s, x, y) => ~ Precedes(s, y, x)
  BY PrecedesIsStrict
<1>6. /\ \A i \in N : \A x \in Own(t, i) : x \in Own(s, i) \/ (x = e /\ e[2] = i)
      /\ \A i \in N : \A x \in Own(s, i) : x \in Range(s)
      /\ \A i \in N : Op(i) \in Own(s, i)
      /\ e[1] \notin {"load", "op", "store"} => \A i \in N : e \notin Own(t, i)
  BY <1>2 DEF Own, Op
<1>7. ASSUME NEW i \in N, NEW j \in N, i < j, NEW x \in Own(t, i), NEW y \in Own(t, j)
      PROVE  Precedes(t, x, y)
  <2>1. CASE x \in Own(s, i) /\ y \in Own(s, j)
    BY <1>3, <1>4, <1>6, <1>7, <2>1
  <2>2. CASE x = e /\ e[2] = i /\ y \in Own(s, j)
    <3>1. Precedes(s, Op(i), y) /\ ~ Precedes(s, y, Op(i))
      BY <1>4, <1>5, <1>6, <1>7, <2>2, Zenon
    <3>2. \/ s[b] = Op(i) /\ direction = "kBefore"
          \/ s[b] = Op(i) /\ direction = "kAfter"
      BY <1>6, <2>2
    <3>3. QED
      BY <1>3, <1>6, <2>2, <3>1, <3>2
  <2>3. CASE x \in Own(s, i) /\ y = e /\ e[2] = j
    <3>1. Precedes(s, x, Op(j)) /\ ~ Precedes(s, Op(j), x)
      BY <1>4, <1>5, <1>6, <1>7, <2>3, ZenonT(40)
    <3>2. \/ s[b] = Op(j) /\ direction = "kBefore"
          \/ s[b] = Op(j) /\ direction = "kAfter"
      BY <1>6, <2>3
    <3>3. QED
      BY <1>3, <1>6, <2>3, <3>1, <3>2
  <2>4. CASE e[2] = i /\ e[2] = j
    <3>1. i = j /\ i \in Int
      BY <2>4
    <3>2. QED
      BY <1>7, <3>1
  <2>5. QED
    BY <1>6, <2>1, <2>2, <2>3, <2>4, Zenon
<1>8. ASSUME NEW i \in N, NEW x \in Own(t, i)
      PROVE  /\ x[1] = "load" => Precedes(t, x, Op(i))
             /\ x[1] = "store" => Precedes(t, Op(i), x)
  <2>1. CASE x \in Own(s, i)
    BY <1>3, <1>4, <1>6, <2>1
  <2>2. CASE x = e /\ e[2] = i
    <3>1. /\ e[1] = "load" => s[b] = Op(i) /\ direction = "kBefore"
          /\ e[1] = "store" => s[b] = Op(i) /\ direction = "kAfter"
      BY <2>2
    <3>2. Op(i) \in Range(s) /\ ~ Precedes(s, Op(i), Op(i))
      BY <1>5
    <3>3. QED
      BY <1>3, <2>2, <3>1, <3>2
  <2>3. QED
    BY <1>6, <2>1, <2>2
<1>9. QED
  BY <1>1, <1>7, <1>8, Zenon DEF InOrder

(* A sequence in order, whose nests form a tree.                            *)
IsOrdered(T, s, nestOf, N) ==
  /\ s \in Seq(T) /\ IsDistinct(s)
  /\ \A x \in Range(s) : nestOf[x] \in Seq(LoopNames)
  /\ IsTree(Nests(s, nestOf))
  /\ N \in SUBSET Int /\ (\A i \in N : Op(i) \in Range(s)) /\ InOrder(s, N)

(* An operation that is no access and not in the sequence yet.              *)
IsFresh(T, s, e) ==
  e \in T /\ e \notin Range(s) /\ e[1] \notin {"load", "op", "store"}

(* Next to the b-th operation no loop inside nest is open.                  *)
IsGap(s, nestOf, b, direction, nest) ==
  /\ b \in DOMAIN s /\ nest \in Seq(LoopNames)
  /\ SharesLoops(nest, nestOf[s[b]], Len(nest))
  /\ b + Delta(direction) \in DOMAIN s =>
       ShareAtMost(nestOf[s[b]], nestOf[s[b + Delta(direction)]], Len(nest))

(* The nests once e is in the loops nest.                                   *)
IsExtended(s, nestOf, e, nest, after) ==
  after[e] = nest /\ \A x \in Range(s) : after[x] = nestOf[x]

(* Insert() of an operation that is no access, at such a gap.               *)
IsInsertion(T, s, nestOf, N, e, b, direction, nest, after, t) ==
  /\ IsOrdered(T, s, nestOf, N) /\ IsFresh(T, s, e)
  /\ direction \in {"kBefore", "kAfter"} /\ IsGap(s, nestOf, b, direction, nest)
  /\ IsExtended(s, nestOf, e, nest, after)
  /\ t = Insert(s, e, Point(s[b], direction, nest))

(* The order and the tree are kept, and e is beside the b-th operation.     *)
LEMMA InsertFree ==
  ASSUME NEW T, NEW s, NEW nestOf, NEW N, NEW e, NEW b, NEW direction, NEW nest,
         NEW after, NEW t, IsInsertion(T, s, nestOf, N, e, b, direction, nest, after, t)
  PROVE  /\ IsOrdered(T, t, after, N) /\ Range(t) = Range(s) \union {e}
         /\ IsInserted(t, s, Gap(b, direction), e)
         /\ \A x, y \in Range(s) : Precedes(t, x, y) <=> Precedes(s, x, y)
         /\ direction = "kBefore" =>
              \A x \in Range(s) : Precedes(t, e, x) <=> ~ Precedes(s, x, s[b])
         /\ direction = "kAfter" =>
              \A x \in Range(s) : Precedes(t, x, e) <=> ~ Precedes(s, s[b], x)
<1>1. /\ s \in Seq(T) /\ IsDistinct(s) /\ e \in T /\ e \notin Range(s) /\ b \in DOMAIN s
      /\ nest \in Seq(LoopNames)
  BY Zenon DEF IsInsertion, IsOrdered, IsFresh, IsGap
<1>2. t = Insert(s, e, Point(s[b], direction, nest)) /\ direction \in {"kBefore", "kAfter"}
  BY Zenon DEF IsInsertion
<1>3. /\ t \in Seq(T) /\ IsDistinct(t) /\ Range(t) = Range(s) \union {e}
      /\ IsInserted(t, s, Gap(b, direction), e)
  BY <1>1, <1>2, InsertElements, SMTT(30)
<1>4. /\ \A x, y \in Range(s) : Precedes(t, x, y) <=> Precedes(s, x, y)
      /\ direction = "kBefore" =>
           \A x \in Range(s) : Precedes(t, e, x) <=> ~ Precedes(s, x, s[b])
      /\ direction = "kAfter" =>
           \A x \in Range(s) : Precedes(t, x, e) <=> ~ Precedes(s, s[b], x)
  BY <1>1, <1>2, InsertPrecedes
<1>5. N \in SUBSET Int /\ (\A i \in N : Op(i) \in Range(t)) /\ InOrder(t, N)
  <2>1. N \in SUBSET Int /\ (\A i \in N : Op(i) \in Range(s)) /\ InOrder(s, N)
    BY Zenon DEF IsInsertion, IsOrdered
  <2>2. e[1] \notin {"load", "op", "store"}
    BY Zenon DEF IsInsertion, IsFresh
  <2>3. InOrder(t, N)
    BY <1>1, <1>2, <2>1, <2>2, InsertKeepsOrder, Zenon
  <2>4. QED
    BY <1>3, <2>1, <2>3, Zenon
<1>6. \A x \in Range(t) : after[x] \in Seq(LoopNames)
  BY <1>1, <1>3, ZenonT(40) DEF IsInsertion, IsOrdered, IsExtended
<1>7. IsTree(Nests(t, after))
  <2>1. (\A x \in Range(s) : nestOf[x] \in Seq(LoopNames)) /\ IsTree(Nests(s, nestOf))
    BY Zenon DEF IsInsertion, IsOrdered
  <2>2. /\ SharesLoops(nest, nestOf[s[b]], Len(nest))
        /\ b + Delta(direction) \in DOMAIN s =>
             ShareAtMost(nestOf[s[b]], nestOf[s[b + Delta(direction)]], Len(nest))
    BY Zenon DEF IsInsertion, IsGap
  <2>3. after[e] = nest /\ \A x \in Range(s) : after[x] = nestOf[x]
    BY Zenon DEF IsInsertion, IsExtended
  <2>4. QED
    BY <1>1, <1>2, <2>1, <2>2, <2>3, InsertKeepsTree, SMTT(30)
<1>8. QED
  BY <1>3, <1>4, <1>5, <1>6, <1>7, Zenon DEF IsOrdered

(* a is inserted behind the m-th operation, and the c-th becomes the d-th.  *)
IsMoved(T, s, nestOf, c, nest, a, u, after, m, d) ==
  /\ s \in Seq(T) /\ IsGap(s, nestOf, c, "kAfter", nest)
  /\ IsInserted(u, s, m, a) /\ IsExtended(s, nestOf, a, nest, after)
  /\ m \in Int /\ c \in Int /\ 0 <= m /\ m < c /\ d = c + 1

(* The gap after the c-th operation of s is the one after the d-th of u.    *)
IsSameGap(s, c, u, after, d, nest) == IsGap(u, after, d, "kAfter", nest) /\ u[d] = s[c]

(* The gap after an operation is still one when it has moved up.            *)
LEMMA GapMoves ==
  ASSUME NEW T, NEW s, NEW nestOf, NEW c, NEW nest, NEW a, NEW u, NEW after, NEW m, NEW d,
         IsMoved(T, s, nestOf, c, nest, a, u, after, m, d)
  PROVE  IsSameGap(s, c, u, after, d, nest)
<1>0. /\ s \in Seq(T) /\ IsGap(s, nestOf, c, "kAfter", nest)
      /\ IsInserted(u, s, m, a) /\ IsExtended(s, nestOf, a, nest, after)
      /\ m \in Int /\ c \in Int /\ 0 <= m /\ m < c /\ d = c + 1
  BY Zenon DEF IsMoved
<1>1. PICK L : L = Len(s)
  BY Zenon
<1>2. L \in Nat /\ DOMAIN s = 1 .. L /\ c \in 1 .. L /\ Delta("kAfter") = 1
  BY <1>0, <1>1, LenProperties DEF IsGap, Delta
<1>3. DOMAIN u = 1 .. L + 1 /\ \A k \in m + 2 .. L + 1 : u[k] = s[k - 1]
  BY <1>0, <1>1 DEF IsInserted
<1>4. d \in m + 2 .. L + 1 /\ d - 1 = c /\ d \in 1 .. L + 1
  BY <1>0, <1>2
<1>5. u[d] = s[c] /\ d \in DOMAIN u
  BY <1>3, <1>4
<1>6. ASSUME d + 1 \in DOMAIN u
      PROVE  c + 1 \in DOMAIN s /\ u[d + 1] = s[c + 1]
  <2>1. d + 1 \in m + 2 .. L + 1 /\ d + 1 - 1 = c + 1 /\ c + 1 \in 1 .. L
    BY <1>0, <1>2, <1>3, <1>6
  <2>2. QED
    BY <1>0, <1>2, <1>3, <2>1
<1>7. /\ SharesLoops(nest, nestOf[s[c]], Len(nest)) /\ nest \in Seq(LoopNames)
      /\ c + 1 \in DOMAIN s => ShareAtMost(nestOf[s[c]], nestOf[s[c + 1]], Len(nest))
  BY <1>0, <1>2 DEF IsGap
<1>8. \A k \in DOMAIN s : after[s[k]] = nestOf[s[k]]
  BY <1>0, Zenon DEF IsExtended, Range
<1>9. after[u[d]] = nestOf[s[c]]
  BY <1>2, <1>5, <1>8
<1>10. ASSUME d + 1 \in DOMAIN u
       PROVE  ShareAtMost(after[u[d]], after[u[d + 1]], Len(nest))
  <2>1. after[u[d + 1]] = nestOf[s[c + 1]]
    BY <1>6, <1>8, <1>10
  <2>2. QED
    BY <1>6, <1>7, <1>9, <1>10, <2>1
<1>11. QED
  BY <1>2, <1>5, <1>7, <1>9, <1>10 DEF IsGap, IsSameGap

(* Accesses A that share n loops, in a sequence in order.                   *)
IsSetting(T, s, nestOf, N, A, n) ==
  /\ IsOrdered(T, s, nestOf, N)
  /\ A \in SUBSET Range(s) /\ A # {} /\ n \in Nat
  /\ \A x, y \in A : SharesLoops(nestOf[x], nestOf[y], n)

(* The points around them that FindInsertionPoint() finds.                  *)
ArePoints(s, nestOf, A, n, from, to) ==
  /\ from = FindInsertionPoint(s, nestOf, GetSpan(s, A)[1], n, "kBefore")
  /\ to = FindInsertionPoint(s, nestOf, GetSpan(s, A)[2], n, "kAfter")

(* Both points have the same nest and enclose the accesses.                 *)
LEMMA PointsAround ==
  ASSUME NEW T, NEW s, NEW nestOf, NEW N, NEW A, NEW n, IsSetting(T, s, nestOf, N, A, n),
         NEW from, NEW to, ArePoints(s, nestOf, A, n, from, to)
  PROVE  \E nest, b, c :
           /\ from = Point(s[b], "kBefore", nest) /\ IsGap(s, nestOf, b, "kBefore", nest)
           /\ to = Point(s[c], "kAfter", nest) /\ IsGap(s, nestOf, c, "kAfter", nest)
           /\ b \in Int /\ c \in Int /\ 1 <= b /\ b <= c
           /\ \A x \in A : ~ Precedes(s, x, s[b]) /\ ~ Precedes(s, s[c], x)
<1>1. PICK first, last : first = GetSpan(s, A)[1] /\ last = GetSpan(s, A)[2]
  BY Zenon
<1>2. /\ s \in Seq(T) /\ IsDistinct(s) /\ A \in SUBSET Range(s) /\ A # {} /\ n \in Nat
      /\ \A x \in Range(s) : nestOf[x] \in Seq(LoopNames)
  BY Zenon DEF IsSetting, IsOrdered
<1>3. /\ first \in A /\ last \in A
      /\ \A x \in A : Number(s, first) <= Number(s, x) /\ Number(s, x) <= Number(s, last)
  BY <1>1, <1>2, SpanIs
<1>4. /\ nestOf[first] \in Seq(LoopNames) /\ nestOf[last] \in Seq(LoopNames)
      /\ first \in Range(s) /\ last \in Range(s)
  BY <1>2, <1>3
<1>5. SharesLoops(nestOf[first], nestOf[last], n) /\ SharesLoops(nestOf[last], nestOf[first], n)
  BY <1>3, Zenon DEF IsSetting
<1>6. n \in 0 .. Len(nestOf[first]) /\ n \in 0 .. Len(nestOf[last])
  <2>1. n <= Len(nestOf[first]) /\ n <= Len(nestOf[last])
    BY <1>5, Zenon DEF SharesLoops
  <2>2. Len(nestOf[first]) \in Nat /\ Len(nestOf[last]) \in Nat
    BY <1>4, LenProperties
  <2>3. QED
    BY <1>2, <2>1, <2>2
<1>7. PICK nest : nest = SubSeq(nestOf[first], 1, n)
  BY Zenon
<1>8. /\ nest \in Seq(LoopNames) /\ Len(nest) = n
      /\ \A other : SharesLoops(nestOf[first], other, n) => SharesLoops(nest, other, Len(nest))
  BY <1>4, <1>6, <1>7, OuterLoops
<1>9. nest = SubSeq(nestOf[last], 1, n)
  BY <1>4, <1>5, <1>6, <1>7, OuterLoops
<1>10. \A other : SharesLoops(nestOf[last], other, n) => SharesLoops(nest, other, Len(nest))
  BY <1>4, <1>6, <1>9, OuterLoops
<1>11. IsTree(Nests(s, nestOf))
  BY Zenon DEF IsSetting, IsOrdered
<1>12. PICK b \in DOMAIN s :
         /\ from = Point(s[b], "kBefore", nest) /\ b <= Number(s, first) + 1
         /\ SharesLoops(nestOf[first], nestOf[s[b]], n)
         /\ b + Delta("kBefore") \in DOMAIN s =>
              ShareAtMost(nestOf[s[b]], nestOf[s[b + Delta("kBefore")]], n)
  <2>1. "kBefore" \in {"kBefore", "kAfter"}
    BY Zenon
  <2>2. \E b \in DOMAIN s :
          /\ FindInsertionPoint(s, nestOf, first, n, "kBefore") =
               Point(s[b], "kBefore", SubSeq(nestOf[first], 1, n))
          /\ "kBefore" = "kBefore" => b <= Number(s, first) + 1
          /\ "kBefore" = "kAfter" => b >= Number(s, first) + 1
          /\ SharesLoops(nestOf[first], nestOf[s[b]], n)
          /\ b + Delta("kBefore") \in DOMAIN s =>
               ShareAtMost(nestOf[s[b]], nestOf[s[b + Delta("kBefore")]], n)
    BY <1>2, <1>4, <1>6, <1>11, <2>1, FoundPoint, Zenon
  <2>3. from = FindInsertionPoint(s, nestOf, first, n, "kBefore")
    BY <1>1, Zenon DEF ArePoints
  <2>4. QED
    BY <1>7, <2>2, <2>3, Zenon
<1>13. PICK c \in DOMAIN s :
         /\ to = Point(s[c], "kAfter", nest) /\ c >= Number(s, last) + 1
         /\ SharesLoops(nestOf[last], nestOf[s[c]], n)
         /\ c + Delta("kAfter") \in DOMAIN s =>
              ShareAtMost(nestOf[s[c]], nestOf[s[c + Delta("kAfter")]], n)
  <2>1. "kAfter" \in {"kBefore", "kAfter"}
    BY Zenon
  <2>2. \E c \in DOMAIN s :
          /\ FindInsertionPoint(s, nestOf, last, n, "kAfter") =
               Point(s[c], "kAfter", SubSeq(nestOf[last], 1, n))
          /\ "kAfter" = "kBefore" => c <= Number(s, last) + 1
          /\ "kAfter" = "kAfter" => c >= Number(s, last) + 1
          /\ SharesLoops(nestOf[last], nestOf[s[c]], n)
          /\ c + Delta("kAfter") \in DOMAIN s =>
               ShareAtMost(nestOf[s[c]], nestOf[s[c + Delta("kAfter")]], n)
    BY <1>2, <1>4, <1>6, <1>11, <2>1, FoundPoint, Zenon
  <2>3. to = FindInsertionPoint(s, nestOf, last, n, "kAfter")
    BY <1>1, Zenon DEF ArePoints
  <2>4. QED
    BY <1>9, <2>2, <2>3, Zenon
<1>14. IsGap(s, nestOf, b, "kBefore", nest) /\ IsGap(s, nestOf, c, "kAfter", nest)
  BY <1>8, <1>10, <1>12, <1>13, Zenon DEF IsGap
<1>15. DOMAIN s = 1 .. Len(s) /\ Len(s) \in Nat
  BY <1>2, LenProperties
<1>16. b \in 1 .. Len(s) /\ c \in 1 .. Len(s)
  BY <1>12, <1>13, <1>15, ZenonT(40)
<1>17. Number(s, s[b]) = b - 1 /\ Number(s, s[c]) = c - 1
  BY <1>2, <1>12, <1>13, NumberIs
<1>18. \A x \in A : Number(s, x) \in Int
  BY <1>2, NumberExists
<1>19. b \in Int /\ c \in Int /\ 1 <= b /\ b <= c
  <2>1. b \in Int /\ c \in Int /\ 1 <= b
    BY <1>15, <1>16
  <2>2. Number(s, first) \in Int /\ Number(s, last) \in Int /\ Number(s, first) <= Number(s, last)
    BY <1>3, <1>18, Zenon
  <2>3. b <= Number(s, first) + 1 /\ c >= Number(s, last) + 1
    BY <1>12, <1>13, Zenon
  <2>4. QED
    BY <2>1, <2>2, <2>3
<1>20. ASSUME NEW x \in A
       PROVE  ~ Precedes(s, x, s[b]) /\ ~ Precedes(s, s[c], x)
  <2>1. /\ Number(s, x) \in Int /\ Number(s, first) \in Int /\ Number(s, last) \in Int
        /\ Number(s, first) <= Number(s, x) /\ Number(s, x) <= Number(s, last)
    BY <1>3, <1>18, Zenon
  <2>2. b <= Number(s, first) + 1 /\ c >= Number(s, last) + 1
    BY <1>12, <1>13, Zenon
  <2>3. ~ (Number(s, x) < b - 1) /\ ~ (c - 1 < Number(s, x))
    BY <1>19, <2>1, <2>2
  <2>4. QED
    BY <1>17, <2>3 DEF Precedes
<1>21. QED
  BY <1>12, <1>13, <1>14, <1>19, <1>20, Zenon

(* The sequence t with a and f at these points.                             *)
IsAllocation(T, s, nestOf, N, A, n, from, to, a, f, after, t) ==
  /\ IsSetting(T, s, nestOf, N, A, n) /\ ArePoints(s, nestOf, A, n, from, to)
  /\ IsFresh(T, s, a) /\ IsFresh(T, s, f) /\ a # f
  /\ IsExtended(s, nestOf, a, from.nest, after) /\ IsExtended(s, nestOf, f, to.nest, after)
  /\ t = Insert(Insert(s, a, from), f, to)

(* It is in order, and a and f, in the same loops, enclose the accesses.     *)
IsAround(T, s, N, A, from, to, a, f, after, t) ==
  /\ from.nest = to.nest /\ from.nest \in Seq(LoopNames)
  /\ IsOrdered(T, t, after, N) /\ Range(t) = Range(s) \union {a, f}
  /\ \A x, y \in Range(s) : Precedes(t, x, y) <=> Precedes(s, x, y)
  /\ \A x \in A : Precedes(t, a, x) /\ Precedes(t, x, f)

(* Both points are found in the same sequence, and the one at the end is    *)
(* still next to the same operations when sair.alloc has been inserted.     *)
LEMMA AllocateAround ==
  ASSUME NEW T, NEW s, NEW nestOf, NEW N, NEW A, NEW n, NEW from, NEW to, NEW a, NEW f,
         NEW after, NEW t, IsAllocation(T, s, nestOf, N, A, n, from, to, a, f, after, t)
  PROVE  IsAround(T, s, N, A, from, to, a, f, after, t)
<1>1. IsSetting(T, s, nestOf, N, A, n) /\ ArePoints(s, nestOf, A, n, from, to)
  BY Zenon DEF IsAllocation
<1>2. PICK nest, b, c :
        /\ from = Point(s[b], "kBefore", nest) /\ IsGap(s, nestOf, b, "kBefore", nest)
        /\ to = Point(s[c], "kAfter", nest) /\ IsGap(s, nestOf, c, "kAfter", nest)
        /\ b \in Int /\ c \in Int /\ 1 <= b /\ b <= c
        /\ \A x \in A : ~ Precedes(s, x, s[b]) /\ ~ Precedes(s, s[c], x)
  BY <1>1, PointsAround
<1>3. from.nest = nest /\ to.nest = nest
  BY <1>2 DEF Point
<1>4. nest \in Seq(LoopNames) /\ c \in DOMAIN s
  BY <1>2, Zenon DEF IsGap
<1>5. IsOrdered(T, s, nestOf, N) /\ s \in Seq(T) /\ A \in SUBSET Range(s)
  BY <1>1, Zenon DEF IsSetting, IsOrdered
<1>6. IsExtended(s, nestOf, a, nest, after) /\ after[f] = nest
  BY <1>3, Zenon DEF IsAllocation, IsExtended
<1>7. PICK u, m, d : u = Insert(s, a, Point(s[b], "kBefore", nest)) /\ m = b - 1 /\ d = c + 1
  BY Zenon
<1>8. /\ IsOrdered(T, u, after, N) /\ Range(u) = Range(s) \union {a}
      /\ IsInserted(u, s, Gap(b, "kBefore"), a)
      /\ \A x, y \in Range(s) : Precedes(u, x, y) <=> Precedes(s, x, y)
      /\ \A x \in Range(s) : Precedes(u, a, x) <=> ~ Precedes(s, x, s[b])
  <2>1. IsInsertion(T, s, nestOf, N, a, b, "kBefore", nest, after, u)
    <3>1. IsFresh(T, s, a)
      BY Zenon DEF IsAllocation
    <3>2. "kBefore" \in {"kBefore", "kAfter"} /\ IsGap(s, nestOf, b, "kBefore", nest)
      BY <1>2, Zenon
    <3>3. QED
      BY <1>5, <1>6, <1>7, <3>1, <3>2, Zenon DEF IsInsertion
  <2>2. QED
    BY <2>1, InsertFree
<1>9. IsGap(u, after, d, "kAfter", nest) /\ u[d] = s[c]
  <2>1. Gap(b, "kBefore") = m
    BY <1>7 DEF Gap
  <2>2. b \in Int /\ c \in Int /\ 1 <= b /\ b <= c /\ IsGap(s, nestOf, c, "kAfter", nest)
    BY <1>2, Zenon
  <2>3. m \in Int /\ c \in Int /\ 0 <= m /\ m < c /\ d = c + 1
    BY <1>7, <2>2
  <2>4. IsMoved(T, s, nestOf, c, nest, a, u, after, m, d)
    BY <1>5, <1>6, <1>8, <2>1, <2>2, <2>3, Zenon DEF IsMoved
  <2>5. IsSameGap(s, c, u, after, d, nest)
    BY <2>4, GapMoves, Zenon
  <2>6. QED
    BY <2>5, Zenon DEF IsSameGap
<1>10. /\ IsOrdered(T, t, after, N) /\ Range(t) = Range(u) \union {f}
       /\ \A x, y \in Range(u) : Precedes(t, x, y) <=> Precedes(u, x, y)
       /\ \A x \in Range(u) : Precedes(t, x, f) <=> ~ Precedes(u, u[d], x)
  <2>1. IsFresh(T, u, f) /\ IsExtended(u, after, f, nest, after)
    BY <1>6, <1>8, Zenon DEF IsAllocation, IsFresh, IsExtended
  <2>2. t = Insert(u, f, Point(u[d], "kAfter", nest))
    BY <1>2, <1>7, <1>9, Zenon DEF IsAllocation
  <2>3. IsInsertion(T, u, after, N, f, d, "kAfter", nest, after, t)
    BY <1>8, <1>9, <2>1, <2>2, Zenon DEF IsInsertion
  <2>4. QED
    BY <2>3, InsertFree
<1>11. ASSUME NEW x \in A
       PROVE  Precedes(t, a, x) /\ Precedes(t, x, f)
  <2>1. x \in Range(s) /\ s[c] \in Range(s) /\ a \in Range(u) /\ x \in Range(u)
    BY <1>4, <1>5, <1>8, Zenon DEF Range
  <2>2. ~ Precedes(s, x, s[b]) /\ ~ Precedes(s, s[c], x)
    BY <1>2, Zenon
  <2>3. Precedes(u, a, x) /\ ~ Precedes(u, s[c], x)
    BY <1>8, <2>1, <2>2, Zenon
  <2>4. QED
    BY <1>9, <1>10, <2>1, <2>3, Zenon
<1>12. \A x, y \in Range(s) : Precedes(t, x, y) <=> Precedes(s, x, y)
  BY <1>8, <1>10, Zenon
<1>13. Range(t) = Range(s) \union {a, f}
  BY <1>8, <1>10
<1>14. QED
  BY <1>3, <1>4, <1>10, <1>11, <1>12, <1>13, Zenon DEF IsAround

============================================================================
