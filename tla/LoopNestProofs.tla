--------------------------- MODULE LoopNestProofs ---------------------------
(***************************************************************************)
(* Proofs about the verification of loop nests and the default loop nests,  *)
(* for any program, any loop names and any supply of fresh names.           *)
(*                                                                          *)
(* The inductive invariant (IInv) ties the LoopNestState to the operations  *)
(* that were seen (Walked): the open loops are those of the last operation, *)
(* the closed ones all the others, and the nests seen so far form a tree.   *)
(* While default nests are added, every name in use is one that the fusion  *)
(* analysis knows or a fresh name that was already given out.               *)
(***************************************************************************)
EXTENDS LoopNest, TLAPS

-----------------------------------------------------------------------------
(* The first m nests of a program.                                         *)

TreeUpTo(nests, m) ==
  \A i, j \in 1 .. m :
    \A p \in DOMAIN nests[i], q \in DOMAIN nests[j] :
      nests[i][p] = nests[j][q] =>
        /\ p = q
        /\ \A k \in i .. j : SharesLoops(nests[i], nests[k], p)

AreNests(nests, m) == \A i \in 1 .. m : WellFormedNest(nests[i])

NamesUpTo(nests, m) == UNION {NamesIn(nests[i]) : i \in 1 .. m}

(* The LoopNestState after the first m operations.                          *)
Walked(nests, m, open, closed) ==
  /\ open = IF m = 0 THEN <<>> ELSE nests[m]
  /\ NamesIn(open) \intersect closed = {}
  /\ NamesIn(open) \union closed = NamesUpTo(nests, m)
  /\ TreeUpTo(nests, m)

(* The places of a well-formed nest are numbered from one and hold          *)
(* different names.                                                         *)
LEMMA NestPlaces ==
  ASSUME NEW nest, WellFormedNest(nest)
  PROVE  /\ Len(nest) \in Nat /\ DOMAIN nest = 1 .. Len(nest)
         /\ \A p, q \in DOMAIN nest : nest[p] = nest[q] => p = q
BY DEF WellFormedNest

(* A name of the first m nests is a name of one of them.                    *)
LEMMA NameUpTo ==
  ASSUME NEW nests, NEW m \in Nat, NEW name
  PROVE  name \in NamesUpTo(nests, m) <=> \E i \in 1 .. m : name \in NamesIn(nests[i])
BY Zenon DEF NamesUpTo

(* The names of the first m + 1 nests.                                      *)
LEMMA NamesOfNext ==
  ASSUME NEW nests, NEW m \in Nat
  PROVE  NamesUpTo(nests, m + 1) = NamesUpTo(nests, m) \union NamesIn(nests[m + 1])
<1>1. 1 .. m + 1 = (1 .. m) \union {m + 1}
  OBVIOUS
<1>2. QED
  BY <1>1, Zenon DEF NamesUpTo

(* Update keeps open the loops it shares with the operation before, closes  *)
(* the others and opens new ones: no loop is both open and closed, and none *)
(* is forgotten.                                                            *)
LEMMA UpdateIsExact ==
  ASSUME NEW nests, NEW m \in Nat, AreNests(nests, m + 1),
         Walked(nests, m, openLoops, closedLoops),
         NEW n \in 0 .. Len(nests[m + 1]),
         IsCommonPrefix(nests[m + 1], n), ~ Reopens(nests[m + 1], n)
  PROVE  /\ NamesIn(nests[m + 1]) \intersect ClosedBeyond(n) = {}
         /\ NamesIn(nests[m + 1]) \union ClosedBeyond(n) = NamesUpTo(nests, m + 1)
<1> DEFINE nest == nests[m + 1]
<1>1. WellFormedNest(nest)
  BY DEF AreNests
<1>2. /\ Len(nest) \in Nat /\ DOMAIN nest = 1 .. Len(nest)
      /\ \A p, q \in DOMAIN nest : nest[p] = nest[q] => p = q
  BY <1>1, NestPlaces
<1>3. /\ Len(openLoops) \in Nat /\ DOMAIN openLoops = 1 .. Len(openLoops)
      /\ \A p, q \in DOMAIN openLoops : openLoops[p] = openLoops[q] => p = q
  <2>1. CASE m = 0
    BY <2>1 DEF Walked
  <2>2. CASE m # 0
    <3>1. openLoops = nests[m] /\ m \in 1 .. m + 1
      BY <2>2 DEF Walked
    <3>2. WellFormedNest(openLoops)
      BY <3>1 DEF AreNests
    <3>3. QED
      BY <3>2, NestPlaces
  <2>3. QED
    BY <2>1, <2>2
<1>4. n \in Nat /\ n <= Len(nest) /\ n <= Len(openLoops) /\ \A k \in 1 .. n : nest[k] = openLoops[k]
  BY <1>2 DEF IsCommonPrefix, SharesLoops
<1>5. \A p \in n + 1 .. Len(nest) : nest[p] \notin ClosedBeyond(n)
  BY DEF Reopens
<1> HIDE DEF nest
<1>6. ASSUME NEW p \in DOMAIN nest
      PROVE  nest[p] \notin ClosedBeyond(n)
  <2>1. CASE p > n
    BY <1>2, <1>4, <1>5, <2>1
  <2>2. CASE p <= n
    <3>1. p \in 1 .. n /\ p \in DOMAIN openLoops /\ nest[p] = openLoops[p]
      BY <1>2, <1>3, <1>4, <2>2
    <3>2. nest[p] \notin closedLoops
      BY <3>1, Zenon DEF Walked, NamesIn
    <3>3. \A q \in n + 1 .. Len(openLoops) : nest[p] # openLoops[q]
      BY <1>3, <1>4, <3>1
    <3>4. QED
      BY <3>2, <3>3, Zenon DEF ClosedBeyond
  <2>3. QED
    BY <1>2, <1>4, <2>1, <2>2
<1>7. NamesIn(nest) \union ClosedBeyond(n) = NamesUpTo(nests, m) \union NamesIn(nest)
  <2>1. \A p \in DOMAIN openLoops :
          openLoops[p] \in NamesIn(nest) \/ p \in n + 1 .. Len(openLoops)
    <3> SUFFICES ASSUME NEW p \in DOMAIN openLoops, ~ (p \in n + 1 .. Len(openLoops))
                 PROVE  openLoops[p] \in NamesIn(nest)
      OBVIOUS
    <3>1. p \in 1 .. n /\ p \in DOMAIN nest /\ openLoops[p] = nest[p]
      BY <1>2, <1>3, <1>4
    <3>2. QED
      BY <3>1, Zenon DEF NamesIn
  <2>2. n + 1 .. Len(openLoops) \subseteq DOMAIN openLoops
    BY <1>3, <1>4
  <2>3. NamesUpTo(nests, m) = NamesIn(openLoops) \union closedLoops
    BY DEF Walked
  <2>4. NamesIn(openLoops) \subseteq NamesIn(nest) \union ClosedBeyond(n)
    BY <2>1, Zenon DEF NamesIn, ClosedBeyond
  <2>5. ClosedBeyond(n) \subseteq NamesIn(openLoops) \union closedLoops
    BY <2>2, Zenon DEF NamesIn, ClosedBeyond
  <2>6. closedLoops \subseteq ClosedBeyond(n)
    BY Zenon DEF ClosedBeyond
  <2>7. QED
    BY <2>3, <2>4, <2>5, <2>6, Zenon
<1>8. NamesIn(nest) \intersect ClosedBeyond(n) = {}
  BY <1>6, Zenon DEF NamesIn
<1>9. QED
  BY <1>7, <1>8, NamesOfNext DEF nest

(* What Update accepts extends the tree of loops seen so far.               *)
LEMMA UpdateKeepsTree ==
  ASSUME NEW nests, NEW m \in Nat, AreNests(nests, m + 1),
         Walked(nests, m, openLoops, closedLoops),
         NEW n \in 0 .. Len(nests[m + 1]),
         IsCommonPrefix(nests[m + 1], n), ~ Reopens(nests[m + 1], n)
  PROVE  TreeUpTo(nests, m + 1)
<1> DEFINE nest == nests[m + 1]
           Agree(i, j) ==
             \A p \in DOMAIN nests[i], q \in DOMAIN nests[j] :
               nests[i][p] = nests[j][q] =>
                 /\ p = q
                 /\ \A k \in i .. j : SharesLoops(nests[i], nests[k], p)
<1>1. /\ Len(nest) \in Nat /\ DOMAIN nest = 1 .. Len(nest)
      /\ \A p, q \in DOMAIN nest : nest[p] = nest[q] => p = q
  <2>1. WellFormedNest(nest)
    BY DEF AreNests
  <2>2. QED
    BY <2>1, NestPlaces
<1>2. n \in Nat /\ n <= Len(nest) /\ n <= Len(openLoops) /\ \A k \in 1 .. n : nest[k] = openLoops[k]
  BY <1>1 DEF IsCommonPrefix, SharesLoops
<1>3. /\ NamesIn(nest) \intersect ClosedBeyond(n) = {}
      /\ NamesIn(openLoops) \union closedLoops = NamesUpTo(nests, m)
  BY UpdateIsExact DEF Walked
<1>4. \A i, j \in 1 .. m : Agree(i, j)
  BY Zenon DEF Walked, TreeUpTo
<1>5. ASSUME NEW i \in 1 .. m, NEW p \in DOMAIN nests[i], NEW q \in DOMAIN nest,
             nests[i][p] = nest[q]
      PROVE  p = q /\ \A k \in i .. m + 1 : SharesLoops(nests[i], nests[k], p)
  <2>1. nest[q] \in NamesIn(openLoops) \union closedLoops
    <3>1. nest[q] \in NamesIn(nests[i])
      BY <1>5, Zenon DEF NamesIn
    <3>2. nest[q] \in NamesUpTo(nests, m)
      BY <3>1, NameUpTo
    <3>3. QED
      BY <1>3, <3>2
  <2>2. nest[q] \notin ClosedBeyond(n)
    BY <1>3, Zenon DEF NamesIn
  <2>3. m # 0 /\ openLoops = nests[m] /\ m \in 1 .. m
    <3>1. m # 0 /\ m \in 1 .. m
      OBVIOUS
    <3>2. QED
      BY <3>1, Zenon DEF Walked
  <2>4. PICK r \in DOMAIN openLoops : nest[q] = openLoops[r]
    BY <2>1, <2>2, Zenon DEF NamesIn, ClosedBeyond
  <2>5. Len(openLoops) \in Nat /\ DOMAIN openLoops = 1 .. Len(openLoops)
    <3>1. WellFormedNest(openLoops)
      BY <2>3 DEF AreNests
    <3>2. QED
      BY <3>1, NestPlaces
  <2>6. r \in 1 .. n
    <3>1. r \notin n + 1 .. Len(openLoops)
      BY <2>2, <2>4, Zenon DEF ClosedBeyond
    <3>2. QED
      BY <1>2, <2>5, <3>1
  <2>7. r = q
    <3>1. r \in DOMAIN nest /\ nest[r] = openLoops[r]
      BY <1>1, <1>2, <2>6
    <3>2. QED
      BY <1>1, <2>4, <3>1, Zenon
  <2>8. nests[i][p] = nests[m][q] /\ q \in DOMAIN nests[m]
    BY <1>5, <2>3, <2>4, <2>7, Zenon
  <2>9. p = q /\ \A k \in i .. m : SharesLoops(nests[i], nests[k], p)
    BY <1>4, <2>3, <2>8, Zenon
  <2>10. SharesLoops(nests[i], nest, p)
    <3>1. m \in i .. m
      OBVIOUS
    <3>2. SharesLoops(nests[i], openLoops, p)
      BY <2>3, <2>9, <3>1, Zenon
    <3>3. p \in 1 .. n /\ p <= Len(nests[i]) /\ \A k \in 1 .. p : nests[i][k] = openLoops[k]
      BY <2>6, <2>7, <2>9, <3>2 DEF SharesLoops
    <3>4. \A k \in 1 .. p : k \in 1 .. n
      BY <1>2, <3>3
    <3>5. \A k \in 1 .. p : nests[i][k] = nest[k]
      BY <1>2, <3>3, <3>4, Zenon
    <3>6. p <= Len(nest)
      BY <1>1, <1>2, <3>3
    <3>7. QED
      BY <3>3, <3>5, <3>6 DEF SharesLoops
  <2>11. ASSUME NEW k \in i .. m + 1
         PROVE  SharesLoops(nests[i], nests[k], p)
    <3>1. k = m + 1 \/ k \in i .. m
      OBVIOUS
    <3>2. QED
      BY <2>9, <2>10, <3>1, Zenon
  <2>12. QED
    BY <2>9, <2>11
<1>6. ASSUME NEW i \in 1 .. m + 1, NEW j \in 1 .. m + 1
      PROVE  Agree(i, j)
  <2>1. CASE i \in 1 .. m /\ j \in 1 .. m
    BY <1>4, <2>1
  <2>2. CASE i \in 1 .. m /\ j = m + 1
    BY <1>5, <2>2, Zenon
  <2>3. CASE i = m + 1 /\ j \in 1 .. m
    <3> SUFFICES ASSUME NEW p \in DOMAIN nests[i], NEW q \in DOMAIN nests[j],
                        nests[i][p] = nests[j][q]
                 PROVE  p = q /\ \A k \in i .. j : SharesLoops(nests[i], nests[k], p)
      BY Zenon
    <3>1. p = q
      BY <1>5, <2>3, Zenon
    <3>2. i .. j = {}
      BY <2>3
    <3>3. QED
      BY <3>1, <3>2, Zenon
  <2>4. CASE i = m + 1 /\ j = m + 1
    <3> SUFFICES ASSUME NEW p \in DOMAIN nest, NEW q \in DOMAIN nest, nest[p] = nest[q]
                 PROVE  p = q /\ \A k \in i .. j : SharesLoops(nest, nests[k], p)
      BY <2>4, Zenon
    <3>1. p = q
      BY <1>1, Zenon
    <3>2. \A k \in i .. j : nests[k] = nest
      BY <2>4
    <3>3. SharesLoops(nest, nest, p)
      BY <1>1 DEF SharesLoops
    <3>4. QED
      BY <3>1, <3>2, <3>3, Zenon
  <2>5. QED
    BY <2>1, <2>2, <2>3, <2>4
<1>7. QED
  BY <1>6, Zenon DEF TreeUpTo

(* What Update refuses would break the tree: the loop is reopened, or opened *)
(* at another place.                                                        *)
LEMMA ReopeningBreaksTree ==
  ASSUME NEW nests, NEW m \in Nat, AreNests(nests, m + 1),
         Walked(nests, m, openLoops, closedLoops),
         NEW n \in 0 .. Len(nests[m + 1]),
         IsCommonPrefix(nests[m + 1], n), Reopens(nests[m + 1], n),
         TreeUpTo(nests, m + 1)
  PROVE  FALSE
<1> DEFINE nest == nests[m + 1]
<1>1. PICK p \in n + 1 .. Len(nest) : nest[p] \in ClosedBeyond(n)
  BY DEF Reopens
<1>2. Len(nest) \in Nat /\ DOMAIN nest = 1 .. Len(nest)
  <2>1. WellFormedNest(nest)
    BY DEF AreNests
  <2>2. QED
    BY <2>1, NestPlaces
<1>3. p \in DOMAIN nest /\ n \in Nat
  BY <1>1, <1>2
<1>4. ASSUME NEW i \in 1 .. m, NEW q \in DOMAIN nests[i], nests[i][q] = nest[p]
      PROVE  /\ q = p
             /\ SharesLoops(nests[i], nests[m], p)
             /\ SharesLoops(nests[i], nest, p)
  <2>1. i \in 1 .. m + 1 /\ m + 1 \in 1 .. m + 1 /\ m \in i .. m + 1 /\ m + 1 \in i .. m + 1
    OBVIOUS
  <2>2. q = p /\ \A k \in i .. m + 1 : SharesLoops(nests[i], nests[k], q)
    BY <1>3, <1>4, <2>1, Zenon DEF TreeUpTo
  <2>3. QED
    BY <2>1, <2>2, Zenon
<1>5. CASE nest[p] \in NamesIn(openLoops)
  <2>1. m # 0
    BY <1>5 DEF Walked, NamesIn
  <2>2. m \in 1 .. m /\ openLoops = nests[m]
    BY <2>1 DEF Walked
  <2>3. SharesLoops(openLoops, nest, p)
    BY <1>4, <1>5, <2>2, Zenon DEF NamesIn
  <2>4. SharesLoops(nest, openLoops, n + 1)
    <3>1. n + 1 <= p /\ p \in Nat /\ p <= Len(nest) /\ p <= Len(openLoops)
      BY <1>1, <1>2, <1>3, <2>3 DEF SharesLoops
    <3>2. Len(openLoops) \in Nat
      <4>1. WellFormedNest(openLoops)
        BY <2>2 DEF AreNests
      <4>2. QED
        BY <4>1, NestPlaces
    <3>3. \A k \in 1 .. n + 1 : k \in 1 .. p
      BY <1>3, <3>1
    <3>4. \A k \in 1 .. n + 1 : nest[k] = openLoops[k]
      BY <2>3, <3>3 DEF SharesLoops
    <3>5. n + 1 <= Len(nest) /\ n + 1 <= Len(openLoops)
      BY <1>2, <1>3, <3>1, <3>2
    <3>6. QED
      BY <3>4, <3>5 DEF SharesLoops
  <2>5. QED
    BY <2>4 DEF IsCommonPrefix
<1>6. CASE nest[p] \notin NamesIn(openLoops)
  <2>1. nest[p] \in closedLoops
    <3>1. n + 1 .. Len(openLoops) \subseteq DOMAIN openLoops
      <4>1. openLoops = <<>> \/ (m \in 1 .. m + 1 /\ openLoops = nests[m])
        BY DEF Walked
      <4>2. Len(openLoops) \in Nat /\ DOMAIN openLoops = 1 .. Len(openLoops)
        <5>1. CASE openLoops = <<>>
          BY <5>1
        <5>2. CASE m \in 1 .. m + 1 /\ openLoops = nests[m]
          <6>1. WellFormedNest(openLoops)
            BY <5>2 DEF AreNests
          <6>2. QED
            BY <6>1, NestPlaces
        <5>3. QED
          BY <4>1, <5>1, <5>2
      <4>3. QED
        BY <1>3, <4>2
    <3>2. QED
      BY <1>1, <1>6, <3>1, Zenon DEF NamesIn, ClosedBeyond
  <2>2. PICK i \in 1 .. m : nest[p] \in NamesIn(nests[i])
    <3>1. nest[p] \in NamesUpTo(nests, m)
      BY <2>1 DEF Walked
    <3>2. QED
      BY <3>1, NameUpTo
  <2>3. PICK q \in DOMAIN nests[i] : nests[i][q] = nest[p]
    BY <2>2, Zenon DEF NamesIn
  <2>4. q = p /\ SharesLoops(nests[i], nests[m], p)
    BY <1>4, <2>3, Zenon
  <2>5. m # 0 /\ m \in 1 .. m + 1 /\ openLoops = nests[m]
    <3>1. m # 0 /\ m \in 1 .. m + 1
      OBVIOUS
    <3>2. QED
      BY <3>1, Zenon DEF Walked
  <2>6. Len(openLoops) \in Nat /\ DOMAIN openLoops = 1 .. Len(openLoops)
    <3>1. WellFormedNest(openLoops)
      BY <2>5 DEF AreNests
    <3>2. QED
      BY <3>1, NestPlaces
  <2>7. p \in 1 .. p /\ p <= Len(openLoops) /\ nests[i][p] = openLoops[p]
    BY <1>2, <1>3, <2>4, <2>5 DEF SharesLoops
  <2>8. p \in DOMAIN openLoops /\ openLoops[p] = nest[p]
    BY <1>2, <1>3, <2>3, <2>4, <2>6, <2>7
  <2>9. QED
    BY <1>6, <2>8, Zenon DEF NamesIn
<1>7. QED
  BY <1>5, <1>6

(* A nest of new names in the place of an empty one keeps a tree of loops.  *)
LEMMA FillingKeepsTree ==
  ASSUME NEW nests, NEW m \in Nat, TreeUpTo(nests, m),
         NEW o \in 1 .. m, nests[o] = <<>>,
         NEW filled, WellFormedNest(filled[o]),
         NamesIn(filled[o]) \intersect NamesUpTo(nests, m) = {},
         \A i \in 1 .. m : i # o => filled[i] = nests[i]
  PROVE  TreeUpTo(filled, m)
<1> DEFINE Agree(i, j) ==
             \A p \in DOMAIN filled[i], q \in DOMAIN filled[j] :
               filled[i][p] = filled[j][q] =>
                 /\ p = q
                 /\ \A k \in i .. j : SharesLoops(filled[i], filled[k], p)
<1>1. /\ Len(filled[o]) \in Nat /\ DOMAIN filled[o] = 1 .. Len(filled[o])
      /\ \A p, q \in DOMAIN filled[o] : filled[o][p] = filled[o][q] => p = q
  BY NestPlaces
<1>2. ASSUME NEW i \in 1 .. m, i # o, NEW p \in DOMAIN filled[o], NEW q \in DOMAIN filled[i]
      PROVE  filled[o][p] # filled[i][q]
  <2>1. filled[i][q] \in NamesIn(nests[i])
    BY <1>2, Zenon DEF NamesIn
  <2>2. filled[i][q] \in NamesUpTo(nests, m)
    BY <2>1, NameUpTo
  <2>3. filled[o][p] \in NamesIn(filled[o])
    BY Zenon DEF NamesIn
  <2>4. QED
    BY <2>2, <2>3
<1>3. ASSUME NEW i \in 1 .. m, NEW j \in 1 .. m, i # o, j # o
      PROVE  Agree(i, j)
  <2> SUFFICES ASSUME NEW p \in DOMAIN filled[i], NEW q \in DOMAIN filled[j],
                      filled[i][p] = filled[j][q]
               PROVE  p = q /\ \A k \in i .. j : SharesLoops(filled[i], filled[k], p)
    BY Zenon
  <2>1. filled[i] = nests[i] /\ filled[j] = nests[j]
    BY <1>3
  <2>2. p = q /\ \A k \in i .. j : SharesLoops(nests[i], nests[k], p)
    BY <2>1, Zenon DEF TreeUpTo
  <2>3. ASSUME NEW k \in i .. j
        PROVE  SharesLoops(filled[i], filled[k], p)
    <3>1. CASE k = o
      <4>1. p <= 0 /\ p <= Len(nests[i]) /\ \A l \in 1 .. p : nests[i][l] = nests[k][l]
        BY <2>2, <3>1 DEF SharesLoops
      <4>2. SharesLoops(nests[i], nests[k], p)
        BY <2>2
      <4>3. CASE i = k
        BY <1>3, <3>1, <4>3
      <4>4. QED
        BY <1>3, <2>1, <2>2, <3>1, <4>1, <4>2
    <3>2. CASE k # o
      <4>1. k \in 1 .. m
        OBVIOUS
      <4>2. QED
        BY <2>1, <2>2, <3>2, <4>1, Zenon
    <3>3. QED
      BY <3>1, <3>2
  <2>4. QED
    BY <2>2, <2>3
<1>4. ASSUME NEW i \in 1 .. m, NEW j \in 1 .. m
      PROVE  Agree(i, j)
  <2>1. CASE i # o /\ j # o
    BY <1>3, <2>1
  <2>2. CASE i = o /\ j # o
    BY <1>2, <2>2, Zenon
  <2>3. CASE i # o /\ j = o
    BY <1>2, <2>3, Zenon
  <2>4. CASE i = o /\ j = o
    <3> SUFFICES ASSUME NEW p \in DOMAIN filled[o], NEW q \in DOMAIN filled[o],
                        filled[o][p] = filled[o][q]
                 PROVE  p = q /\ \A k \in o .. o : SharesLoops(filled[o], filled[k], p)
      BY <2>4, Zenon
    <3>1. p = q
      BY <1>1, Zenon
    <3>2. \A k \in o .. o : filled[k] = filled[o]
      OBVIOUS
    <3>3. SharesLoops(filled[o], filled[o], p)
      BY <1>1 DEF SharesLoops
    <3>4. QED
      BY <3>1, <3>2, <3>3, Zenon
  <2>5. QED
    BY <2>1, <2>2, <2>3, <2>4
<1>5. QED
  BY <1>4, Zenon DEF TreeUpTo

-----------------------------------------------------------------------------
(* The inductive invariant.                                                *)

GivenOut == {FreshNames[k] : k \in 1 .. nextLoopId}

Typed == TypeOK /\ AreNests(Nests, Len(program))

(* While a program is verified, and what a refusal means.                   *)
WalkInv ==
  /\ phase \in {"verify", "again"} => Walked(Nests, position - 1, openLoops, closedLoops)
  /\ phase = "not contiguous" => position \in DOMAIN program /\ ~ TreeUpTo(Nests, position)
  /\ phase # "not contiguous again"

(* While DefaultLoopNest runs.                                              *)
DefaultInv ==
  /\ phase = "verify" => newLoops = <<>>
  /\ phase \in {"default", "again", "done"} => TreeUpTo(Nests, Len(program))
  /\ phase = "default" =>
       /\ openLoops = <<>> /\ closedLoops = {}
       /\ NamesUpTo(Nests, Len(program)) \subseteq fusionNames \union GivenOut
       /\ NamesIn(newLoops) \subseteq GivenOut
       /\ NamesIn(newLoops) \intersect NamesUpTo(Nests, Len(program)) = {}
       /\ WellFormedNest(newLoops)

(* The loops of the values an operation reads through an fby.               *)
CarriedInv ==
  /\ phase \in {"again", "done"} =>
       \A i \in 1 .. position - 1 : LoopsToOpen(i) \subseteq NamesUpTo(Nests, i)
  /\ phase = "done" => position = Len(program) + 1
  /\ phase \in {"not open", "not open again"} =>
       /\ position \in DOMAIN program
       /\ ~ (LoopsToOpen(position) \subseteq NamesUpTo(Nests, position))

IInv == Typed /\ WalkInv /\ DefaultInv /\ CarriedInv

(* The nests of a typed program.                                            *)
LEMMA ProgramNests ==
  ASSUME program \in Seq(Operations)
  PROVE  /\ Len(program) \in Nat /\ DOMAIN program = 1 .. Len(program)
         /\ DOMAIN Nests = 1 .. Len(program)
         /\ \A i \in 1 .. Len(program) : Nests[i] = Loops(program[i])
         /\ \A i \in 1 .. Len(program) : program[i] \in Operations
<1>1. Len(program) \in Nat /\ DOMAIN program = 1 .. Len(program)
  OBVIOUS
<1>2. \A i \in 1 .. Len(program) : program[i] \in Operations
  OBVIOUS
<1>3. QED
  BY <1>1, <1>2, Zenon DEF Nests

(* A step that keeps the program keeps its nests.                           *)
LEMMA SameNests ==
  ASSUME program' = program
  PROVE  Nests' = Nests /\ \A i : LoopsToOpen(i)' = LoopsToOpen(i)
<1>1. Nests' = Nests
  BY DEF Nests, Loops
<1>2. QED
  BY <1>1 DEF LoopsToOpen

(* Operations accepted so far, and the one at hand.                         *)
LEMMA NestsSoFar ==
  ASSUME Typed, NEW m \in Nat, m <= Len(program)
  PROVE  AreNests(Nests, m)
<1>1. Len(program) \in Nat
  <2>1. program \in Seq(Operations)
    BY Zenon DEF Typed, TypeOK
  <2>2. QED
    BY <2>1
<1>2. \A i \in 1 .. m : i \in 1 .. Len(program)
  BY <1>1
<1>3. QED
  BY <1>2, Zenon DEF Typed, AreNests

(* A tree of loops starts with trees of loops.                              *)
LEMMA TreeOfFirst ==
  ASSUME NEW nests, NEW m \in Nat, NEW k \in Nat, k <= m, TreeUpTo(nests, m)
  PROVE  TreeUpTo(nests, k)
<1>1. \A i \in 1 .. k : i \in 1 .. m
  OBVIOUS
<1>2. QED
  BY <1>1, Zenon DEF TreeUpTo

(* The properties speak of NestsBefore.                                     *)
LEMMA TreeOfNestsBefore ==
  ASSUME NEW n \in Nat
  PROVE  IsTree(NestsBefore(n + 1)) <=> TreeUpTo(Nests, n)
<1> DEFINE before == NestsBefore(n + 1)
<1>1. DOMAIN before = 1 .. n /\ \A i \in 1 .. n : before[i] = Nests[i]
  BY DEF NestsBefore
<1> HIDE DEF before
<1>2. \A i, j \in 1 .. n : \A k \in i .. j : before[k] = Nests[k]
  BY <1>1
<1>3. ASSUME TreeUpTo(Nests, n),
             NEW i \in 1 .. n, NEW j \in 1 .. n,
             NEW p \in DOMAIN before[i], NEW q \in DOMAIN before[j],
             before[i][p] = before[j][q]
      PROVE  p = q /\ \A k \in i .. j : SharesLoops(before[i], before[k], p)
  <2>1. before[i] = Nests[i] /\ before[j] = Nests[j]
    BY <1>1
  <2>2. p = q /\ \A k \in i .. j : SharesLoops(Nests[i], Nests[k], p)
    BY <1>3, <2>1, Zenon DEF TreeUpTo
  <2>3. QED
    BY <1>2, <2>1, <2>2, Zenon
<1>4. ASSUME IsTree(before),
             NEW i \in 1 .. n, NEW j \in 1 .. n,
             NEW p \in DOMAIN Nests[i], NEW q \in DOMAIN Nests[j],
             Nests[i][p] = Nests[j][q]
      PROVE  p = q /\ \A k \in i .. j : SharesLoops(Nests[i], Nests[k], p)
  <2>1. before[i] = Nests[i] /\ before[j] = Nests[j] /\ DOMAIN before = 1 .. n
    BY <1>1
  <2>2. p = q /\ \A k \in i .. j : SharesLoops(before[i], before[k], p)
    BY <1>4, <2>1, Zenon DEF IsTree
  <2>3. QED
    BY <1>2, <2>1, <2>2, Zenon
<1>5. TreeUpTo(Nests, n) => IsTree(before)
  BY <1>1, <1>3, Zenon DEF IsTree
<1>6. IsTree(before) => TreeUpTo(Nests, n)
  BY <1>4, Zenon DEF TreeUpTo
<1>7. QED
  BY <1>5, <1>6 DEF before

(* All operations.                                                          *)
LEMMA TreeOfNests ==
  ASSUME program \in Seq(Operations)
  PROVE  IsTree(Nests) <=> TreeUpTo(Nests, Len(program))
BY ProgramNests, Zenon DEF IsTree, TreeUpTo

(* The names of the first m nests are loop names.                           *)
LEMMA NamesAreLoopNames ==
  ASSUME NEW nest, nest \in Seq(LoopNames)
  PROVE  NamesIn(nest) \subseteq LoopNames
BY DEF NamesIn

(* A step that keeps the program and the types of the other variables.      *)
LEMMA TypedWithProgram ==
  ASSUME Typed, program' = program,
         phase' \in {"verify", "default", "again", "done", "not contiguous", "not open",
                     "not contiguous again", "not open again"},
         position' \in 1 .. Len(program) + 1,
         openLoops' \in Seq(LoopNames), closedLoops' \subseteq LoopNames,
         nextLoopId' \in 0 .. Len(FreshNames), fusionNames' \subseteq LoopNames,
         newLoops' \in Seq(LoopNames)
  PROVE  Typed'
<1>1. Nests' = Nests
  BY SameNests
<1>2. AreNests(Nests, Len(program))' <=> AreNests(Nests, Len(program))
  BY <1>1, Zenon DEF AreNests, WellFormedNest
<1>3. QED
  BY <1>2, Zenon DEF Typed, TypeOK

(* What an operation that is verified finds.                                *)
LEMMA AtOperation ==
  ASSUME Typed, WalkInv, Verifying
  PROVE  /\ position - 1 \in Nat /\ position - 1 + 1 = position
         /\ position \in 1 .. Len(program) /\ Len(program) \in Nat
         /\ position + 1 \in 1 .. Len(program) + 1
         /\ Nests[position] \in Seq(LoopNames)
         /\ AreNests(Nests, position)
         /\ Walked(Nests, position - 1, openLoops, closedLoops)
<1>1. program \in Seq(Operations)
  BY Zenon DEF Typed, TypeOK
<1>2. position \in 1 .. Len(program) /\ Len(program) \in Nat
  BY <1>1, ProgramNests DEF Verifying
<1>3. /\ position - 1 \in Nat /\ position - 1 + 1 = position
      /\ position \in Nat /\ position <= Len(program)
      /\ position \in 1 .. position
      /\ position + 1 \in 1 .. Len(program) + 1
  BY <1>2
<1>4. AreNests(Nests, position)
  BY <1>3, NestsSoFar
<1>5. Nests[position] \in Seq(LoopNames)
  BY <1>3, <1>4, Zenon DEF AreNests, WellFormedNest
<1>6. Walked(Nests, position - 1, openLoops, closedLoops)
  BY Zenon DEF Verifying, WalkInv
<1>7. QED
  BY <1>2, <1>3, <1>4, <1>5, <1>6

(* Update keeps the invariant.                                              *)
LEMMA UpdateKeepsInv ==
  ASSUME IInv, Update
  PROVE  IInv'
<1> DEFINE nest == Nests[position]
           m == position - 1
<1>1. PICK n \in 0 .. Len(nest) :
        /\ IsCommonPrefix(nest, n)
        /\ ~ Reopens(nest, n)
        /\ AreOpen(LoopsToOpen(position), nest, ClosedBeyond(n))
        /\ openLoops' = nest
        /\ closedLoops' = ClosedBeyond(n)
  BY Zenon DEF Update
<1>2. /\ Verifying /\ position' = position + 1
      /\ program' = program /\ phase' = phase /\ nextLoopId' = nextLoopId
      /\ fusionNames' = fusionNames /\ newLoops' = newLoops
  BY DEF Update
<1>3. /\ m \in Nat /\ m + 1 = position
      /\ position \in 1 .. Len(program) /\ Len(program) \in Nat
      /\ position + 1 \in 1 .. Len(program) + 1
      /\ nest \in Seq(LoopNames)
      /\ AreNests(Nests, position)
      /\ Walked(Nests, m, openLoops, closedLoops)
  BY <1>2, AtOperation DEF IInv
<1>4. Nests' = Nests /\ \A i : LoopsToOpen(i)' = LoopsToOpen(i)
  BY <1>2, SameNests
<1> HIDE DEF m
<1>5. /\ NamesIn(nest) \intersect ClosedBeyond(n) = {}
      /\ NamesIn(nest) \union ClosedBeyond(n) = NamesUpTo(Nests, position)
  <2>1. AreNests(Nests, m + 1) /\ nest = Nests[m + 1]
    BY <1>3
  <2>2. QED
    BY <1>1, <1>3, <2>1, UpdateIsExact
<1>6. TreeUpTo(Nests, position)
  <2>1. AreNests(Nests, m + 1) /\ nest = Nests[m + 1]
    BY <1>3
  <2>2. QED
    BY <1>1, <1>3, <2>1, UpdateKeepsTree
<1>7. Typed'
  <2>1. closedLoops' \subseteq LoopNames
    <3>1. Len(openLoops) \in Nat /\ n \in Nat /\ \A p \in 1 .. Len(openLoops) : openLoops[p] \in LoopNames
      <4>1. openLoops \in Seq(LoopNames)
        BY Zenon DEF IInv, Typed, TypeOK
      <4>2. Len(nest) \in Nat
        BY <1>3
      <4>3. QED
        BY <4>1, <4>2
    <3>2. \A p \in n + 1 .. Len(openLoops) : openLoops[p] \in LoopNames
      BY <3>1
    <3>3. closedLoops \subseteq LoopNames
      BY Zenon DEF IInv, Typed, TypeOK
    <3>4. QED
      BY <1>1, <3>2, <3>3, Zenon DEF ClosedBeyond
  <2>2. openLoops' \in Seq(LoopNames) /\ position' \in 1 .. Len(program) + 1
    BY <1>1, <1>2, <1>3
  <2>3. /\ phase' \in {"verify", "default", "again", "done", "not contiguous", "not open",
                       "not contiguous again", "not open again"}
        /\ nextLoopId' \in 0 .. Len(FreshNames) /\ fusionNames' \subseteq LoopNames
        /\ newLoops' \in Seq(LoopNames)
    BY <1>2, Zenon DEF IInv, Typed, TypeOK
  <2>4. QED
    BY <1>2, <2>1, <2>2, <2>3, TypedWithProgram DEF IInv
<1>8. WalkInv'
  <2>1. position' - 1 = position /\ position # 0
    BY <1>2, <1>3
  <2>2. Walked(Nests, position, nest, ClosedBeyond(n))
    BY <1>5, <1>6, <2>1 DEF Walked
  <2>3. Walked(Nests, position - 1, openLoops, closedLoops)'
    BY <1>1, <1>4, <2>1, <2>2
  <2>4. phase' \in {"verify", "again"}
    BY <1>2 DEF Verifying
  <2>5. QED
    BY <2>3, <2>4 DEF WalkInv
<1>9. DefaultInv'
  <2>1. phase' \in {"verify", "again"}
    BY <1>2 DEF Verifying
  <2>2. phase' = "verify" => newLoops' = <<>>
    BY <1>2 DEF IInv, DefaultInv
  <2>3. phase' = "again" => TreeUpTo(Nests, Len(program))
    BY <1>2 DEF IInv, DefaultInv
  <2>4. TreeUpTo(Nests, Len(program))' <=> TreeUpTo(Nests, Len(program))
    BY <1>2, <1>4 DEF TreeUpTo, SharesLoops
  <2>5. QED
    BY <2>1, <2>2, <2>3, <2>4 DEF DefaultInv
<1>10. CarriedInv'
  <2>1. phase' \in {"verify", "again"} /\ position' - 1 = position
    BY <1>2, <1>3 DEF Verifying
  <2>2. ASSUME phase = "again", NEW i \in 1 .. position
        PROVE  LoopsToOpen(i) \subseteq NamesUpTo(Nests, i)
    <3>1. i \in 1 .. position - 1 \/ i = position
      BY <1>3
    <3>2. CASE i \in 1 .. position - 1
      BY <2>2, <3>2, Zenon DEF IInv, CarriedInv
    <3>3. CASE i = position
      BY <1>1, <1>5, <3>3 DEF AreOpen
    <3>4. QED
      BY <3>1, <3>2, <3>3
  <2>3. \A i : NamesUpTo(Nests, i)' = NamesUpTo(Nests, i)
    BY <1>4 DEF NamesUpTo, NamesIn
  <2>4. ASSUME phase' = "again", NEW i \in 1 .. position' - 1
        PROVE  LoopsToOpen(i)' \subseteq NamesUpTo(Nests, i)'
    BY <1>2, <1>4, <2>1, <2>2, <2>3, <2>4
  <2>5. QED
    BY <2>1, <2>4 DEF CarriedInv
<1>11. QED
  BY <1>7, <1>8, <1>9, <1>10 DEF IInv

(* Refusals keep the invariant: the first program is not a tree, the second *)
(* is one and is never refused for that.                                    *)
LEMMA NotContiguousKeepsInv ==
  ASSUME IInv, NotContiguous
  PROVE  IInv'
<1> DEFINE m == position - 1
<1>1. PICK n \in 0 .. Len(Nests[position]) :
        IsCommonPrefix(Nests[position], n) /\ Reopens(Nests[position], n)
  BY Zenon DEF NotContiguous
<1>2. /\ Verifying /\ position' = position
      /\ phase' = IF phase = "verify" THEN "not contiguous" ELSE "not contiguous again"
      /\ program' = program /\ nextLoopId' = nextLoopId /\ openLoops' = openLoops
      /\ closedLoops' = closedLoops /\ fusionNames' = fusionNames /\ newLoops' = newLoops
  BY DEF NotContiguous
<1>3. /\ m \in Nat /\ m + 1 = position
      /\ position \in 1 .. Len(program) /\ Len(program) \in Nat
      /\ AreNests(Nests, position)
      /\ Walked(Nests, m, openLoops, closedLoops)
  BY <1>2, AtOperation DEF IInv
<1>4. Nests' = Nests
  BY <1>2, SameNests
<1> HIDE DEF m
<1>5. ~ TreeUpTo(Nests, position)
  <2>1. SUFFICES ASSUME TreeUpTo(Nests, position) PROVE FALSE
    OBVIOUS
  <2>2. AreNests(Nests, m + 1) /\ TreeUpTo(Nests, m + 1) /\ Nests[position] = Nests[m + 1]
    BY <1>3, <2>1
  <2>3. QED
    BY <1>1, <1>3, <2>2, ReopeningBreaksTree
<1>6. phase = "verify"
  <2>1. SUFFICES ASSUME phase = "again" PROVE FALSE
    BY <1>2 DEF Verifying
  <2>2. TreeUpTo(Nests, Len(program))
    BY <2>1 DEF IInv, DefaultInv
  <2>3. position \in Nat /\ position <= Len(program)
    BY <1>3
  <2>4. QED
    BY <1>3, <1>5, <2>2, <2>3, TreeOfFirst
<1>7. phase' = "not contiguous"
  BY <1>2, <1>6
<1>8. Typed'
  <2>1. /\ position \in 1 .. Len(program) + 1
        /\ openLoops \in Seq(LoopNames) /\ closedLoops \subseteq LoopNames
        /\ nextLoopId \in 0 .. Len(FreshNames) /\ fusionNames \subseteq LoopNames
        /\ newLoops \in Seq(LoopNames)
    BY Zenon DEF IInv, Typed, TypeOK
  <2>2. QED
    BY <1>2, <1>7, <2>1, TypedWithProgram DEF IInv
<1>9. WalkInv'
  <2>1. position \in DOMAIN program
    BY <1>2 DEF Verifying
  <2>2. position' \in DOMAIN program'
    BY <1>2, <2>1
  <2>3. ~ TreeUpTo(Nests, position)'
    BY <1>2, <1>4, <1>5
  <2>4. QED
    BY <1>7, <2>2, <2>3 DEF WalkInv
<1>10. DefaultInv' /\ CarriedInv'
  BY <1>7 DEF DefaultInv, CarriedInv
<1>11. QED
  BY <1>8, <1>9, <1>10 DEF IInv

(* An operation that reads an fby whose loops are not open yet.             *)
LEMMA NotOpenKeepsInv ==
  ASSUME IInv, NotOpen
  PROVE  IInv'
<1> DEFINE m == position - 1
           nest == Nests[position]
<1>1. PICK n \in 0 .. Len(nest) :
        /\ IsCommonPrefix(nest, n)
        /\ ~ Reopens(nest, n)
        /\ ~ AreOpen(LoopsToOpen(position), nest, ClosedBeyond(n))
  BY Zenon DEF NotOpen
<1>2. /\ Verifying /\ position' = position
      /\ phase' = IF phase = "verify" THEN "not open" ELSE "not open again"
      /\ program' = program /\ nextLoopId' = nextLoopId /\ openLoops' = openLoops
      /\ closedLoops' = closedLoops /\ fusionNames' = fusionNames /\ newLoops' = newLoops
  BY DEF NotOpen
<1>3. /\ m \in Nat /\ m + 1 = position
      /\ position \in 1 .. Len(program) /\ Len(program) \in Nat
      /\ AreNests(Nests, position)
      /\ Walked(Nests, m, openLoops, closedLoops)
  BY <1>2, AtOperation DEF IInv
<1>4. Nests' = Nests /\ \A i : LoopsToOpen(i)' = LoopsToOpen(i)
  BY <1>2, SameNests
<1> HIDE DEF m
<1>5. NamesIn(nest) \union ClosedBeyond(n) = NamesUpTo(Nests, position)
  <2>1. AreNests(Nests, m + 1) /\ nest = Nests[m + 1]
    BY <1>3
  <2>2. QED
    BY <1>1, <1>3, <2>1, UpdateIsExact
<1>6. phase' \in {"not open", "not open again"}
  BY <1>2
<1>7. Typed'
  <2>1. /\ position \in 1 .. Len(program) + 1
        /\ openLoops \in Seq(LoopNames) /\ closedLoops \subseteq LoopNames
        /\ nextLoopId \in 0 .. Len(FreshNames) /\ fusionNames \subseteq LoopNames
        /\ newLoops \in Seq(LoopNames)
    BY Zenon DEF IInv, Typed, TypeOK
  <2>2. QED
    BY <1>2, <1>6, <2>1, TypedWithProgram DEF IInv
<1>8. WalkInv' /\ DefaultInv'
  BY <1>6 DEF WalkInv, DefaultInv
<1>9. CarriedInv'
  <2>1. position' \in DOMAIN program'
    BY <1>2 DEF Verifying
  <2>2. ~ (LoopsToOpen(position) \subseteq NamesUpTo(Nests, position))
    BY <1>1, <1>5 DEF AreOpen
  <2>3. ~ (LoopsToOpen(position) \subseteq NamesUpTo(Nests, position))'
    <3>1. LoopsToOpen(position)' = LoopsToOpen(position)
      <4>1. Nests' = Nests /\ program' = program /\ position' = position
        BY <1>2, <1>4
      <4>2. QED
        BY <4>1, Zenon DEF LoopsToOpen
    <3>2. NamesUpTo(Nests, position)' = NamesUpTo(Nests, position)
      BY <1>2, <1>4
    <3>3. QED
      BY <2>2, <3>1, <3>2
  <2>4. QED
    BY <1>6, <2>1, <2>3 DEF CarriedInv
<1>10. QED
  BY <1>7, <1>8, <1>9 DEF IInv

(* A program that is accepted is a tree of loops, whose names DefaultLoopNest *)
(* knows.                                                                   *)
LEMMA AcceptKeepsInv ==
  ASSUME IInv, Accept
  PROVE  IInv'
<1>1. /\ phase = "verify" /\ position = Len(program) + 1
      /\ phase' = "default" /\ position' = 1
      /\ fusionNames' = UNION {NamesIn(Nests[i]) : i \in DOMAIN program}
      /\ openLoops' = <<>> /\ closedLoops' = {}
      /\ program' = program /\ nextLoopId' = nextLoopId /\ newLoops' = newLoops
  BY DEF Accept
<1>2. program \in Seq(Operations) /\ AreNests(Nests, Len(program))
  BY Zenon DEF IInv, Typed, TypeOK
<1>3. Len(program) \in Nat /\ DOMAIN program = 1 .. Len(program) /\ position - 1 = Len(program)
  BY <1>1, <1>2
<1>4. Nests' = Nests
  BY <1>1, SameNests
<1>5. fusionNames' = NamesUpTo(Nests, Len(program))
  BY <1>1, <1>3, Zenon DEF NamesUpTo
<1>6. newLoops = <<>> /\ TreeUpTo(Nests, Len(program))
  BY <1>1, <1>3 DEF IInv, DefaultInv, WalkInv, Walked
<1>7. Typed'
  <2>1. fusionNames' \subseteq LoopNames
    <3>1. ASSUME NEW i \in 1 .. Len(program) PROVE NamesIn(Nests[i]) \subseteq LoopNames
      BY <1>2, NamesAreLoopNames DEF AreNests, WellFormedNest
    <3>2. QED
      BY <1>5, <3>1, Zenon DEF NamesUpTo
  <2>2. openLoops' \in Seq(LoopNames) /\ closedLoops' \subseteq LoopNames
        /\ position' \in 1 .. Len(program) + 1
    BY <1>1, <1>3
  <2>3. nextLoopId' \in 0 .. Len(FreshNames) /\ newLoops' \in Seq(LoopNames)
    BY <1>1, Zenon DEF IInv, Typed, TypeOK
  <2>4. QED
    BY <1>1, <2>1, <2>2, <2>3, TypedWithProgram DEF IInv
<1>8. WalkInv' /\ CarriedInv'
  BY <1>1 DEF WalkInv, CarriedInv
<1>9. DefaultInv'
  <2>1. TreeUpTo(Nests, Len(program))'
    BY <1>1, <1>4, <1>6
  <2>2. NamesUpTo(Nests, Len(program))' = NamesUpTo(Nests, Len(program))
    BY <1>1, <1>4
  <2>3. NamesIn(newLoops') = {} /\ WellFormedNest(newLoops)'
    BY <1>1, <1>6 DEF NamesIn, WellFormedNest
  <2>4. NamesUpTo(Nests, Len(program))' \subseteq fusionNames' \union GivenOut'
    BY <1>5, <2>2
  <2>5. QED
    BY <1>1, <2>1, <2>3, <2>4 DEF DefaultInv
<1>10. QED
  BY <1>7, <1>8, <1>9 DEF IInv

(* The next operation has a loop nest already.                              *)
LEMMA KeepKeepsInv ==
  ASSUME IInv, Keep
  PROVE  IInv'
<1>1. /\ phase = "default" /\ position \in DOMAIN program
      /\ position' = position + 1 /\ phase' = phase /\ program' = program
      /\ openLoops' = openLoops /\ closedLoops' = closedLoops
      /\ nextLoopId' = nextLoopId /\ fusionNames' = fusionNames /\ newLoops' = newLoops
  BY DEF Keep, InDefault
<1>2. Nests' = Nests
  BY <1>1, SameNests
<1>3. Typed'
  <2>1. position' \in 1 .. Len(program) + 1
    <3>1. program \in Seq(Operations)
      BY Zenon DEF IInv, Typed, TypeOK
    <3>2. QED
      BY <1>1, <3>1
  <2>2. /\ openLoops \in Seq(LoopNames) /\ closedLoops \subseteq LoopNames
        /\ nextLoopId \in 0 .. Len(FreshNames) /\ fusionNames \subseteq LoopNames
        /\ newLoops \in Seq(LoopNames)
    BY Zenon DEF IInv, Typed, TypeOK
  <2>3. QED
    BY <1>1, <2>1, <2>2, TypedWithProgram DEF IInv
<1>4. WalkInv' /\ CarriedInv'
  BY <1>1 DEF WalkInv, CarriedInv
<1>5. DefaultInv'
  <2>1. GivenOut' = GivenOut
    BY <1>1 DEF GivenOut
  <2>2. WellFormedNest(newLoops)' <=> WellFormedNest(newLoops)
    BY <1>1 DEF WellFormedNest
  <2>3. QED
    BY <1>1, <1>2, <2>1, <2>2 DEF IInv, DefaultInv
<1>6. QED
  BY <1>3, <1>4, <1>5 DEF IInv

(* A fresh name is in no nest and was not given out before.                 *)
LEMMA FreshName ==
  ASSUME IInv, phase = "default", NEW id \in DOMAIN FreshNames, GetFreshLoopName(id)
  PROVE  /\ FreshNames[id] \in LoopNames
         /\ FreshNames[id] \notin GivenOut
         /\ FreshNames[id] \notin NamesUpTo(Nests, Len(program))
         /\ id \in 0 .. Len(FreshNames) /\ id \in Nat /\ nextLoopId \in Nat /\ nextLoopId < id
<1>1. FreshNames \in Seq(LoopNames) /\ \A p, q \in DOMAIN FreshNames : FreshNames[p] = FreshNames[q] => p = q
  BY NestsAssumption
<1>2. Len(FreshNames) \in Nat /\ DOMAIN FreshNames = 1 .. Len(FreshNames) /\ FreshNames[id] \in LoopNames
  BY <1>1
<1>3. nextLoopId \in 0 .. Len(FreshNames)
  BY Zenon DEF IInv, Typed, TypeOK
<1>4. id \in nextLoopId + 1 .. Len(FreshNames) /\ FreshNames[id] \notin fusionNames
  BY DEF GetFreshLoopName
<1>5. ASSUME NEW k \in 1 .. nextLoopId
      PROVE  FreshNames[id] # FreshNames[k]
  BY <1>1, <1>2, <1>3, <1>4
<1>6. FreshNames[id] \notin GivenOut
  BY <1>5, Zenon DEF GivenOut
<1>7. NamesUpTo(Nests, Len(program)) \subseteq fusionNames \union GivenOut
  BY DEF IInv, DefaultInv
<1>8. /\ id \in 0 .. Len(FreshNames) /\ id \in Nat /\ nextLoopId \in Nat /\ nextLoopId < id
  BY <1>2, <1>3, <1>4
<1>9. QED
  BY <1>2, <1>4, <1>6, <1>7, <1>8

(* One more loop for the operation at hand.                                 *)
LEMMA AddLoopKeepsInv ==
  ASSUME IInv, AddLoop
  PROVE  IInv'
<1>1. PICK id \in DOMAIN FreshNames :
        /\ GetFreshLoopName(id)
        /\ newLoops' = Append(newLoops, FreshNames[id])
        /\ nextLoopId' = id
  BY Zenon DEF AddLoop
<1>2. /\ phase = "default" /\ position' = position /\ phase' = phase /\ program' = program
      /\ openLoops' = openLoops /\ closedLoops' = closedLoops /\ fusionNames' = fusionNames
  BY DEF AddLoop, InDefault
<1> DEFINE name == FreshNames[id]
<1>3. /\ name \in LoopNames /\ name \notin GivenOut
      /\ name \notin NamesUpTo(Nests, Len(program))
      /\ id \in 0 .. Len(FreshNames) /\ id \in Nat /\ nextLoopId \in Nat /\ nextLoopId < id
  BY <1>1, <1>2, FreshName
<1>4. /\ openLoops = <<>> /\ closedLoops = {} /\ TreeUpTo(Nests, Len(program))
      /\ NamesUpTo(Nests, Len(program)) \subseteq fusionNames \union GivenOut
      /\ NamesIn(newLoops) \subseteq GivenOut
      /\ NamesIn(newLoops) \intersect NamesUpTo(Nests, Len(program)) = {}
      /\ WellFormedNest(newLoops)
  BY <1>2 DEF IInv, DefaultInv
<1>5. Nests' = Nests
  BY <1>2, SameNests
<1>6. GivenOut \subseteq GivenOut' /\ name \in GivenOut'
  <2>1. nextLoopId' = id /\ id \in 1 .. id /\ \A k \in 1 .. nextLoopId : k \in 1 .. id
    BY <1>1, <1>3
  <2>2. GivenOut' = {FreshNames[k] : k \in 1 .. id}
    BY <2>1 DEF GivenOut
  <2>3. QED
    BY <2>1, <2>2, Zenon DEF GivenOut
<1> HIDE DEF name
<1>7. newLoops \in Seq(LoopNames) /\ \A p, q \in DOMAIN newLoops : newLoops[p] = newLoops[q] => p = q
  BY <1>4, Zenon DEF WellFormedNest
<1>8. name \notin NamesIn(newLoops)
  BY <1>3, <1>4
<1> DEFINE n == Len(newLoops)
<1>9. /\ n \in Nat /\ DOMAIN newLoops = 1 .. n
      /\ newLoops' \in Seq(LoopNames) /\ DOMAIN newLoops' = 1 .. n + 1
      /\ newLoops'[n + 1] = name /\ \A p \in 1 .. n : newLoops'[p] = newLoops[p]
  BY <1>1, <1>3, <1>7 DEF name
<1> HIDE DEF n
<1>10. NamesIn(newLoops') = NamesIn(newLoops) \union {name}
  <2>1. 1 .. n + 1 = (1 .. n) \union {n + 1}
    BY <1>9
  <2>2. NamesIn(newLoops') = {newLoops'[p] : p \in 1 .. n} \union {newLoops'[n + 1]}
    BY <1>9, <2>1, Zenon DEF NamesIn
  <2>3. {newLoops'[p] : p \in 1 .. n} = NamesIn(newLoops)
    BY <1>9, Zenon DEF NamesIn
  <2>4. QED
    BY <1>9, <2>2, <2>3
<1>11. WellFormedNest(newLoops')
  <2>1. \A p \in 1 .. n : newLoops[p] # name
    BY <1>8, <1>9, Zenon DEF NamesIn
  <2>2. ASSUME NEW p \in 1 .. n + 1, NEW q \in 1 .. n + 1, newLoops'[p] = newLoops'[q]
        PROVE  p = q
    <3>1. (p \in 1 .. n \/ p = n + 1) /\ (q \in 1 .. n \/ q = n + 1)
      BY <1>9
    <3>2. CASE p \in 1 .. n /\ q \in 1 .. n
      BY <1>7, <1>9, <2>2, <3>2, Zenon
    <3>3. CASE p \in 1 .. n /\ q = n + 1
      BY <1>9, <2>1, <2>2, <3>3, Zenon
    <3>4. CASE p = n + 1 /\ q \in 1 .. n
      BY <1>9, <2>1, <2>2, <3>4, Zenon
    <3>5. CASE p = n + 1 /\ q = n + 1
      BY <3>5
    <3>6. QED
      BY <3>1, <3>2, <3>3, <3>4, <3>5
  <2>3. QED
    BY <1>9, <2>2, Zenon DEF WellFormedNest
<1>12. Typed'
  <2>1. /\ position \in 1 .. Len(program) + 1
        /\ openLoops \in Seq(LoopNames) /\ closedLoops \subseteq LoopNames
        /\ fusionNames \subseteq LoopNames
    BY Zenon DEF IInv, Typed, TypeOK
  <2>2. QED
    BY <1>1, <1>2, <1>3, <1>9, <2>1, TypedWithProgram DEF IInv
<1>13. WalkInv' /\ CarriedInv'
  BY <1>2 DEF WalkInv, CarriedInv
<1>14. DefaultInv'
  <2>1. TreeUpTo(Nests, Len(program))'
    BY <1>2, <1>4, <1>5
  <2>2. NamesUpTo(Nests, Len(program))' = NamesUpTo(Nests, Len(program))
    BY <1>2, <1>5
  <2>3. NamesUpTo(Nests, Len(program))' \subseteq fusionNames' \union GivenOut'
    BY <1>2, <1>4, <1>6, <2>2
  <2>4. NamesIn(newLoops') \subseteq GivenOut'
    BY <1>4, <1>6, <1>10
  <2>5. NamesIn(newLoops') \intersect NamesUpTo(Nests, Len(program))' = {}
    BY <1>3, <1>4, <1>10, <2>2 DEF name
  <2>6. QED
    BY <1>2, <1>4, <1>11, <2>1, <2>3, <2>4, <2>5 DEF DefaultInv
<1>15. QED
  BY <1>12, <1>13, <1>14 DEF IInv

(* The loops that were created become the nest of the operation.            *)
LEMMA SetLoopNestKeepsInv ==
  ASSUME IInv, SetLoopNest
  PROVE  IInv'
<1>1. /\ phase = "default" /\ position \in DOMAIN program /\ program[position].nest = NullNest
      /\ program' = [program EXCEPT ![position].nest = newLoops]
      /\ newLoops' = <<>> /\ position' = position + 1 /\ phase' = phase
      /\ openLoops' = openLoops /\ closedLoops' = closedLoops
      /\ nextLoopId' = nextLoopId /\ fusionNames' = fusionNames
  BY DEF SetLoopNest, InDefault
<1>2. /\ program \in Seq(Operations) /\ AreNests(Nests, Len(program))
      /\ newLoops \in Seq(LoopNames)
      /\ \A i \in DOMAIN program : program[i].carried = <<>> \/ program[i].carried[1] \in DOMAIN program
  BY Zenon DEF IInv, Typed, TypeOK
<1>3. /\ Len(program) \in Nat /\ DOMAIN program = 1 .. Len(program)
      /\ \A i \in 1 .. Len(program) : Nests[i] = Loops(program[i])
      /\ \A i \in 1 .. Len(program) : program[i] \in Operations
  BY <1>2, ProgramNests
<1>4. /\ openLoops = <<>> /\ closedLoops = {} /\ TreeUpTo(Nests, Len(program))
      /\ NamesUpTo(Nests, Len(program)) \subseteq fusionNames \union GivenOut
      /\ NamesIn(newLoops) \subseteq GivenOut
      /\ NamesIn(newLoops) \intersect NamesUpTo(Nests, Len(program)) = {}
      /\ WellFormedNest(newLoops)
  BY <1>1 DEF IInv, DefaultInv
<1> DEFINE o == position
           new == [program[o] EXCEPT !.nest = newLoops]
<1>5. /\ new \in Operations /\ new.nest = newLoops
      /\ new.carried = program[o].carried
  <2>1. program[o] \in Operations
    BY <1>1, <1>3
  <2>2. QED
    BY <1>2, <2>1 DEF Operations
<1>6. program' = [program EXCEPT ![o] = new]
  BY <1>1
<1> HIDE DEF new
<1>7. /\ program' \in Seq(Operations) /\ Len(program') = Len(program)
      /\ DOMAIN program' = DOMAIN program
      /\ program'[o] = new /\ \A i \in DOMAIN program : i # o => program'[i] = program[i]
  <2>1. program \in Seq(Operations) /\ o \in DOMAIN program /\ new \in Operations
    BY <1>1, <1>2, <1>5
  <2>2. QED
    BY <1>6, <2>1
<1>8. /\ DOMAIN Nests' = 1 .. Len(program)
      /\ \A i \in 1 .. Len(program) : Nests'[i] = Loops(program'[i])
  <2>1. Nests' = [i \in DOMAIN program' |-> Loops(program'[i])]
    BY DEF Nests, Loops
  <2>2. DOMAIN program' = 1 .. Len(program)
    BY <1>3, <1>7
  <2>3. QED
    BY <2>1, <2>2, Zenon
<1>9. newLoops # NullNest
  BY <1>2, NestsAssumption
<1>10. /\ Nests[o] = <<>> /\ Nests'[o] = newLoops
       /\ \A i \in 1 .. Len(program) : i # o => Nests'[i] = Nests[i]
  <2>1. Nests[o] = <<>>
    BY <1>1, <1>3 DEF Loops
  <2>2. Nests'[o] = newLoops
    BY <1>1, <1>3, <1>5, <1>7, <1>8, <1>9 DEF Loops
  <2>3. \A i \in 1 .. Len(program) : i # o => Nests'[i] = Nests[i]
    BY <1>3, <1>7, <1>8, Zenon
  <2>4. QED
    BY <2>1, <2>2, <2>3
<1>11. TreeUpTo(Nests', Len(program))
  <2>1. o \in 1 .. Len(program) /\ WellFormedNest(Nests'[o])
        /\ NamesIn(Nests'[o]) \intersect NamesUpTo(Nests, Len(program)) = {}
    BY <1>1, <1>3, <1>4, <1>10
  <2>2. QED
    BY <1>3, <1>4, <1>10, <2>1, FillingKeepsTree
<1>12. AreNests(Nests', Len(program))
  <2>1. ASSUME NEW i \in 1 .. Len(program)
        PROVE  WellFormedNest(Nests'[i])
    <3>1. CASE i = o
      BY <1>4, <1>10, <3>1
    <3>2. CASE i # o
      BY <1>2, <1>10, <3>2, Zenon DEF AreNests
    <3>3. QED
      BY <3>1, <3>2
  <2>2. QED
    BY <2>1, Zenon DEF AreNests
<1>13. NamesUpTo(Nests', Len(program)) \subseteq NamesUpTo(Nests, Len(program)) \union NamesIn(newLoops)
  <2>1. ASSUME NEW i \in 1 .. Len(program)
        PROVE  NamesIn(Nests'[i]) \subseteq NamesUpTo(Nests, Len(program)) \union NamesIn(newLoops)
    <3>1. CASE i = o
      BY <1>10, <3>1
    <3>2. CASE i # o
      BY <1>10, <3>2, Zenon DEF NamesUpTo
    <3>3. QED
      BY <3>1, <3>2
  <2>2. QED
    BY <2>1, Zenon DEF NamesUpTo
<1>14. Typed'
  <2>1. AreNests(Nests, Len(program))'
    BY <1>7, <1>12
  <2>2. ASSUME NEW i \in DOMAIN program'
        PROVE  program'[i].carried = <<>> \/ program'[i].carried[1] \in DOMAIN program'
    <3>1. program'[i].carried = program[i].carried /\ i \in DOMAIN program
      BY <1>5, <1>7
    <3>2. QED
      BY <1>2, <1>7, <3>1, Zenon
  <2>3. position' \in 1 .. Len(program') + 1 /\ newLoops' \in Seq(LoopNames)
    BY <1>1, <1>3, <1>7
  <2>4. /\ phase' \in {"verify", "default", "again", "done", "not contiguous", "not open",
                       "not contiguous again", "not open again"}
        /\ openLoops' \in Seq(LoopNames) /\ closedLoops' \subseteq LoopNames
        /\ nextLoopId' \in 0 .. Len(FreshNames) /\ fusionNames' \subseteq LoopNames
    BY <1>1, Zenon DEF IInv, Typed, TypeOK
  <2>5. QED
    BY <1>7, <2>1, <2>2, <2>3, <2>4, Zenon DEF Typed, TypeOK
<1>15. WalkInv' /\ CarriedInv'
  BY <1>1 DEF WalkInv, CarriedInv
<1>16. DefaultInv'
  <2>1. TreeUpTo(Nests, Len(program))'
    BY <1>7, <1>11
  <2>2. GivenOut' = GivenOut
    BY <1>1 DEF GivenOut
  <2>3. NamesUpTo(Nests, Len(program))' \subseteq fusionNames' \union GivenOut'
    BY <1>1, <1>4, <1>7, <1>13, <2>2
  <2>4. NamesIn(newLoops') = {} /\ WellFormedNest(newLoops')
    BY <1>1 DEF NamesIn, WellFormedNest
  <2>5. QED
    BY <1>1, <1>4, <2>1, <2>3, <2>4 DEF DefaultInv
<1>17. QED
  BY <1>14, <1>15, <1>16 DEF IInv

(* The second verification starts, and ends.                                *)
LEMMA VerifyAgainKeepsInv ==
  ASSUME IInv, VerifyAgain
  PROVE  IInv'
<1>1. /\ phase = "default" /\ phase' = "again" /\ position' = 1 /\ program' = program
      /\ openLoops' = openLoops /\ closedLoops' = closedLoops
      /\ nextLoopId' = nextLoopId /\ fusionNames' = fusionNames /\ newLoops' = newLoops
  BY DEF VerifyAgain
<1>2. Nests' = Nests
  BY <1>1, SameNests
<1>3. openLoops = <<>> /\ closedLoops = {} /\ TreeUpTo(Nests, Len(program))
  BY <1>1 DEF IInv, DefaultInv
<1>4. Typed'
  <2>1. 1 \in 1 .. Len(program) + 1
    <3>1. program \in Seq(Operations)
      BY Zenon DEF IInv, Typed, TypeOK
    <3>2. QED
      BY <3>1
  <2>2. /\ openLoops \in Seq(LoopNames) /\ closedLoops \subseteq LoopNames
        /\ nextLoopId \in 0 .. Len(FreshNames) /\ fusionNames \subseteq LoopNames
        /\ newLoops \in Seq(LoopNames)
    BY Zenon DEF IInv, Typed, TypeOK
  <2>3. QED
    BY <1>1, <2>1, <2>2, TypedWithProgram DEF IInv
<1>5. WalkInv'
  <2>1. position' - 1 = 0 /\ 1 .. 0 = {}
    BY <1>1
  <2>2. NamesIn(<<>>) = {}
    BY DEF NamesIn
  <2>3. NamesUpTo(Nests, 0) = {} /\ TreeUpTo(Nests, 0)
    BY <2>1, Zenon DEF NamesUpTo, TreeUpTo
  <2>4. Walked(Nests, 0, <<>>, {})
    BY <2>2, <2>3 DEF Walked
  <2>5. Walked(Nests, position - 1, openLoops, closedLoops)'
    BY <1>1, <1>2, <1>3, <2>1, <2>4
  <2>6. QED
    BY <1>1, <2>5 DEF WalkInv
<1>6. DefaultInv'
  <2>1. TreeUpTo(Nests, Len(program))'
    BY <1>1, <1>2, <1>3
  <2>2. QED
    BY <1>1, <2>1 DEF DefaultInv
<1>7. CarriedInv'
  <2>1. 1 .. position' - 1 = {}
    BY <1>1
  <2>2. QED
    BY <1>1, <2>1 DEF CarriedInv
<1>8. QED
  BY <1>4, <1>5, <1>6, <1>7 DEF IInv

(* The program is accepted for good.                                        *)
LEMMA AcceptAgainKeepsInv ==
  ASSUME IInv, AcceptAgain
  PROVE  IInv'
<1>1. /\ phase = "again" /\ position = Len(program) + 1 /\ phase' = "done"
      /\ program' = program /\ position' = position
      /\ openLoops' = openLoops /\ closedLoops' = closedLoops
      /\ nextLoopId' = nextLoopId /\ fusionNames' = fusionNames /\ newLoops' = newLoops
  BY DEF AcceptAgain
<1>2. Nests' = Nests /\ \A i : LoopsToOpen(i)' = LoopsToOpen(i)
  BY <1>1, SameNests
<1>3. Typed'
  <2>1. /\ position \in 1 .. Len(program) + 1
        /\ openLoops \in Seq(LoopNames) /\ closedLoops \subseteq LoopNames
        /\ nextLoopId \in 0 .. Len(FreshNames) /\ fusionNames \subseteq LoopNames
        /\ newLoops \in Seq(LoopNames)
    BY Zenon DEF IInv, Typed, TypeOK
  <2>2. QED
    BY <1>1, <2>1, TypedWithProgram DEF IInv
<1>4. WalkInv'
  BY <1>1 DEF WalkInv
<1>5. DefaultInv'
  <2>1. TreeUpTo(Nests, Len(program))
    BY <1>1 DEF IInv, DefaultInv
  <2>2. TreeUpTo(Nests, Len(program))'
    BY <1>1, <1>2, <2>1
  <2>3. QED
    BY <1>1, <2>2 DEF DefaultInv
<1>6. CarriedInv'
  <2>1. \A i \in 1 .. position - 1 : LoopsToOpen(i) \subseteq NamesUpTo(Nests, i)
    BY <1>1 DEF IInv, CarriedInv
  <2>2. ASSUME NEW i \in 1 .. position' - 1
        PROVE  LoopsToOpen(i)' \subseteq NamesUpTo(Nests', i)
    BY <1>1, <1>2, <2>1
  <2>3. position' = Len(program') + 1
    BY <1>1
  <2>4. QED
    BY <1>1, <2>2, <2>3 DEF CarriedInv
<1>7. QED
  BY <1>3, <1>4, <1>5, <1>6 DEF IInv

(* The programs the verifiers are given satisfy the invariant.              *)
LEMMA InitInv ==
  ASSUME Init
  PROVE  IInv
<1>1. /\ program \in Programs /\ phase = "verify" /\ position = 1 /\ openLoops = <<>>
      /\ closedLoops = {} /\ nextLoopId = 0 /\ fusionNames = {} /\ newLoops = <<>>
  BY DEF Init
<1>2. /\ program \in Seq(Operations)
      /\ \A i \in DOMAIN program :
           /\ program[i].nest = NullNest \/ WellFormedNest(program[i].nest)
           /\ program[i].carried = <<>> \/ program[i].carried[1] \in DOMAIN program
  BY <1>1, ProgramsAssumption
<1>3. /\ Len(program) \in Nat /\ DOMAIN program = 1 .. Len(program)
      /\ \A i \in 1 .. Len(program) : Nests[i] = Loops(program[i])
  BY <1>2, ProgramNests
<1>4. AreNests(Nests, Len(program))
  <2>1. WellFormedNest(<<>>)
    BY DEF WellFormedNest
  <2>2. ASSUME NEW i \in 1 .. Len(program)
        PROVE  WellFormedNest(Nests[i])
    <3>1. Nests[i] = IF program[i].nest = NullNest THEN <<>> ELSE program[i].nest
      BY <1>3 DEF Loops
    <3>2. program[i].nest = NullNest \/ WellFormedNest(program[i].nest)
      BY <1>2, <1>3
    <3>3. CASE program[i].nest = NullNest
      BY <2>1, <3>1, <3>3
    <3>4. CASE program[i].nest # NullNest
      BY <3>1, <3>2, <3>4
    <3>5. QED
      BY <3>3, <3>4
  <2>3. QED
    BY <2>2, Zenon DEF AreNests
<1>5. TypeOK
  <2>1. Len(FreshNames) \in Nat
    BY NestsAssumption
  <2>2. 1 \in 1 .. Len(program) + 1 /\ 0 \in 0 .. Len(FreshNames) /\ <<>> \in Seq(LoopNames)
    BY <1>3, <2>1
  <2>3. QED
    BY <1>1, <1>2, <2>2 DEF TypeOK
<1>6. WalkInv
  <2>1. position - 1 = 0 /\ 1 .. 0 = {}
    BY <1>1
  <2>2. NamesIn(<<>>) = {}
    BY DEF NamesIn
  <2>3. NamesUpTo(Nests, 0) = {} /\ TreeUpTo(Nests, 0)
    BY <2>1, Zenon DEF NamesUpTo, TreeUpTo
  <2>4. Walked(Nests, 0, <<>>, {})
    BY <2>2, <2>3 DEF Walked
  <2>5. QED
    BY <1>1, <2>1, <2>4 DEF WalkInv
<1>7. DefaultInv /\ CarriedInv
  BY <1>1 DEF DefaultInv, CarriedInv
<1>8. QED
  BY <1>4, <1>5, <1>6, <1>7 DEF IInv, Typed

(* Every step keeps the invariant.                                          *)
LEMMA NextKeepsInv ==
  ASSUME IInv, [Next]_vars
  PROVE  IInv'
<1>1. CASE Update
  BY <1>1, UpdateKeepsInv
<1>2. CASE NotContiguous
  BY <1>2, NotContiguousKeepsInv
<1>3. CASE NotOpen
  BY <1>3, NotOpenKeepsInv
<1>4. CASE Accept
  BY <1>4, AcceptKeepsInv
<1>5. CASE Keep
  BY <1>5, KeepKeepsInv
<1>6. CASE AddLoop
  BY <1>6, AddLoopKeepsInv
<1>7. CASE SetLoopNest
  BY <1>7, SetLoopNestKeepsInv
<1>8. CASE VerifyAgain
  BY <1>8, VerifyAgainKeepsInv
<1>9. CASE AcceptAgain
  BY <1>9, AcceptAgainKeepsInv
<1>10. CASE UNCHANGED vars
  <2>1. /\ program' = program /\ phase' = phase /\ position' = position
        /\ openLoops' = openLoops /\ closedLoops' = closedLoops
        /\ nextLoopId' = nextLoopId /\ fusionNames' = fusionNames /\ newLoops' = newLoops
    BY <1>10 DEF vars
  <2>2. Nests' = Nests /\ \A i : LoopsToOpen(i)' = LoopsToOpen(i)
    BY <2>1, SameNests
  <2>3. Typed'
    BY <2>1, <2>2 DEF IInv, Typed, TypeOK
  <2>4. WalkInv'
    BY <2>1, <2>2 DEF IInv, WalkInv
  <2>5. DefaultInv'
    <3>1. GivenOut' = GivenOut
      BY <2>1 DEF GivenOut
    <3>2. QED
      BY <2>1, <2>2, <3>1 DEF IInv, DefaultInv
  <2>6. CarriedInv'
    <3>1. LoopsToOpen(position)' = LoopsToOpen(position)
      <4>1. Nests' = Nests /\ program' = program /\ position' = position
        BY <2>1, <2>2
      <4>2. QED
        BY <4>1, Zenon DEF LoopsToOpen
    <3>2. NamesUpTo(Nests, position)' = NamesUpTo(Nests, position)
      BY <2>1, <2>2
    <3>3. phase' \in {"again", "done"} =>
            \A i \in 1 .. position' - 1 : LoopsToOpen(i)' \subseteq NamesUpTo(Nests', i)
      BY <2>1, <2>2 DEF IInv, CarriedInv
    <3>4. phase' = "done" => position' = Len(program') + 1
      BY <2>1 DEF IInv, CarriedInv
    <3>5. phase' \in {"not open", "not open again"} =>
            /\ position' \in DOMAIN program'
            /\ ~ (LoopsToOpen(position)' \subseteq NamesUpTo(Nests, position)')
      BY <2>1, <3>1, <3>2 DEF IInv, CarriedInv
    <3>6. QED
      BY <3>3, <3>4, <3>5 DEF CarriedInv
  <2>7. QED
    BY <2>3, <2>4, <2>5, <2>6 DEF IInv
<1>11. QED
  BY <1>1, <1>2, <1>3, <1>4, <1>5, <1>6, <1>7, <1>8, <1>9, <1>10 DEF Next

(* The invariant holds throughout.                                          *)
LEMMA InvHolds == Spec => []IInv
<1>1. Init => IInv
  BY InitInv
<1>2. IInv /\ [Next]_vars => IInv'
  BY NextKeepsInv
<1>3. QED
  BY <1>1, <1>2, PTL DEF Spec

-----------------------------------------------------------------------------
(* Theorems.                                                               *)

(* The verifier and the pass keep their state well typed.                   *)
THEOREM LoopNestTypeCorrect == Spec => []TypeOK
<1>1. IInv => TypeOK
  BY DEF IInv, Typed
<1>2. QED
  BY <1>1, InvHolds, PTL

(* The LoopNestState is what the operations seen so far say: no loop is     *)
(* forgotten and none is open and closed at once (LoopNestState::Update).   *)
THEOREM LoopNestStateIsExact == Spec => []StateIsExact
<1>1. IInv => StateIsExact
  <2> SUFFICES ASSUME IInv, phase \in {"verify", "again"}
               PROVE  /\ NamesIn(openLoops) \intersect closedLoops = {}
                      /\ NamesIn(openLoops) \union closedLoops =
                           UNION {NamesIn(Nests[i]) : i \in 1 .. position - 1}
                      /\ openLoops = (IF position = 1 THEN <<>> ELSE Nests[position - 1])
    BY DEF StateIsExact
  <2>1. Walked(Nests, position - 1, openLoops, closedLoops)
    BY DEF IInv, WalkInv
  <2>2. position \in Int
    <3>1. program \in Seq(Operations) /\ position \in 1 .. Len(program) + 1
      BY Zenon DEF IInv, Typed, TypeOK
    <3>2. QED
      BY <3>1
  <2>3. position = 1 <=> position - 1 = 0
    BY <2>2
  <2>4. QED
    BY <2>1, <2>3, Zenon DEF Walked, NamesUpTo
<1>2. QED
  BY <1>1, InvHolds, PTL

(* One walk over the operations with a stack and a set decides whether the  *)
(* loops form a tree: VerifyLoopNests accepts the trees and no others.      *)
THEOREM LoopNestVerdictIsRight == Spec => []VerdictIsRight
<1>1. IInv => VerdictIsRight
  <2> SUFFICES ASSUME IInv PROVE VerdictIsRight
    OBVIOUS
  <2>1. program \in Seq(Operations) /\ position \in 1 .. Len(program) + 1
    BY Zenon DEF IInv, Typed, TypeOK
  <2>2. position \in Nat /\ position - 1 \in Nat /\ (position - 1) + 1 = position
    BY <2>1
  <2>3. phase \in {"verify", "again"} => IsTree(NestsBefore(position))
    <3>1. phase \in {"verify", "again"} => TreeUpTo(Nests, position - 1)
      BY DEF IInv, WalkInv, Walked
    <3>2. IsTree(NestsBefore((position - 1) + 1)) <=> TreeUpTo(Nests, position - 1)
      BY <2>2, TreeOfNestsBefore
    <3>3. QED
      BY <2>2, <3>1, <3>2
  <2>4. phase \in {"not contiguous", "not contiguous again"} =>
          ~ IsTree(NestsBefore(position + 1))
    <3>1. phase \in {"not contiguous", "not contiguous again"} => ~ TreeUpTo(Nests, position)
      BY DEF IInv, WalkInv
    <3>2. QED
      BY <2>2, <3>1, TreeOfNestsBefore
  <2>5. phase = "done" => IsTree(Nests)
    BY <2>1, TreeOfNests DEF IInv, DefaultInv
  <2>6. QED
    BY <2>3, <2>4, <2>5 DEF VerdictIsRight
<1>2. QED
  BY <1>1, InvHolds, PTL

(* VerifyLoopsOpen accepts a reader of an fby exactly when the loops of the *)
(* fby are open at it, or were.                                             *)
THEOREM LoopNestCarriedLoopsAreOpen == Spec => []CarriedLoopsAreOpen
<1>1. IInv => CarriedLoopsAreOpen
  <2> SUFFICES ASSUME IInv PROVE CarriedLoopsAreOpen
    OBVIOUS
  <2>1. program \in Seq(Operations) /\ position \in 1 .. Len(program) + 1
    BY Zenon DEF IInv, Typed, TypeOK
  <2>2. Len(program) \in Nat /\ DOMAIN program = 1 .. Len(program)
    BY <2>1
  <2>3. ASSUME NEW i \in Nat, NEW name
        PROVE  OpensByThen(i, name) <=> name \in NamesUpTo(Nests, i)
    BY NameUpTo DEF OpensByThen
  <2>4. ASSUME phase = "done", NEW i \in DOMAIN program, NEW name \in LoopsToOpen(i)
        PROVE  OpensByThen(i, name)
    <3>1. position = Len(program) + 1 /\ i \in 1 .. position - 1 /\ i \in Nat
      BY <2>2, <2>4 DEF IInv, CarriedInv
    <3>2. LoopsToOpen(i) \subseteq NamesUpTo(Nests, i)
      BY <2>4, <3>1 DEF IInv, CarriedInv
    <3>3. QED
      BY <2>3, <3>1, <3>2
  <2>5. ASSUME phase \in {"not open", "not open again"}
        PROVE  \E name \in LoopsToOpen(position) : ~ OpensByThen(position, name)
    <3>1. ~ (LoopsToOpen(position) \subseteq NamesUpTo(Nests, position))
      BY <2>5 DEF IInv, CarriedInv
    <3>2. PICK name \in LoopsToOpen(position) : name \notin NamesUpTo(Nests, position)
      BY <3>1, Zenon
    <3>3. position \in Nat
      BY <2>1
    <3>4. QED
      BY <2>3, <3>2, <3>3
  <2>6. QED
    BY <2>4, <2>5, Zenon DEF CarriedLoopsAreOpen
<1>2. QED
  BY <1>1, InvHolds, PTL

(* DefaultLoopNest keeps an accepted program a tree of loops, whatever the  *)
(* names in it: the second verification never finds a loop reopened.        *)
THEOREM DefaultNestsKeepTree == Spec => []DefaultsKeepTree
<1>1. IInv => DefaultsKeepTree
  <2> SUFFICES ASSUME IInv PROVE DefaultsKeepTree
    OBVIOUS
  <2>1. program \in Seq(Operations)
    BY Zenon DEF IInv, Typed, TypeOK
  <2>2. phase = "default" => IsTree(Nests)
    BY <2>1, TreeOfNests DEF IInv, DefaultInv
  <2>3. QED
    BY <2>2 DEF IInv, WalkInv, DefaultsKeepTree
<1>2. QED
  BY <1>1, InvHolds, PTL
=============================================================================
