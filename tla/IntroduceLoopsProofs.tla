------------------------ MODULE IntroduceLoopsProofs ------------------------
(***************************************************************************)
(* Proofs about the IntroduceLoops pass, for any program that the verifiers *)
(* and NormalizeLoops let through, any order of the work list and any       *)
(* canonicalization in between.                                             *)
(*                                                                          *)
(* The inductive invariant (IInv) says that the operations that are left    *)
(* are still a normal program.  Its heart is that their loops form a tree:  *)
(* an operation whose loop is introduced is then the only one in that loop, *)
(* because another one would be next to it and deeper (OnlyOpOfLoop).       *)
(*                                                                          *)
(* The code of a program is put together from one piece for each operation. *)
(* A fusion merges two pieces with nothing between them (FusedCode), and a  *)
(* loop that is introduced moves from the ends of a piece to its body       *)
(* (LoweredCode).  That the pass does not stop before the last loop needs   *)
(* a second invariant, on the work list (WorkIsQueued).                     *)
(***************************************************************************)
EXTENDS IntroduceLoops, VectorLemmas

-----------------------------------------------------------------------------
(* Trees of loops.                                                         *)

(* A place in a nest is a place in a longer one.                            *)
LEMMA InLongerInterval ==
  ASSUME NEW e \in Nat, NEW p \in Nat, p <= e, NEW l \in 1 .. p
  PROVE  l \in 1 .. e
OBVIOUS

(* Two nests that share loops with a third one share them.                  *)
LEMMA SharesWithBoth ==
  ASSUME NEW a, NEW b, NEW c, NEW n,
         SharesLoops(c, a, n), SharesLoops(c, b, n)
  PROVE  SharesLoops(b, a, n)
<1>1. n <= Len(b) /\ n <= Len(a)
  BY Zenon DEF SharesLoops
<1>2. ASSUME NEW k \in 1 .. n
      PROVE  b[k] = a[k]
  <2>1. c[k] = a[k] /\ c[k] = b[k]
    BY Zenon DEF SharesLoops
  <2>2. QED
    BY <2>1, Zenon
<1>3. QED
  BY <1>1, <1>2, Zenon DEF SharesLoops

(* What is left of a tree of loops without one operation is a tree.         *)
LEMMA TreeWithout ==
  ASSUME NEW nests \in Seq(Seq(LoopNames)), IsTree(nests),
         NEW rest \in Seq(Seq(LoopNames)), NEW n \in 1 .. Len(nests),
         Len(rest) = Len(nests) - 1,
         \A k \in 1 .. Len(rest) : rest[k] = IF k < n THEN nests[k] ELSE nests[k + 1]
  PROVE  IsTree(rest)
<1> DEFINE m == Len(rest)
           At(k) == IF k < n THEN k ELSE k + 1
<1>1. m \in Nat /\ Len(nests) = m + 1 /\ DOMAIN rest = 1 .. m /\ DOMAIN nests = 1 .. m + 1
  OBVIOUS
<1>2. \A k \in 1 .. m : At(k) \in 1 .. m + 1 /\ rest[k] = nests[At(k)]
  <2> SUFFICES ASSUME NEW k \in 1 .. m
               PROVE  At(k) \in 1 .. m + 1 /\ rest[k] = nests[At(k)]
    BY Zenon
  <2>1. k \in Nat /\ n \in Nat /\ n <= m + 1 /\ k <= m
    BY <1>1
  <2>2. rest[k] = IF k < n THEN nests[k] ELSE nests[k + 1]
    BY Zenon
  <2>3. rest[k] = nests[At(k)]
    BY <2>2, Zenon
  <2>4. At(k) \in 1 .. m + 1
    BY <1>1, <2>1
  <2>5. QED
    BY <2>3, <2>4, Zenon
<1>3. \A i, j \in 1 .. m : \A k \in i .. j : k \in 1 .. m /\ At(k) \in At(i) .. At(j)
  <2>1. n \in Int /\ m \in Nat
    BY <1>1
  <2> HIDE DEF m
  <2> SUFFICES ASSUME NEW i \in 1 .. m, NEW j \in 1 .. m, NEW k \in i .. j
               PROVE  k \in 1 .. m /\ At(k) \in At(i) .. At(j)
    BY Zenon
  <2>2. /\ i \in Int /\ j \in Int /\ k \in Int
        /\ i <= k /\ k <= j /\ 1 <= i /\ j <= m
    BY <2>1
  <2>3. k \in 1 .. m
    BY <2>1, <2>2
  <2>4. /\ At(i) \in Int /\ At(j) \in Int /\ At(k) \in Int
        /\ At(i) <= At(k) /\ At(k) <= At(j)
    BY <2>1, <2>2
  <2>5. QED
    BY <2>3, <2>4
<1> HIDE DEF m, At
<1>4. SUFFICES ASSUME NEW i \in 1 .. m, NEW j \in 1 .. m,
                      NEW p \in DOMAIN rest[i], NEW q \in DOMAIN rest[j],
                      rest[i][p] = rest[j][q]
               PROVE  /\ p = q
                      /\ \A k \in i .. j : SharesLoops(rest[i], rest[k], p)
  BY <1>1, Zenon DEF IsTree
<1>5. /\ p \in DOMAIN nests[At(i)] /\ q \in DOMAIN nests[At(j)]
      /\ nests[At(i)][p] = nests[At(j)][q]
      /\ At(i) \in DOMAIN nests /\ At(j) \in DOMAIN nests
  BY <1>1, <1>2, <1>4, Zenon
<1>6. /\ p = q
      /\ \A k \in At(i) .. At(j) : SharesLoops(nests[At(i)], nests[k], p)
  BY <1>5, Zenon DEF IsTree
<1>7. \A k \in i .. j : SharesLoops(rest[i], rest[k], p)
  BY <1>2, <1>3, <1>6, Zenon
<1>8. QED
  BY <1>6, <1>7, Zenon

(* Nor is it spoilt when an operation leaves its innermost loop, in which   *)
(* there is no other operation.                                             *)
LEMMA TreeWithoutLoop ==
  ASSUME NEW nests \in Seq(Seq(LoopNames)), IsTree(nests),
         NEW rest \in Seq(Seq(LoopNames)), NEW n \in 1 .. Len(nests), nests[n] # <<>>,
         Len(rest) = Len(nests),
         \A k \in 1 .. Len(nests) : k # n => rest[k] = nests[k],
         Len(rest[n]) = Len(nests[n]) - 1,
         \A p \in 1 .. Len(rest[n]) : rest[n][p] = nests[n][p],
         \A k \in 1 .. Len(nests) : k # n =>
           \A q \in DOMAIN nests[k] : nests[k][q] # nests[n][Len(nests[n])]
  PROVE  IsTree(rest)
<1> DEFINE m == Len(nests)
           d == Len(nests[n])
<1>1. m \in Nat /\ DOMAIN rest = 1 .. m /\ DOMAIN nests = 1 .. m
  OBVIOUS
<1>2. \A k \in 1 .. m : /\ rest[k] \in Seq(LoopNames) /\ nests[k] \in Seq(LoopNames)
                        /\ Len(rest[k]) \in Nat /\ Len(nests[k]) \in Nat
                        /\ DOMAIN rest[k] = 1 .. Len(rest[k])
                        /\ DOMAIN nests[k] = 1 .. Len(nests[k])
  BY <1>1
<1>3. d \in Nat \ {0} /\ DOMAIN nests[n] = 1 .. d /\ DOMAIN rest[n] = 1 .. d - 1
  BY <1>2, EmptySeq, Zenon
<1>4. \A k \in 1 .. m : \A p \in DOMAIN rest[k] : p \in DOMAIN nests[k] /\ rest[k][p] = nests[k][p]
  <2> SUFFICES ASSUME NEW k \in 1 .. m, NEW p \in DOMAIN rest[k]
               PROVE  p \in DOMAIN nests[k] /\ rest[k][p] = nests[k][p]
    BY Zenon
  <2>1. CASE k # n
    <3>1. rest[k] = nests[k]
      BY <2>1, Zenon
    <3>2. QED
      BY <3>1, Zenon
  <2>2. CASE k = n
    <3>1. p \in 1 .. d - 1
      BY <1>3, <2>2, Zenon
    <3>2. p \in 1 .. d /\ p \in 1 .. Len(rest[n])
      BY <1>3, <3>1
    <3>3. QED
      BY <1>3, <2>2, <3>2, Zenon
  <2>3. QED
    BY <2>1, <2>2, Zenon
<1>5. SUFFICES ASSUME NEW i \in 1 .. m, NEW j \in 1 .. m,
                      NEW p \in DOMAIN rest[i], NEW q \in DOMAIN rest[j],
                      rest[i][p] = rest[j][q]
               PROVE  /\ p = q
                      /\ \A k \in i .. j : SharesLoops(rest[i], rest[k], p)
  BY <1>1, Zenon DEF IsTree
<1>6. /\ p \in DOMAIN nests[i] /\ q \in DOMAIN nests[j]
      /\ nests[i][p] = nests[j][q]
  BY <1>4, <1>5, Zenon
<1>7. /\ p = q
      /\ \A k \in i .. j : SharesLoops(nests[i], nests[k], p)
  BY <1>1, <1>6, Zenon DEF IsTree
<1>8. ASSUME NEW k \in i .. j
      PROVE  SharesLoops(rest[i], rest[k], p)
  <2>1. k \in 1 .. m /\ SharesLoops(nests[i], nests[k], p)
    BY <1>1, <1>7, SMTT(30)
  <2>2. p \in Nat \ {0} /\ p <= Len(rest[i])
    <3> DEFINE e == Len(rest[i])
    <3>1. p \in 1 .. e /\ e \in Nat
      BY <1>2, Zenon
    <3> HIDE DEF e
    <3>2. p \in Nat \ {0} /\ p <= e
      BY <3>1
    <3>3. QED
      BY <3>2, Zenon DEF e
  <2>3. p <= Len(rest[k])
    <3>1. CASE k # n
      BY <1>2, <2>1, <3>1, Zenon DEF SharesLoops
    <3>2. CASE k = n /\ i = n
      BY <2>2, <3>2, Zenon
    <3>3. CASE k = n /\ i # n
      <4>1. p <= d /\ nests[i][p] = nests[n][p]
        BY <2>1, <2>2, <3>3 DEF SharesLoops
      <4>2. p # d
        BY <1>1, <1>6, <3>3, <4>1, Zenon
      <4>3. d \in Nat /\ Len(rest[k]) = d - 1
        BY <1>3, <3>3, Zenon
      <4>4. QED
        BY <2>2, <4>1, <4>2, <4>3
    <3>4. QED
      BY <3>1, <3>2, <3>3, Zenon
  <2>4. ASSUME NEW l \in 1 .. p
        PROVE  rest[i][l] = rest[k][l]
    <3>1. l \in DOMAIN rest[i] /\ l \in DOMAIN rest[k]
      <4> DEFINE e == Len(rest[i])
                 f == Len(rest[k])
      <4>1. e \in Nat /\ f \in Nat /\ DOMAIN rest[i] = 1 .. e /\ DOMAIN rest[k] = 1 .. f
        BY <1>2, <2>1, Zenon
      <4>2. p \in Nat /\ p <= e /\ p <= f
        BY <2>2, <2>3, Zenon
      <4> HIDE DEF e, f
      <4>3. l \in 1 .. e /\ l \in 1 .. f
        BY <4>1, <4>2, InLongerInterval, Zenon
      <4>4. QED
        BY <4>1, <4>3, Zenon
    <3>2. nests[i][l] = nests[k][l]
      BY <2>1, Zenon DEF SharesLoops
    <3>3. QED
      BY <1>4, <2>1, <3>1, <3>2, Zenon
  <2>5. QED
    BY <2>2, <2>3, <2>4, Zenon DEF SharesLoops
<1>9. QED
  BY <1>7, <1>8, Zenon

-----------------------------------------------------------------------------
(* The inductive invariant.                                                *)

IInv ==
  /\ TypeOK
  /\ loops \in [Ops -> Seq(LoopAttrs)]
  /\ \A op \in Ops : \A k \in DOMAIN loops[op] : loops[op][k].iter = k - 1
  /\ IsTree(Nests)
  /\ reads \subseteq Range(computeOps) \X Range(computeOps)
  /\ \A r \in reads : r[1] # r[2]
  /\ fbys \subseteq [value : Range(computeOps), user : Range(computeOps),
                     init : Range(computeOps) \union {NullOp}, projected : BOOLEAN]
  /\ \A f \in fbys :
       /\ Names(loops[f.user]) = Names(loops[f.value])
       /\ loops[f.value] # <<>>
       /\ f.init # NullOp =>
            ~ SharesLoops(Names(loops[f.value]), Names(loops[f.init]), Len(loops[f.value]))

(* The names of a nest are a sequence as long as the nest.                  *)
LEMMA NamesOfNest ==
  ASSUME NEW nest \in Seq(LoopAttrs)
  PROVE  /\ Names(nest) \in Seq(LoopNames)
         /\ Len(Names(nest)) = Len(nest)
         /\ DOMAIN nest = 1 .. Len(nest)
         /\ DOMAIN Names(nest) = 1 .. Len(nest)
         /\ \A k \in 1 .. Len(nest) : Names(nest)[k] = nest[k].name
<1> DEFINE n == Len(nest)
<1>1. n \in Nat /\ DOMAIN nest = 1 .. n /\ \A k \in 1 .. n : nest[k] \in LoopAttrs
  OBVIOUS
<1>2. \A k \in 1 .. n : nest[k].name \in LoopNames
  BY <1>1, Zenon DEF LoopAttrs
<1>3. Names(nest) = [k \in 1 .. n |-> nest[k].name]
  BY <1>1, Zenon DEF Names
<1> HIDE DEF n
<1>4. /\ Names(nest) \in Seq(LoopNames) /\ DOMAIN Names(nest) = 1 .. n
      /\ Len(Names(nest)) = n
  BY <1>1, <1>2, <1>3
<1>5. QED
  BY <1>1, <1>3, <1>4, Zenon DEF n

(* The operations of the program are at their positions.                    *)
LEMMA Positions ==
  ASSUME IInv
  PROVE  /\ Len(computeOps) \in Nat
         /\ DOMAIN computeOps = 1 .. Len(computeOps)
         /\ \A i \in 1 .. Len(computeOps) :
              /\ computeOps[i] \in Ops /\ computeOps[i] \in Range(computeOps)
              /\ Position(computeOps[i]) = i
         /\ \A op \in Range(computeOps) :
              /\ Position(op) \in 1 .. Len(computeOps)
              /\ computeOps[Position(op)] = op
              /\ op \in Ops
<1>1. /\ computeOps \in Seq(Ops)
      /\ \A i, j \in DOMAIN computeOps : computeOps[i] = computeOps[j] => i = j
  BY Zenon DEF IInv, TypeOK
<1>2. Len(computeOps) \in Nat /\ DOMAIN computeOps = 1 .. Len(computeOps)
  BY <1>1
<1>3. \A op \in Range(computeOps) : \E i \in DOMAIN computeOps : computeOps[i] = op
  BY Zenon DEF Range
<1>4. \A op \in Range(computeOps) :
        Position(op) \in DOMAIN computeOps /\ computeOps[Position(op)] = op
  BY <1>3, Zenon DEF Position
<1>5. \A i \in 1 .. Len(computeOps) : computeOps[i] \in Ops /\ computeOps[i] \in Range(computeOps)
  BY <1>1, <1>2 DEF Range
<1>6. \A i \in 1 .. Len(computeOps) : Position(computeOps[i]) = i
  BY <1>1, <1>2, <1>4, <1>5, Zenon
<1>7. QED
  BY <1>2, <1>4, <1>5, <1>6, Zenon

(* The nests of the program.                                                *)
LEMMA NestsOfProgram ==
  ASSUME IInv
  PROVE  /\ Nests \in Seq(Seq(LoopNames))
         /\ Len(Nests) = Len(computeOps)
         /\ DOMAIN Nests = 1 .. Len(computeOps)
         /\ \A i \in 1 .. Len(computeOps) : Nests[i] = Names(loops[computeOps[i]])
<1> DEFINE n == Len(computeOps)
<1>1. n \in Nat /\ DOMAIN computeOps = 1 .. n
  BY Positions, Zenon
<1>2. \A i \in 1 .. n : loops[computeOps[i]] \in Seq(LoopAttrs)
  BY Positions, Zenon DEF IInv
<1>3. \A i \in 1 .. n : Names(loops[computeOps[i]]) \in Seq(LoopNames)
  BY <1>2, NamesOfNest, Zenon
<1>4. Nests = [i \in 1 .. n |-> Names(loops[computeOps[i]])]
  BY <1>1, Zenon DEF Nests
<1> HIDE DEF n
<1>5. Nests \in Seq(Seq(LoopNames)) /\ DOMAIN Nests = 1 .. n /\ Len(Nests) = n
  BY <1>1, <1>3, <1>4
<1>6. QED
  BY <1>4, <1>5, Zenon DEF n

(* Two nests that share all the loops of one of them agree on the LoopAttr  *)
(* too.                                                                     *)
LEMMA SharedLoopsArePrefix ==
  ASSUME IInv, NEW a \in Range(computeOps), NEW b \in Range(computeOps),
         SharesLoops(Names(loops[a]), Names(loops[b]), Len(loops[a]))
  PROVE  IsNestPrefix(loops[a], loops[b])
<1> DEFINE la == loops[a]
           lb == loops[b]
           n == Len(la)
           m == Len(lb)
<1>1. la \in Seq(LoopAttrs) /\ lb \in Seq(LoopAttrs) /\ a \in Ops /\ b \in Ops
  BY Positions, Zenon DEF IInv
<1>2. /\ n \in Nat /\ m \in Nat /\ DOMAIN la = 1 .. n /\ DOMAIN lb = 1 .. m
      /\ Len(Names(la)) = n /\ Len(Names(lb)) = m
      /\ \A k \in 1 .. n : Names(la)[k] = la[k].name /\ la[k] \in LoopAttrs
      /\ \A k \in 1 .. m : Names(lb)[k] = lb[k].name /\ lb[k] \in LoopAttrs
  BY <1>1, NamesOfNest
<1>3. n <= m /\ \A k \in 1 .. n : Names(la)[k] = Names(lb)[k]
  BY <1>2, Zenon DEF SharesLoops
<1>4. /\ \A k \in 1 .. n : la[k].iter = k - 1
      /\ \A k \in 1 .. m : lb[k].iter = k - 1
  BY <1>1, <1>2, Zenon DEF IInv
<1> HIDE DEF la, lb, n, m
<1>5. ASSUME NEW k \in 1 .. n
      PROVE  la[k] = lb[k]
  <2>1. k \in 1 .. m
    BY <1>2, <1>3, InLongerInterval, Zenon
  <2>2. la[k].name = lb[k].name /\ la[k].iter = lb[k].iter
    BY <1>2, <1>3, <1>4, <2>1, Zenon
  <2>3. la[k] \in [name : LoopNames, iter : Nat] /\ lb[k] \in [name : LoopNames, iter : Nat]
    BY <1>2, <2>1, Zenon DEF LoopAttrs
  <2>4. QED
    BY <2>2, <2>3
<1>6. QED
  BY <1>2, <1>3, <1>5, Zenon DEF IsNestPrefix, la, lb, n, m

(* The neighbours of an operation.                                          *)
LEMMA Neighbors ==
  ASSUME IInv, NEW op \in Range(computeOps)
  PROVE  /\ Position(op) # 1 =>
              /\ PrevOp(op) # NullOp
              /\ PrevOp(op) = computeOps[Position(op) - 1]
              /\ PrevOp(op) \in Range(computeOps)
              /\ Position(PrevOp(op)) = Position(op) - 1
         /\ Position(op) = 1 => PrevOp(op) = NullOp
         /\ Position(op) # Len(computeOps) =>
              /\ NextOp(op) # NullOp
              /\ NextOp(op) = computeOps[Position(op) + 1]
              /\ NextOp(op) \in Range(computeOps)
              /\ Position(NextOp(op)) = Position(op) + 1
         /\ Position(op) = Len(computeOps) => NextOp(op) = NullOp
<1> DEFINE i == Position(op)
           n == Len(computeOps)
<1>1. n \in Nat /\ i \in 1 .. n
  BY Positions, Zenon
<1>2. NullOp \notin Ops
  BY OpsAssumption, Zenon
<1> HIDE DEF i, n
<1>3. ASSUME i # 1
      PROVE  i - 1 \in 1 .. n
  BY <1>1, <1>3
<1>4. ASSUME i # n
      PROVE  i + 1 \in 1 .. n
  BY <1>1, <1>4
<1>5. ASSUME i # 1
      PROVE  /\ computeOps[i - 1] \in Ops /\ computeOps[i - 1] \in Range(computeOps)
             /\ Position(computeOps[i - 1]) = i - 1
  BY <1>3, <1>5, Positions, Zenon DEF n
<1>6. ASSUME i # n
      PROVE  /\ computeOps[i + 1] \in Ops /\ computeOps[i + 1] \in Range(computeOps)
             /\ Position(computeOps[i + 1]) = i + 1
  BY <1>4, <1>6, Positions, Zenon DEF n
<1>7. /\ i # 1 => PrevOp(op) = computeOps[i - 1]
      /\ i = 1 => PrevOp(op) = NullOp
      /\ i # n => NextOp(op) = computeOps[i + 1]
      /\ i = n => NextOp(op) = NullOp
  BY Zenon DEF PrevOp, NextOp, i, n
<1>8. QED
  BY <1>2, <1>5, <1>6, <1>7, Zenon DEF i, n

(* When the innermost loop of an operation is introduced, no other          *)
(* operation is in that loop: in a tree the operations of a loop are next   *)
(* to each other, and an operation does not go before a deeper neighbour.   *)
LEMMA OnlyOpOfLoop ==
  ASSUME IInv, NEW op \in Range(computeOps), Lowers(op),
         NEW x \in Range(computeOps), x # op, NEW q \in DOMAIN loops[x]
  PROVE  loops[x][q].name # loops[op][Len(loops[op])].name
<1> DEFINE i == Position(op)
           j == Position(x)
           n == Len(computeOps)
           d == Len(loops[op])
<1>1. /\ n \in Nat /\ i \in 1 .. n /\ j \in 1 .. n
      /\ computeOps[i] = op /\ computeOps[j] = x /\ op \in Ops /\ x \in Ops
  BY Positions, Zenon
<1>2. loops[op] \in Seq(LoopAttrs) /\ loops[x] \in Seq(LoopAttrs) /\ loops[op] # <<>>
  BY <1>1, Zenon DEF IInv, Lowers
<1>3. d \in Nat \ {0}
  BY <1>2, EmptySeq, Zenon
<1>4. i # j
  BY <1>1, Zenon
<1>5. /\ Nests[i] = Names(loops[op]) /\ Nests[j] = Names(loops[x])
      /\ DOMAIN Nests = 1 .. n
      /\ \A k \in 1 .. n : Nests[k] = Names(loops[computeOps[k]])
  BY <1>1, NestsOfProgram, Zenon
<1>6. /\ DOMAIN Nests[i] = 1 .. d /\ Nests[i][d] = loops[op][d].name /\ Len(Nests[i]) = d
      /\ q \in DOMAIN Nests[j] /\ Nests[j][q] = loops[x][q].name
  BY <1>2, <1>3, <1>5, NamesOfNest
<1>7. SUFFICES ASSUME Nests[i][d] = Nests[j][q]
               PROVE  FALSE
  BY <1>6, Zenon
<1> HIDE DEF i, j, n, d
<1>8. i \in DOMAIN Nests /\ j \in DOMAIN Nests /\ d \in DOMAIN Nests[i]
  BY <1>1, <1>3, <1>5, <1>6
<1>9. /\ d = q
      /\ \A k \in i .. j : SharesLoops(Nests[i], Nests[k], d)
      /\ \A k \in j .. i : SharesLoops(Nests[j], Nests[k], d)
  BY <1>6, <1>7, <1>8, SMTT(30) DEF IInv, IsTree
<1>10. PICK y \in Range(computeOps) :
         /\ y # NullOp /\ y \in {PrevOp(op), NextOp(op)}
         /\ SharesLoops(Nests[i], Names(loops[y]), d)
  <2>1. CASE i < j
    <3>1. i + 1 \in 1 .. n /\ i + 1 \in i .. j /\ i # n
      BY <1>1, <2>1
    <3>2. /\ NextOp(op) # NullOp /\ NextOp(op) = computeOps[i + 1]
          /\ NextOp(op) \in Range(computeOps)
      BY <3>1, Neighbors, Zenon DEF i, n
    <3>3. SharesLoops(Nests[i], Names(loops[NextOp(op)]), d)
      BY <1>5, <1>9, <3>1, <3>2, Zenon
    <3>4. QED
      BY <3>2, <3>3, Zenon
  <2>2. CASE j < i
    <3>1. i - 1 \in 1 .. n /\ i - 1 \in j .. i /\ i \in j .. i /\ i # 1
      BY <1>1, <2>2
    <3>2. /\ PrevOp(op) # NullOp /\ PrevOp(op) = computeOps[i - 1]
          /\ PrevOp(op) \in Range(computeOps)
      BY <3>1, Neighbors, Zenon DEF i
    <3>3. SharesLoops(Nests[j], Names(loops[PrevOp(op)]), d) /\ SharesLoops(Nests[j], Nests[i], d)
      BY <1>5, <1>9, <3>1, <3>2, Zenon
    <3>4. SharesLoops(Nests[i], Names(loops[PrevOp(op)]), d)
      BY <1>3, <3>3, SharesWithBoth, Zenon
    <3>5. QED
      BY <3>2, <3>4, Zenon
  <2>3. QED
    BY <1>1, <1>4, <2>1, <2>2
<1>11. IsNestPrefix(loops[op], loops[y])
  BY <1>5, <1>10, SharedLoopsArePrefix, Zenon DEF d
<1>12. WaitsForNeighbor(op)
  BY <1>10, <1>11 DEF WaitsForNeighbor
<1>13. QED
  BY <1>12, Zenon DEF Lowers

(* Operations that are fused are in the same loops.                         *)
LEMMA FusedLoops ==
  ASSUME IInv, NEW a \in Range(computeOps), NEW b \in Range(computeOps),
         CanFuse(loops[a], loops[b])
  PROVE  Names(loops[a]) = Names(loops[b])
<1> DEFINE i == Position(a)
           j == Position(b)
           d == Len(loops[a])
           e == Len(loops[b])
<1>1. CASE loops[a] = <<>> /\ loops[b] = <<>>
  BY <1>1, Zenon
<1>2. CASE /\ loops[a] # <<>> /\ loops[b] # <<>>
           /\ loops[a][d].name = loops[b][e].name
  <2>1. /\ i \in 1 .. Len(computeOps) /\ j \in 1 .. Len(computeOps)
        /\ computeOps[i] = a /\ computeOps[j] = b /\ a \in Ops /\ b \in Ops
        /\ Len(computeOps) \in Nat
    BY Positions, Zenon
  <2>2. loops[a] \in Seq(LoopAttrs) /\ loops[b] \in Seq(LoopAttrs)
    BY <2>1, Zenon DEF IInv
  <2>3. d \in Nat \ {0} /\ e \in Nat \ {0}
    BY <1>2, <2>2, EmptySeq, Zenon
  <2>4. /\ i \in DOMAIN Nests /\ j \in DOMAIN Nests
        /\ Nests[i] = Names(loops[a]) /\ Nests[j] = Names(loops[b])
    BY <2>1, NestsOfProgram, Zenon
  <2>5. /\ DOMAIN Nests[i] = 1 .. d /\ Nests[i][d] = loops[a][d].name
        /\ DOMAIN Nests[j] = 1 .. e /\ Nests[j][e] = loops[b][e].name
        /\ Nests[i] \in Seq(LoopNames) /\ Nests[j] \in Seq(LoopNames)
        /\ Len(Nests[i]) = d /\ Len(Nests[j]) = e
    <3>1. d \in 1 .. d /\ e \in 1 .. e
      BY <2>3
    <3>2. /\ Nests[i] \in Seq(LoopNames) /\ Len(Nests[i]) = d /\ DOMAIN Nests[i] = 1 .. d
          /\ Nests[i][d] = loops[a][d].name
      BY <2>2, <2>4, <3>1, NamesOfNest, Zenon
    <3>3. /\ Nests[j] \in Seq(LoopNames) /\ Len(Nests[j]) = e /\ DOMAIN Nests[j] = 1 .. e
          /\ Nests[j][e] = loops[b][e].name
      BY <2>2, <2>4, <3>1, NamesOfNest, Zenon
    <3>4. QED
      BY <3>2, <3>3, Zenon
  <2> HIDE DEF i, j, d, e
  <2>6. d \in DOMAIN Nests[i] /\ e \in DOMAIN Nests[j] /\ Nests[i][d] = Nests[j][e]
    BY <1>2, <2>3, <2>5
  <2>7. /\ d = e
        /\ \A k \in i .. j : SharesLoops(Nests[i], Nests[k], d)
        /\ \A k \in j .. i : SharesLoops(Nests[j], Nests[k], d)
    BY <2>4, <2>6 DEF IInv, IsTree
  <2>8. SharesLoops(Nests[i], Nests[j], d) \/ SharesLoops(Nests[j], Nests[i], d)
    <3>1. j \in i .. j \/ i \in j .. i
      BY <2>1
    <3>2. QED
      BY <2>7, <3>1, Zenon
  <2>9. \A k \in 1 .. d : Nests[i][k] = Nests[j][k]
    BY <2>8, Zenon DEF SharesLoops
  <2>10. Nests[i] = Nests[j]
    BY <2>5, <2>7, <2>9, SeqEqual, Zenon
  <2>11. QED
    BY <2>4, <2>10, Zenon
<1>3. QED
  BY <1>1, <1>2, Zenon DEF CanFuse

-----------------------------------------------------------------------------
(* The work list.                                                          *)

(* What the first pieces are together.                                      *)
IsUpto(g, pieces, S) ==
  /\ g \in [0 .. Len(pieces) -> Seq(S)] /\ g[0] = <<>>
  /\ \A k \in 1 .. Len(pieces) : g[k] = g[k - 1] \o pieces[k]

(* Concat adds one piece after the other.                                   *)
LEMMA ConcatIsUpto ==
  ASSUME NEW S, NEW pieces \in Seq(Seq(S))
  PROVE  \E g : IsUpto(g, pieces, S) /\ Concat(pieces) = g[Len(pieces)]
<1> DEFINE n == Len(pieces)
           T == Seq(S)
           Step(k, c) == IF k \in 1 .. n THEN c \o pieces[k] ELSE <<>>
           step == [kc \in Nat \X T |-> Step(kc[1], kc[2])]
           Is(f) == f = [i \in 0 .. n |-> IF i = 0 THEN <<>> ELSE f[i - 1] \o pieces[i]]
<1>1. n \in Nat /\ \A k \in 1 .. n : pieces[k] \in T
  OBVIOUS
<1>2. \A k \in Nat, c \in T : Step(k, c) \in T
  <2> SUFFICES ASSUME NEW k \in Nat, NEW c \in T
               PROVE  Step(k, c) \in T
    BY Zenon
  <2>1. CASE k \in 1 .. n
    BY <1>1, <2>1, ConcatProperties, Zenon
  <2>2. CASE ~ (k \in 1 .. n)
    BY <2>2, EmptySeq, Zenon
  <2>3. QED
    BY <2>1, <2>2, Zenon
<1>3. <<>> \in T
  BY EmptySeq, Zenon
<1> HIDE DEF T, n
<1>4. step \in [Nat \X T -> T]
  BY <1>2
<1>5. \A k \in Nat, c \in T : step[<<k, c>>] = Step(k, c)
  OBVIOUS
<1> HIDE DEF step, Step
<1>6. PICK g : IsPrefixOfRecursion(g, n, T, <<>>, step)
  BY <1>1, <1>3, <1>4, RecursionExists, Zenon
<1>7. /\ g \in [0 .. n -> T] /\ g[0] = <<>>
      /\ \A k \in 1 .. n : g[k] = step[<<k, g[k - 1]>>]
  BY <1>6, Zenon DEF IsPrefixOfRecursion
<1>8. ASSUME NEW k \in 1 .. n
      PROVE  g[k] = g[k - 1] \o pieces[k]
  <2>1. k \in Nat /\ k - 1 \in 0 .. n
    BY <1>1
  <2>2. g[k] = Step(k, g[k - 1])
    BY <1>5, <1>7, <2>1, Zenon
  <2>3. QED
    BY <2>2, Zenon DEF Step
<1>9. \A k \in 0 .. n : k # 0 => k \in 1 .. n
  BY <1>1
<1>10. Is(g)
  <2>1. \A k \in 0 .. n : g[k] = IF k = 0 THEN <<>> ELSE g[k - 1] \o pieces[k]
    BY <1>7, <1>8, <1>9, Zenon
  <2>2. QED
    BY <1>7, <2>1, Zenon
<1>11. PICK f : f = CHOOSE h : Is(h)
  BY Zenon
<1>12. Is(f)
  BY <1>10, <1>11, Zenon
<1>13. Concat(pieces) = f[n]
  BY <1>11, Zenon DEF Concat, n
<1>14. f[0] = <<>> /\ \A k \in 1 .. n : f[k] = f[k - 1] \o pieces[k]
  <2>1. 0 \in 0 .. n /\ \A k \in 1 .. n : k \in 0 .. n /\ k # 0
    BY <1>1
  <2>2. QED
    BY <1>12, <2>1, Zenon
<1> DEFINE Bad == {k \in 0 .. n : f[k] # g[k]}
<1>15. Bad = {}
  <2>1. SUFFICES ASSUME Bad # {}
                 PROVE  FALSE
    BY Zenon
  <2>2. Bad \in SUBSET Nat
    BY <1>1
  <2>3. PICK k \in Bad : \A y \in Bad : k <= y
    BY <2>1, <2>2, LeastNatural, Zenon
  <2>4. k \in 1 .. n
    BY <1>7, <1>9, <1>14, <2>3, Zenon
  <2>5. k - 1 \in 0 .. n /\ ~ (k <= k - 1)
    BY <1>1, <2>4
  <2>6. f[k - 1] = g[k - 1]
    BY <2>3, <2>5, Zenon
  <2>7. QED
    BY <1>8, <1>14, <2>3, <2>4, <2>6, Zenon
<1>16. f[n] = g[n]
  <2>1. n \in 0 .. n
    BY <1>1
  <2>2. QED
    BY <1>15, <2>1, Zenon
<1>17. IsUpto(g, pieces, S)
  BY <1>7, <1>8, Zenon DEF IsUpto, n, T
<1>18. QED
  BY <1>13, <1>16, <1>17, Zenon DEF n

(* A vector of elements of a set without repetitions.                       *)
IsListOf(l, S) == l \in Seq(S) /\ \A i, j \in DOMAIN l : l[i] = l[j] => i = j

(* A vector that is put together from two others.                           *)
Joins(l, a, b) == l = a \o b

(* Two lists that have no element in common are a list together.            *)
LEMMA JoinedLists ==
  ASSUME NEW S, NEW a, NEW b, IsListOf(a, S), IsListOf(b, S),
         \A x \in Range(a) : x \notin Range(b), NEW l, Joins(l, a, b)
  PROVE  IsListOf(l, S) /\ Range(l) = Range(a) \union Range(b)
<1>1. a \in Seq(S) /\ b \in Seq(S)
  BY Zenon DEF IsListOf
<1>2. PICK m \in Nat, n \in Nat :
        m = Len(a) /\ n = Len(b) /\ DOMAIN a = 1 .. m /\ DOMAIN b = 1 .. n
  BY DEF IsListOf
<1>3. /\ l \in Seq(S) /\ DOMAIN l = 1 .. m + n /\ Range(l) = Range(a) \union Range(b)
      /\ \A i \in 1 .. m : l[i] = a[i]
      /\ \A i \in 1 .. n : l[m + i] = b[i]
      /\ \A i \in 1 .. m + n : i \in 1 .. m \/ \E j \in 1 .. n : i = m + j
  BY <1>1, <1>2, ConcatElements DEF Joins
<1>4. ASSUME NEW i \in 1 .. m + n, NEW j \in 1 .. m + n, l[i] = l[j]
      PROVE  i = j
  <2>1. ASSUME NEW p \in 1 .. m, NEW q \in 1 .. n
        PROVE  a[p] # b[q]
    BY <1>2, Zenon DEF Range
  <2>2. CASE i \in 1 .. m /\ j \in 1 .. m
    BY <1>2, <1>3, <1>4, <2>2, Zenon DEF IsListOf
  <2>3. ASSUME NEW p \in 1 .. n, NEW q \in 1 .. n, i = m + p, j = m + q
        PROVE  i = j
    <3>1. l[i] = b[p] /\ l[j] = b[q]
      BY <1>3, <2>3
    <3>2. p = q
      BY <1>2, <1>4, <3>1, Zenon DEF IsListOf
    <3>3. QED
      BY <2>3, <3>2
  <2>4. ASSUME i \in 1 .. m, NEW q \in 1 .. n, j = m + q
        PROVE  FALSE
    <3>1. l[i] = a[i] /\ l[j] = b[q]
      BY <1>3, <2>4
    <3>2. QED
      BY <1>4, <2>1, <2>4, <3>1, Zenon
  <2>5. ASSUME j \in 1 .. m, NEW p \in 1 .. n, i = m + p
        PROVE  FALSE
    <3>1. l[j] = a[j] /\ l[i] = b[p]
      BY <1>3, <2>5
    <3>2. QED
      BY <1>4, <2>1, <2>5, <3>1, Zenon
  <2>6. QED
    BY <1>3, <2>2, <2>3, <2>4, <2>5, Zenon
<1>5. QED
  BY <1>3, <1>4, Zenon DEF IsListOf

(* Ordered selects the elements of a list that are in a set.                *)
LEMMA OrderedSelects ==
  ASSUME NEW T, NEW list, IsListOf(list, T), NEW S
  PROVE  IsListOf(Ordered(S, list), T) /\ Range(Ordered(S, list)) = Range(list) \intersect S
<1> DEFINE piece(i) == IF list[i] \in S THEN <<list[i]>> ELSE <<>>
           pieces == [i \in DOMAIN list |-> piece(i)]
<1>1. PICK n \in Nat : n = Len(list) /\ DOMAIN list = 1 .. n
  BY DEF IsListOf
<1>2. /\ \A i \in 1 .. n : list[i] \in T
      /\ \A i, j \in 1 .. n : list[i] = list[j] => i = j
  BY <1>1 DEF IsListOf
<1>3. <<>> \in Seq(T) /\ Range(<<>>) = {} /\ IsListOf(<<>>, T)
  BY DEF Range, IsListOf
<1>4. ASSUME NEW e \in T
      PROVE  <<e>> \in Seq(T) /\ Range(<<e>>) = {e} /\ IsListOf(<<e>>, T)
  BY DEF Range, IsListOf
<1>5. ASSUME NEW i \in 1 .. n
      PROVE  IsListOf(piece(i), T) /\ Range(piece(i)) = {list[i]} \intersect S
  <2>1. CASE list[i] \in S
    <3>1. PICK e \in T : e = list[i]
      BY <1>2, Zenon
    <3>2. piece(i) = <<e>> /\ {list[i]} \intersect S = {e}
      BY <2>1, <3>1, Zenon
    <3>3. QED
      BY <1>4, <3>2, Zenon
  <2>2. CASE list[i] \notin S
    BY <1>3, <2>2, Zenon
  <2>3. QED
    BY <2>1, <2>2, Zenon
<1>6. pieces \in Seq(Seq(T)) /\ Len(pieces) = n /\ \A i \in 1 .. n : pieces[i] = piece(i)
  <2>1. pieces \in [1 .. n -> Seq(T)] /\ \A i \in 1 .. n : pieces[i] = piece(i)
    BY <1>1, <1>5, Zenon DEF IsListOf
  <2> HIDE DEF pieces
  <2>2. QED
    BY <2>1
<1>7. Ordered(S, list) = Concat(pieces)
  BY Zenon DEF Ordered
<1> HIDE DEF piece, pieces
<1>8. PICK g : IsUpto(g, pieces, T) /\ Ordered(S, list) = g[n]
  BY <1>6, <1>7, ConcatIsUpto, Zenon
<1>9. g[0] = <<>> /\ \A k \in 1 .. n : g[k] = g[k - 1] \o piece(k)
  BY <1>6, <1>8, Zenon DEF IsUpto
<1> DEFINE Selects(k) == /\ IsListOf(g[k], T)
                         /\ Range(g[k]) = {list[i] : i \in 1 .. k} \intersect S
           Bad == {k \in 0 .. n : ~ Selects(k)}
<1>10. Selects(0)
  <2>1. {list[i] : i \in 1 .. 0} = {}
    OBVIOUS
  <2>2. QED
    BY <1>3, <1>9, <2>1, Zenon
<1>11. ASSUME NEW k \in 1 .. n, Selects(k - 1)
       PROVE  Selects(k)
  <2>1. /\ \A i \in 1 .. k - 1 : i \in 1 .. n /\ i \in 1 .. k /\ i # k
        /\ \A i \in 1 .. k : i \in 1 .. k - 1 \/ i = k
        /\ k \in 1 .. k
    OBVIOUS
  <2>2. {list[i] : i \in 1 .. k} = {list[i] : i \in 1 .. k - 1} \union {list[k]}
    BY <2>1, Zenon
  <2>3. list[k] \notin {list[i] : i \in 1 .. k - 1}
    BY <1>2, <2>1, Zenon
  <2>4. IsListOf(piece(k), T) /\ Range(piece(k)) = {list[k]} \intersect S
    BY <1>5, Zenon
  <2>5. \A x \in Range(g[k - 1]) : x \notin Range(piece(k))
    BY <1>11, <2>3, <2>4, Zenon
  <2>6. IsListOf(g[k], T) /\ Range(g[k]) = Range(g[k - 1]) \union Range(piece(k))
    <3>1. Joins(g[k], g[k - 1], piece(k))
      BY <1>9, Zenon DEF Joins
    <3>2. QED
      BY <1>11, <2>4, <2>5, <3>1, JoinedLists
  <2>7. QED
    BY <1>11, <2>2, <2>4, <2>6, Zenon
<1> HIDE DEF Selects
<1>12. Bad = {}
  <2>1. SUFFICES ASSUME Bad # {}
                 PROVE  FALSE
    BY Zenon
  <2>2. Bad \in SUBSET Nat
    <3>1. 0 .. n \subseteq Nat
      BY <1>1
    <3>2. QED
      BY <3>1, Zenon
  <2>3. PICK k \in Bad : \A y \in Bad : k <= y
    BY <2>1, <2>2, LeastNatural, Zenon
  <2>4. \A i \in 0 .. n : i # 0 => i \in 1 .. n /\ i - 1 \in 0 .. n /\ ~ (i <= i - 1)
    BY <1>1
  <2>5. QED
    BY <1>10, <1>11, <2>3, <2>4, Zenon
<1>13. n \in 0 .. n
  BY <1>1
<1>14. Selects(n)
  BY <1>12, <1>13, Zenon
<1>15. Range(list) = {list[i] : i \in 1 .. n}
  BY <1>1, Zenon DEF Range
<1>16. QED
  BY <1>8, <1>14, <1>15, Zenon DEF Selects

(* The work list holds each operation once.  None gets lost: those that are *)
(* not erased stay in it, those that are added are in it, and the others    *)
(* are operations of the program.                                           *)
LEMMA QueuedOps ==
  ASSUME NEW T, NEW list, IsListOf(list, T), NEW ops, IsListOf(ops, T),
         NEW erased, NEW added, added \subseteq Range(ops),
         NEW l \in Queues(list, erased, added, ops)
  PROVE  /\ IsListOf(l, T)
         /\ (Range(list) \ erased) \union added \subseteq Range(l)
         /\ Range(l) \subseteq (Range(list) \ erased) \union Range(ops)
<1>1. PICK rewritten \in SUBSET Range(ops) :
        l = Queue(Range(list) \ (erased \union rewritten), added \union rewritten, list, ops)
  BY Zenon DEF Queues
<1> DEFINE kept == Range(list) \ (erased \union rewritten)
           new == (added \union rewritten) \ kept
<1>2. PICK a, b : a = Ordered(kept, list) /\ b = Ordered(new, ops)
  BY Zenon
<1>3. Joins(l, a, b)
  BY <1>1, <1>2, Zenon DEF Queue, Joins
<1>4. /\ IsListOf(a, T) /\ Range(a) = Range(list) \intersect kept
      /\ IsListOf(b, T) /\ Range(b) = Range(ops) \intersect new
  BY <1>2, OrderedSelects, Zenon
<1>5. \A x \in Range(a) : x \notin Range(b)
  BY <1>4, Zenon
<1>6. IsListOf(l, T) /\ Range(l) = Range(a) \union Range(b)
  BY <1>3, <1>4, <1>5, JoinedLists
<1>7. QED
  BY <1>1, <1>4, <1>6, Zenon

(* A list is one of its own elements.                                       *)
LEMMA ListOfElements ==
  ASSUME NEW T, NEW l, IsListOf(l, T), NEW R, Range(l) \subseteq R
  PROVE  l \in Seq(R)
<1>1. Len(l) \in Nat /\ DOMAIN l = 1 .. Len(l) /\ l \in [1 .. Len(l) -> T]
  BY DEF IsListOf
<1>2. l \in [1 .. Len(l) -> R]
  BY <1>1, Zenon DEF Range
<1>3. QED
  BY <1>1, <1>2

(* What is left in the work list when its first operation is taken out.     *)
LEMMA PoppedOp ==
  ASSUME IInv, mapOps # <<>>
  PROVE  /\ Popped \in Range(computeOps) /\ Tail(mapOps) \in Seq(Range(computeOps))
         /\ Range(Tail(mapOps)) \subseteq Range(computeOps)
         /\ Range(mapOps) \subseteq Range(Tail(mapOps)) \union {Popped}
         /\ IsListOf(Tail(mapOps), Ops) /\ IsListOf(computeOps, Ops)
<1>1. /\ mapOps \in Seq(Range(computeOps)) /\ IsListOf(computeOps, Ops)
      /\ \A i, j \in DOMAIN mapOps : mapOps[i] = mapOps[j] => i = j
  BY Zenon DEF IInv, TypeOK, IsListOf
<1>2. /\ Popped \in Range(computeOps) /\ Tail(mapOps) \in Seq(Range(computeOps))
      /\ Range(mapOps) = {Popped} \union Range(Tail(mapOps))
      /\ \A i, j \in DOMAIN Tail(mapOps) : Tail(mapOps)[i] = Tail(mapOps)[j] => i = j
  BY <1>1, HeadAndTail, Zenon DEF Popped
<1>3. Range(Tail(mapOps)) \subseteq Range(computeOps) /\ Range(computeOps) \subseteq Ops
  BY <1>1, <1>2 DEF Range, IsListOf
<1>4. IsListOf(Tail(mapOps), Range(computeOps))
  BY <1>2, Zenon DEF IsListOf
<1>5. Range(Tail(mapOps)) \subseteq Ops
  BY <1>3, Zenon
<1>6. Tail(mapOps) \in Seq(Ops)
  BY <1>4, <1>5, ListOfElements, Zenon
<1>7. QED
  BY <1>1, <1>2, <1>3, <1>6, Zenon DEF IsListOf

-----------------------------------------------------------------------------
(* The steps of the pass.                                                  *)

(* Fusing two operations that are in the same loops leaves a normal         *)
(* program.                                                                 *)
LEMMA FuseKeepsInv ==
  ASSUME IInv, mapOps # <<>>,
         NEW first \in Range(computeOps), NEW second \in Range(computeOps), first # second,
         Names(loops[first]) = Names(loops[second]),
         Fuse(first, second)
  PROVE  IInv'
<1> DEFINE n == Position(second)
           m == Len(computeOps)
           R == Range(computeOps) \ {second}
<1>1. /\ computeOps \in Seq(Ops) /\ m \in Nat /\ n \in 1 .. m
      /\ \A i, j \in DOMAIN computeOps : computeOps[i] = computeOps[j] => i = j
      /\ computeOps[n] = second
  BY Positions, Zenon DEF IInv, TypeOK
<1>2. computeOps' = SubSeq(computeOps, 1, n - 1) \o SubSeq(computeOps, n + 1, Len(computeOps))
  BY Zenon DEF Fuse
<1>3. /\ computeOps' \in Seq(Ops) /\ Len(computeOps') = m - 1
      /\ \A k \in 1 .. m - 1 :
           computeOps'[k] = IF k < n THEN computeOps[k] ELSE computeOps[k + 1]
      /\ \A i, j \in DOMAIN computeOps' : computeOps'[i] = computeOps'[j] => i = j
      /\ Range(computeOps') = R
  <2>1. n - 1 + 2 = n + 1
    BY <1>1
  <2>2. computeOps' = WithoutElement(computeOps, n - 1)
    BY <1>2, <2>1, Zenon DEF WithoutElement
  <2>3. QED
    BY <1>1, <2>2, RemoveAtDistinct
<1>4. first \in R /\ R \subseteq Ops /\ second \notin R
  BY Positions, Zenon
<1>5. loops' = loops /\ phase' = phase
  BY Zenon DEF Fuse
<1>6. TypeOK'
  <2>1. Readers(first) \union Producers(first) \union Readers(second) \union Producers(second)
          \subseteq Range(computeOps)
    BY Zenon DEF IInv, Readers, Producers
  <2> DEFINE added == ({first} \union Readers(first) \union Producers(first)
                         \union Readers(second) \union Producers(second)) \ {second}
  <2>2. added \subseteq Range(computeOps')
    BY <1>3, <1>4, <2>1, Zenon
  <2>3. mapOps' \in Queues(Tail(mapOps), {first, second}, added, computeOps')
    BY Zenon DEF Fuse
  <2> HIDE DEF added
  <2>4. IsListOf(Tail(mapOps), Ops) /\ Range(Tail(mapOps)) \subseteq Range(computeOps)
    BY PoppedOp, Zenon
  <2>5. IsListOf(computeOps', Ops)
    BY <1>3, Zenon DEF IsListOf
  <2>6. /\ IsListOf(mapOps', Ops)
        /\ Range(mapOps') \subseteq (Range(Tail(mapOps)) \ {first, second}) \union Range(computeOps')
    BY <2>2, <2>3, <2>4, <2>5, QueuedOps
  <2>7. mapOps' \in Seq(R) /\ \A i, j \in DOMAIN mapOps' : mapOps'[i] = mapOps'[j] => i = j
    <3>1. Range(mapOps') \subseteq R
      BY <1>3, <2>4, <2>6, Zenon
    <3>2. QED
      BY <2>6, <3>1, ListOfElements, Zenon DEF IsListOf
  <2>8. QED
    BY <1>3, <1>5, <2>7, Zenon DEF IInv, TypeOK
<1>7. IsTree(Nests)'
  <2>1. /\ Nests \in Seq(Seq(LoopNames)) /\ Len(Nests) = m /\ IsTree(Nests)
        /\ \A i \in 1 .. m : Nests[i] = Names(loops[computeOps[i]])
    BY NestsOfProgram, Zenon DEF IInv
  <2>2. DOMAIN computeOps' = 1 .. m - 1
    BY <1>3
  <2>3. Nests' = [i \in 1 .. m - 1 |-> Names(loops[computeOps'[i]])]
    BY <1>5, <2>2, Zenon DEF Nests, Names
  <2> HIDE DEF m, n
  <2>4. \A i \in 1 .. m - 1 : Names(loops[computeOps'[i]]) =
          IF i < n THEN Nests[i] ELSE Nests[i + 1]
    <3> SUFFICES ASSUME NEW i \in 1 .. m - 1
                 PROVE  Names(loops[computeOps'[i]]) = IF i < n THEN Nests[i] ELSE Nests[i + 1]
      BY Zenon
    <3>1. i \in 1 .. m /\ i + 1 \in 1 .. m
      BY <1>1
    <3>2. CASE i < n
      BY <1>3, <2>1, <3>1, <3>2, Zenon
    <3>3. CASE ~ (i < n)
      BY <1>3, <2>1, <3>1, <3>3, Zenon
    <3>4. QED
      BY <3>2, <3>3, Zenon
  <2>5. \A i \in 1 .. m - 1 : Names(loops[computeOps'[i]]) \in Seq(LoopNames)
    <3> SUFFICES ASSUME NEW i \in 1 .. m - 1
                 PROVE  Names(loops[computeOps'[i]]) \in Seq(LoopNames)
      BY Zenon
    <3>1. computeOps'[i] \in Ops
      BY <1>3, <2>2
    <3>2. QED
      BY <3>1, NamesOfNest, Zenon DEF IInv
  <2>6. /\ Nests' \in Seq(Seq(LoopNames)) /\ Len(Nests') = m - 1
        /\ \A k \in 1 .. m - 1 : Nests'[k] = IF k < n THEN Nests[k] ELSE Nests[k + 1]
    <3>1. m - 1 \in Nat
      BY <1>1
    <3> DEFINE F == Nests'
    <3>2. F = [i \in 1 .. m - 1 |-> Names(loops[computeOps'[i]])]
      BY <2>3, Zenon
    <3> HIDE DEF F
    <3>3. F \in Seq(Seq(LoopNames)) /\ Len(F) = m - 1
      BY <2>5, <3>1, <3>2
    <3>4. \A k \in 1 .. m - 1 : F[k] = IF k < n THEN Nests[k] ELSE Nests[k + 1]
      BY <2>4, <3>2, Zenon
    <3>5. QED
      BY <3>3, <3>4, Zenon DEF F
  <2>7. QED
    BY <1>1, <2>1, <2>6, TreeWithout, Zenon
<1>8. /\ (reads \subseteq Range(computeOps) \X Range(computeOps))'
      /\ (\A r \in reads : r[1] # r[2])'
  <2>1. reads \subseteq Range(computeOps) \X Range(computeOps) /\ \A r \in reads : r[1] # r[2]
    BY Zenon DEF IInv
  <2>2. reads' = {<<Rename(r[1], second, first), Rename(r[2], second, first)>> : r \in reads}
                   \ {<<first, first>>}
    BY Zenon DEF Fuse
  <2>3. ASSUME NEW s \in reads'
        PROVE  s \in R \X R /\ s[1] # s[2]
    <3>1. PICK r \in reads : /\ s = <<Rename(r[1], second, first), Rename(r[2], second, first)>>
                             /\ s # <<first, first>>
      BY <2>2, Zenon
    <3>2. r[1] \in Range(computeOps) /\ r[2] \in Range(computeOps) /\ r[1] # r[2]
      BY <2>1, Zenon
    <3>3. QED
      BY <1>4, <3>1, <3>2, Zenon DEF Rename
  <2>4. QED
    BY <1>3, <2>3, Zenon
<1>9. ASSUME NEW g \in fbys'
      PROVE  /\ g \in [value : R, user : R, init : R \union {NullOp}, projected : BOOLEAN]
             /\ Names(loops[g.user]) = Names(loops[g.value])
             /\ loops[g.value] # <<>>
             /\ g.init # NullOp =>
                  ~ SharesLoops(Names(loops[g.value]), Names(loops[g.init]), Len(loops[g.value]))
  <2>1. PICK f \in fbys :
          g = [value |-> Rename(f.value, second, first), user |-> Rename(f.user, second, first),
               init |-> Rename(f.init, second, first), projected |-> f.projected]
    BY Zenon DEF Fuse, MovedFbys
  <2>2. /\ f.value \in Range(computeOps) /\ f.user \in Range(computeOps)
        /\ f.init \in Range(computeOps) \union {NullOp} /\ f.projected \in BOOLEAN
        /\ Names(loops[f.user]) = Names(loops[f.value])
        /\ loops[f.value] # <<>>
        /\ f.init # NullOp =>
             ~ SharesLoops(Names(loops[f.value]), Names(loops[f.init]), Len(loops[f.value]))
    BY Zenon DEF IInv
  <2>3. \A op \in Range(computeOps) :
          /\ Rename(op, second, first) \in R
          /\ Names(loops[Rename(op, second, first)]) = Names(loops[op])
    BY <1>4, Zenon DEF Rename
  <2>4. NullOp \notin Range(computeOps)
    BY Positions, OpsAssumption, Zenon
  <2>5. /\ f.init # NullOp => g.init = Rename(f.init, second, first) /\ f.init \in Range(computeOps)
        /\ f.init = NullOp => g.init = NullOp
    BY <2>1, <2>2, <2>4, Zenon DEF Rename
  <2>6. g.value \in R /\ g.user \in R /\ g.init \in R \union {NullOp}
    BY <2>1, <2>2, <2>3, <2>5, Zenon
  <2>7. /\ Names(loops[g.value]) = Names(loops[f.value])
        /\ Names(loops[g.user]) = Names(loops[f.user])
        /\ f.init # NullOp => Names(loops[g.init]) = Names(loops[f.init])
    BY <2>1, <2>2, <2>3, <2>5, Zenon
  <2>8. Len(loops[g.value]) = Len(loops[f.value])
    <3>1. loops[g.value] \in Seq(LoopAttrs) /\ loops[f.value] \in Seq(LoopAttrs)
      BY <1>4, <2>2, <2>6, Positions, Zenon DEF IInv
    <3>2. QED
      BY <2>7, <3>1, NamesOfNest, Zenon
  <2>9. loops[g.value] # <<>>
    <3>1. loops[g.value] \in Seq(LoopAttrs) /\ loops[f.value] \in Seq(LoopAttrs)
      BY <1>4, <2>2, <2>6, Positions, Zenon DEF IInv
    <3>2. QED
      BY <2>2, <2>8, <3>1, EmptySeq, Zenon
  <2>10. g \in [value : R, user : R, init : R \union {NullOp}, projected : BOOLEAN]
    BY <2>1, <2>2, <2>6, Zenon
  <2>11. g.init # NullOp =>
           ~ SharesLoops(Names(loops[g.value]), Names(loops[g.init]), Len(loops[g.value]))
    BY <2>2, <2>5, <2>7, <2>8, Zenon
  <2>12. QED
    BY <2>2, <2>7, <2>9, <2>10, <2>11, Zenon
<1>10. /\ (loops \in [Ops -> Seq(LoopAttrs)])'
       /\ (\A op \in Ops : \A k \in DOMAIN loops[op] : loops[op][k].iter = k - 1)'
  BY <1>5, Zenon DEF IInv
<1>11. (fbys \subseteq [value : Range(computeOps), user : Range(computeOps),
                        init : Range(computeOps) \union {NullOp}, projected : BOOLEAN])'
  BY <1>3, <1>9, Zenon
<1>12. (\A f \in fbys :
          /\ Names(loops[f.user]) = Names(loops[f.value])
          /\ loops[f.value] # <<>>
          /\ f.init # NullOp =>
               ~ SharesLoops(Names(loops[f.value]), Names(loops[f.init]), Len(loops[f.value])))'
  BY <1>5, <1>9, Zenon
<1>13. QED
  BY <1>6, <1>7, <1>8, <1>10, <1>11, <1>12, Zenon DEF IInv

(* EraseDimensionFromLoopNest leaves the outer loops as they are.           *)
LEMMA ErasedNest ==
  ASSUME NEW nest \in Seq(LoopAttrs), nest # <<>>,
         \A k \in DOMAIN nest : nest[k].iter = k - 1
  PROVE  /\ EraseInnermost(nest) \in Seq(LoopAttrs)
         /\ Len(EraseInnermost(nest)) = Len(nest) - 1
         /\ \A k \in 1 .. Len(nest) - 1 : EraseInnermost(nest)[k] = nest[k]
<1> DEFINE d == Len(nest)
           E == EraseInnermost(nest)
<1>1. d \in Nat \ {0} /\ DOMAIN nest = 1 .. d
  BY EmptySeq
<1>2. \A k \in 1 .. d : nest[k] \in [name : LoopNames, iter : Nat] /\ nest[k].iter = k - 1
  <2>1. \A k \in 1 .. d : nest[k] \in LoopAttrs
    BY <1>1
  <2>2. \A k \in 1 .. d : nest[k].iter = k - 1
    BY <1>1, Zenon
  <2> HIDE DEF d
  <2>3. QED
    BY <2>1, <2>2, Zenon DEF LoopAttrs
<1>3. E = [k \in 1 .. d - 1 |->
             [name |-> nest[k].name,
              iter |-> IF nest[k].iter < nest[d].iter THEN nest[k].iter ELSE nest[k].iter - 1]]
  BY Zenon DEF EraseInnermost
<1> HIDE DEF d, E
<1>4. ASSUME NEW k \in 1 .. d - 1
      PROVE  E[k] = nest[k]
  <2>1. k \in 1 .. d /\ d \in 1 .. d /\ k - 1 < d - 1
    BY <1>1
  <2>2. nest[k].iter < nest[d].iter
    BY <1>2, <2>1, Zenon
  <2>3. E[k] = [name |-> nest[k].name, iter |-> nest[k].iter]
    BY <1>3, <2>2, Zenon
  <2>4. QED
    BY <1>2, <2>1, <2>3, Zenon
<1>5. \A k \in 1 .. d - 1 : nest[k] \in LoopAttrs
  BY <1>1, <1>2 DEF LoopAttrs
<1>6. E \in [1 .. d - 1 -> LoopAttrs]
  BY <1>3, <1>4, <1>5, Zenon
<1>7. E \in Seq(LoopAttrs) /\ Len(E) = d - 1
  BY <1>1, <1>6
<1>8. QED
  BY <1>4, <1>7, Zenon DEF d, E

(* Introducing the innermost loop of an operation leaves a normal program.  *)
LEMMA IntroduceLoopKeepsInv ==
  ASSUME IInv, IntroduceLoop
  PROVE  IInv'
<1> DEFINE op == Popped
           nest == loops[op]
           E == EraseInnermost(nest)
           d == Len(nest)
           n == Position(op)
           m == Len(computeOps)
<1>1. mapOps \in Seq(Range(computeOps)) /\ mapOps # <<>>
  BY Zenon DEF IInv, TypeOK, IntroduceLoop, Running
<1>2. op \in Range(computeOps) /\ Tail(mapOps) \in Seq(Range(computeOps))
  BY <1>1, HeadTailProperties, Zenon DEF Popped
<1>3. op \in Ops /\ m \in Nat /\ n \in 1 .. m /\ computeOps[n] = op
  BY <1>2, Positions, Zenon
<1>4. Lowers(op) /\ AssertsHold(op)
  BY Zenon DEF IntroduceLoop
<1>5. /\ nest \in Seq(LoopAttrs) /\ nest # <<>>
      /\ \A k \in DOMAIN nest : nest[k].iter = k - 1
  BY <1>3, <1>4, Zenon DEF IInv, Lowers
<1>6. /\ E \in Seq(LoopAttrs) /\ Len(E) = d - 1
      /\ \A k \in 1 .. d - 1 : E[k] = nest[k]
  BY <1>5, ErasedNest, Zenon
<1>7. /\ loops' = [loops EXCEPT ![op] = E]
      /\ reads' = reads \union {<<op, f.init>> : f \in {f \in fbys : f.value = op /\ f.init # NullOp}}
      /\ fbys' = {f \in fbys : f.value # op}
      /\ mapOps' \in Queues(Tail(mapOps), {}, {op} \union Producers(op), computeOps)
      /\ computeOps' = computeOps /\ phase' = phase
  BY Zenon DEF IntroduceLoop
<1>8. d \in Nat \ {0} /\ DOMAIN nest = 1 .. d
  BY <1>5, EmptySeq
<1>9. loops \in [Ops -> Seq(LoopAttrs)]
  BY Zenon DEF IInv
<1> HIDE DEF op, nest, E, d, n, m
<1>10. loops'[op] = E /\ \A x \in Ops : x # op => loops'[x] = loops[x]
  BY <1>3, <1>7, <1>9, Zenon
<1>11. TypeOK'
  <2>1. /\ IsListOf(Tail(mapOps), Ops) /\ Range(Tail(mapOps)) \subseteq Range(computeOps)
        /\ IsListOf(computeOps, Ops)
    BY <1>1, PoppedOp, Zenon
  <2>2. {op} \union Producers(op) \subseteq Range(computeOps)
    BY <1>2, Zenon DEF IInv, Producers
  <2>3. /\ IsListOf(mapOps', Ops)
        /\ Range(mapOps') \subseteq (Range(Tail(mapOps)) \ {}) \union Range(computeOps)
    BY <1>7, <2>1, <2>2, QueuedOps
  <2>4. Range(mapOps') \subseteq Range(computeOps)
    BY <2>1, <2>3, Zenon
  <2>5. /\ mapOps' \in Seq(Range(computeOps))
        /\ \A i, j \in DOMAIN mapOps' : mapOps'[i] = mapOps'[j] => i = j
    BY <2>3, <2>4, ListOfElements, Zenon DEF IsListOf
  <2>6. QED
    BY <1>7, <2>5, Zenon DEF IInv, TypeOK
<1>12. (loops \in [Ops -> Seq(LoopAttrs)])'
  BY <1>3, <1>6, <1>7, <1>9, Zenon
<1>13. (\A x \in Ops : \A k \in DOMAIN loops[x] : loops[x][k].iter = k - 1)'
  <2>1. ASSUME NEW x \in Ops, NEW k \in DOMAIN loops'[x]
        PROVE  loops'[x][k].iter = k - 1
    <3>1. CASE x # op
      BY <1>10, <3>1 DEF IInv
    <3>2. CASE x = op
      <4>1. k \in DOMAIN E /\ loops'[x][k] = E[k]
        BY <1>10, <3>2, Zenon
      <4>2. k \in 1 .. d - 1
        BY <1>6, <4>1
      <4>3. k \in DOMAIN nest /\ E[k] = nest[k]
        BY <1>6, <1>8, <4>2
      <4>4. QED
        BY <1>5, <4>1, <4>3, Zenon
    <3>3. QED
      BY <3>1, <3>2, Zenon
  <2>2. QED
    BY <2>1, Zenon
<1>14. /\ Names(loops'[op]) \in Seq(LoopNames) /\ Len(Names(loops'[op])) = d - 1
       /\ Names(nest) \in Seq(LoopNames) /\ Len(Names(nest)) = d
       /\ \A k \in 1 .. d - 1 : Names(loops'[op])[k] = Names(nest)[k]
       /\ Names(nest)[d] = nest[d].name
  <2>1. /\ Names(E) \in Seq(LoopNames) /\ Len(Names(E)) = d - 1
        /\ \A k \in 1 .. d - 1 : Names(E)[k] = E[k].name
    BY <1>6, NamesOfNest, Zenon
  <2>2. /\ Names(nest) \in Seq(LoopNames) /\ Len(Names(nest)) = d
        /\ \A k \in 1 .. d : Names(nest)[k] = nest[k].name
    BY <1>5, NamesOfNest, Zenon DEF d
  <2>3. \A k \in 1 .. d - 1 : k \in 1 .. d
    BY <1>8
  <2>4. d \in 1 .. d
    BY <1>8
  <2>5. QED
    BY <1>6, <1>10, <2>1, <2>2, <2>3, <2>4
<1>15. IsTree(Nests)'
  <2>1. /\ Nests \in Seq(Seq(LoopNames)) /\ Len(Nests) = m /\ IsTree(Nests)
        /\ \A i \in 1 .. m : Nests[i] = Names(loops[computeOps[i]])
    BY NestsOfProgram, Zenon DEF IInv, m
  <2>2. \A i \in 1 .. m : computeOps[i] \in Ops /\ (computeOps[i] = op => i = n)
    BY Positions, Zenon DEF m, n
  <2>3. Nests' = [i \in 1 .. m |-> Names(loops'[computeOps[i]])]
    <3>1. DOMAIN computeOps = 1 .. m
      BY Positions, Zenon DEF m
    <3>2. QED
      BY <1>7, <3>1 DEF Nests, Names
  <2> DEFINE F == Nests'
  <2>4. F = [i \in 1 .. m |-> Names(loops'[computeOps[i]])]
    BY <2>3, Zenon
  <2> HIDE DEF F
  <2>5. \A i \in 1 .. m : F[i] = Names(loops'[computeOps[i]]) /\ F[i] \in Seq(LoopNames)
    <3> SUFFICES ASSUME NEW i \in 1 .. m
                 PROVE  F[i] = Names(loops'[computeOps[i]]) /\ F[i] \in Seq(LoopNames)
      BY Zenon
    <3>1. loops'[computeOps[i]] \in Seq(LoopAttrs)
      BY <1>12, <2>2, Zenon
    <3>2. QED
      BY <2>4, <3>1, NamesOfNest, Zenon
  <2>6. F \in Seq(Seq(LoopNames)) /\ Len(F) = Len(Nests)
    BY <1>3, <2>1, <2>4, <2>5
  <2>7. \A k \in 1 .. Len(Nests) : k # n => F[k] = Nests[k]
    <3> SUFFICES ASSUME NEW k \in 1 .. m, k # n
                 PROVE  F[k] = Nests[k]
      BY <2>1, Zenon
    <3>1. loops'[computeOps[k]] = loops[computeOps[k]]
      BY <1>10, <2>2, Zenon
    <3>2. QED
      BY <2>1, <2>5, <3>1, Zenon
  <2>8. Nests[n] = Names(nest) /\ F[n] = Names(loops'[op]) /\ n \in 1 .. Len(Nests)
    BY <1>3, <2>1, <2>5, Zenon DEF nest
  <2>9. /\ Nests[n] # <<>> /\ Len(F[n]) = Len(Nests[n]) - 1
        /\ \A p \in 1 .. Len(F[n]) : F[n][p] = Nests[n][p]
    BY <1>8, <1>14, <2>8, EmptySeq, Zenon
  <2>10. \A k \in 1 .. Len(Nests) : k # n =>
           \A q \in DOMAIN Nests[k] : Nests[k][q] # Nests[n][Len(Nests[n])]
    <3> SUFFICES ASSUME NEW k \in 1 .. m, k # n, NEW q \in DOMAIN Nests[k]
                 PROVE  Nests[k][q] # Nests[n][Len(Nests[n])]
      BY <2>1, Zenon
    <3> DEFINE x == computeOps[k]
    <3>1. x \in Range(computeOps) /\ x \in Ops /\ x # op
      BY <2>2, Positions, Zenon DEF m
    <3> HIDE DEF x
    <3>2. loops[x] \in Seq(LoopAttrs) /\ Nests[k] = Names(loops[x])
      BY <1>9, <2>1, <3>1, Zenon DEF x
    <3>3. q \in DOMAIN loops[x] /\ Nests[k][q] = loops[x][q].name
      BY <3>2, NamesOfNest, Zenon
    <3>4. loops[x][q].name # nest[d].name
      BY <1>2, <1>4, <3>1, <3>3, OnlyOpOfLoop, Zenon DEF nest, d
    <3>5. Nests[n][Len(Nests[n])] = nest[d].name
      BY <1>14, <2>8, Zenon
    <3>6. QED
      BY <3>3, <3>4, <3>5, Zenon
  <2>11. IsTree(F)
    BY <2>1, <2>6, <2>7, <2>8, <2>9, <2>10, TreeWithoutLoop, Zenon
  <2>12. QED
    BY <2>11, Zenon DEF F
<1>16. /\ (reads \subseteq Range(computeOps) \X Range(computeOps))'
       /\ (\A r \in reads : r[1] # r[2])'
  <2>1. ASSUME NEW f \in fbys, f.value = op, f.init # NullOp
        PROVE  f.init \in Range(computeOps) /\ f.init # op
    <3>1. /\ f.init \in Range(computeOps) \union {NullOp}
          /\ ~ SharesLoops(Names(nest), Names(loops[f.init]), d)
      BY <2>1, Zenon DEF IInv, nest, d
    <3>2. SharesLoops(Names(nest), Names(nest), d)
      BY <1>8, <1>14 DEF SharesLoops
    <3>3. QED
      BY <2>1, <3>1, <3>2, Zenon DEF nest
  <2>2. ASSUME NEW r \in reads'
        PROVE  r \in Range(computeOps) \X Range(computeOps) /\ r[1] # r[2]
    <3>1. CASE r \in reads
      BY <3>1, Zenon DEF IInv
    <3>2. CASE r \notin reads
      <4>1. PICK f \in fbys : f.value = op /\ f.init # NullOp /\ r = <<op, f.init>>
        BY <1>7, <2>2, <3>2, Zenon
      <4>2. QED
        BY <1>2, <2>1, <4>1, Zenon
    <3>3. QED
      BY <3>1, <3>2, Zenon
  <2>3. QED
    BY <1>7, <2>2, Zenon
<1>17. (fbys \subseteq [value : Range(computeOps), user : Range(computeOps),
                        init : Range(computeOps) \union {NullOp}, projected : BOOLEAN])'
  BY <1>7, Zenon DEF IInv
<1>18. ASSUME NEW f \in fbys'
       PROVE  /\ Names(loops'[f.user]) = Names(loops'[f.value])
              /\ loops'[f.value] # <<>>
              /\ f.init # NullOp =>
                   ~ SharesLoops(Names(loops'[f.value]), Names(loops'[f.init]),
                                 Len(loops'[f.value]))
  <2>1. f \in fbys /\ f.value # op
    BY <1>7, Zenon
  <2>2. f.user # op
    BY <1>4, <2>1, Zenon DEF AssertsHold, ReadsForeignFby
  <2>3. /\ f.value \in Range(computeOps) /\ f.user \in Range(computeOps)
        /\ f.init \in Range(computeOps) \union {NullOp}
        /\ Names(loops[f.user]) = Names(loops[f.value])
        /\ loops[f.value] # <<>>
        /\ f.init # NullOp =>
             ~ SharesLoops(Names(loops[f.value]), Names(loops[f.init]), Len(loops[f.value]))
    BY <2>1, Zenon DEF IInv
  <2>4. f.value \in Ops /\ f.user \in Ops /\ (f.init # NullOp => f.init \in Ops)
    BY <2>3, Positions, Zenon
  <2>5. loops'[f.value] = loops[f.value] /\ loops'[f.user] = loops[f.user]
    BY <1>10, <2>1, <2>2, <2>4, Zenon
  <2>6. ASSUME f.init # NullOp
        PROVE  ~ SharesLoops(Names(loops[f.value]), Names(loops'[f.init]), Len(loops[f.value]))
    <3>1. CASE f.init # op
      BY <1>10, <2>3, <2>4, <2>6, <3>1, Zenon
    <3>2. CASE f.init = op
      <4> DEFINE v == Names(loops[f.value])
                 l == Len(loops[f.value])
      <4>1. l \in Nat /\ ~ SharesLoops(v, Names(nest), l)
        BY <1>9, <2>3, <2>4, <2>6, <3>2 DEF nest
      <4> HIDE DEF v, l
      <4>2. SUFFICES ASSUME SharesLoops(v, Names(loops'[op]), l)
                     PROVE  FALSE
        BY <3>2, Zenon DEF v, l
      <4>3. l <= d - 1 /\ l <= Len(v) /\ \A k \in 1 .. l : v[k] = Names(loops'[op])[k]
        BY <1>14, <4>2, Zenon DEF SharesLoops
      <4>4. \A k \in 1 .. l : k \in 1 .. d - 1
        BY <1>8, <4>1, <4>3
      <4>5. l <= d
        BY <1>8, <4>1, <4>3
      <4>6. \A k \in 1 .. l : v[k] = Names(nest)[k]
        BY <1>14, <4>3, <4>4, Zenon
      <4>7. SharesLoops(v, Names(nest), l)
        BY <1>14, <4>3, <4>5, <4>6, Zenon DEF SharesLoops
      <4>8. QED
        BY <4>1, <4>7, Zenon
    <3>3. QED
      BY <3>1, <3>2, Zenon
  <2>7. QED
    BY <2>3, <2>5, <2>6, Zenon
<1>19. (\A f \in fbys :
          /\ Names(loops[f.user]) = Names(loops[f.value])
          /\ loops[f.value] # <<>>
          /\ f.init # NullOp =>
               ~ SharesLoops(Names(loops[f.value]), Names(loops[f.init]), Len(loops[f.value])))'
  BY <1>18, Zenon
<1>20. QED
  BY <1>11, <1>12, <1>13, <1>15, <1>16, <1>17, <1>19, Zenon DEF IInv

-----------------------------------------------------------------------------
(* The theorems.                                                           *)

(* The programs that the verifiers and NormalizeLoops let through satisfy   *)
(* the invariant when the pass starts.                                      *)
LEMMA NormalProgramsAreInitial ==
  ASSUME \A p \in Programs : IsNormal(p), Init
  PROVE  IInv
<1>1. /\ program \in Programs /\ IsNormal(program)
      /\ computeOps = program.order /\ loops = program.nests /\ reads = program.reads
      /\ fbys = program.fbys /\ mapOps = <<>> /\ phase = "register"
  BY Zenon DEF Init
<1>2. /\ computeOps \in Seq(Ops)
      /\ \A i, j \in DOMAIN computeOps : computeOps[i] = computeOps[j] => i = j
      /\ loops \in [Ops -> Seq(LoopAttrs)]
      /\ reads \subseteq Range(computeOps) \X Range(computeOps)
      /\ fbys \subseteq [value : Range(computeOps), user : Range(computeOps),
                         init : Range(computeOps) \union {NullOp}, projected : BOOLEAN]
  BY <1>1, OpsAssumption, Zenon
<1>3. TypeOK
  BY <1>1, <1>2 DEF TypeOK
<1>4. IsTree(Nests)
  BY <1>1, Zenon DEF IsNormal, Nests
<1>5. QED
  BY <1>1, <1>2, <1>3, <1>4, Zenon DEF IsNormal, IInv

(* IInv is inductive.                                                       *)
LEMMA NextKeepsInv ==
  ASSUME IInv, [Next]_vars
  PROVE  IInv'
<1>1. CASE Register
  <2>1. /\ UNCHANGED <<computeOps, loops, reads, fbys>>
        /\ phase' \in {"run", "failed"}
        /\ mapOps' = mapOps \/ mapOps' \in Queues(computeOps, {}, {}, computeOps)
    BY <1>1, Zenon DEF Register
  <2>2. /\ mapOps' \in Seq(Range(computeOps))
        /\ \A i, j \in DOMAIN mapOps' : mapOps'[i] = mapOps'[j] => i = j
    <3>1. CASE mapOps' = mapOps
      BY <3>1, Zenon DEF IInv, TypeOK
    <3>2. CASE mapOps' \in Queues(computeOps, {}, {}, computeOps)
      <4>1. IsListOf(computeOps, Ops) /\ {} \subseteq Range(computeOps)
        BY Zenon DEF IInv, TypeOK, IsListOf
      <4>2. IsListOf(mapOps', Ops) /\ Range(mapOps') \subseteq Range(computeOps)
        BY <3>2, <4>1, QueuedOps, Zenon
      <4>3. QED
        BY <4>2, ListOfElements, Zenon DEF IsListOf
    <3>3. QED
      BY <2>1, <3>1, <3>2, Zenon
  <2>3. TypeOK'
    BY <2>1, <2>2, Zenon DEF IInv, TypeOK
  <2>4. QED
    BY <2>1, <2>3, Zenon DEF IInv, Nests, Names
<1>2. CASE Drop
  <2>1. /\ UNCHANGED <<computeOps, loops, reads, fbys, phase>>
        /\ mapOps' = Tail(mapOps) /\ mapOps # <<>>
    BY <1>2, Zenon DEF Drop, Running
  <2>2. /\ mapOps' \in Seq(Range(computeOps))
        /\ \A i, j \in DOMAIN mapOps' : mapOps'[i] = mapOps'[j] => i = j
    <3> DEFINE l == mapOps
               t == Tail(mapOps)
               n == Len(l)
    <3>1. /\ l \in Seq(Range(computeOps)) /\ n \in Nat /\ DOMAIN l = 1 .. n
          /\ \A i, j \in 1 .. n : l[i] = l[j] => i = j
      BY DEF IInv, TypeOK
    <3>2. /\ t \in Seq(Range(computeOps)) /\ Len(t) = n - 1
          /\ \A i \in 1 .. n - 1 : t[i] = l[i + 1]
      BY <2>1, <3>1, HeadTailProperties, Zenon
    <3>3. DOMAIN t = 1 .. n - 1
      BY <3>2
    <3> HIDE DEF l, t, n
    <3>4. ASSUME NEW i \in 1 .. n - 1, NEW j \in 1 .. n - 1, t[i] = t[j]
          PROVE  i = j
      <4>1. i + 1 \in 1 .. n /\ j + 1 \in 1 .. n
        BY <3>1
      <4>2. i + 1 = j + 1
        BY <3>1, <3>2, <3>4, <4>1, Zenon
      <4>3. QED
        BY <3>1, <4>2
    <3>5. QED
      BY <2>1, <3>2, <3>3, <3>4, Zenon DEF t
  <2>3. TypeOK'
    BY <2>1, <2>2, Zenon DEF IInv, TypeOK
  <2>4. QED
    BY <2>1, <2>3, Zenon DEF IInv, Nests, Names
<1>3. CASE FuseWithPrev
  <2>1. mapOps # <<>> /\ FusesWithPrev(Popped) /\ Fuse(PrevOp(Popped), Popped)
    BY <1>3, Zenon DEF FuseWithPrev, Running
  <2>2. Popped \in Range(computeOps)
    BY <2>1, PoppedOp, Zenon
  <2>3. PrevOp(Popped) # NullOp /\ CanFuse(loops[PrevOp(Popped)], loops[Popped])
    BY <2>1, Zenon DEF FusesWithPrev
  <2>4. /\ PrevOp(Popped) \in Range(computeOps)
        /\ Position(PrevOp(Popped)) = Position(Popped) - 1
    BY <2>2, <2>3, Neighbors, Zenon
  <2>5. PrevOp(Popped) # Popped
    BY <2>2, <2>4, Positions
  <2>6. Names(loops[PrevOp(Popped)]) = Names(loops[Popped])
    BY <2>2, <2>3, <2>4, FusedLoops, Zenon
  <2>7. QED
    BY <2>1, <2>2, <2>4, <2>5, <2>6, FuseKeepsInv, Zenon
<1>4. CASE FuseWithNext
  <2>1. mapOps # <<>> /\ FusesWithNext(Popped) /\ Fuse(Popped, NextOp(Popped))
    BY <1>4, Zenon DEF FuseWithNext, Running
  <2>2. Popped \in Range(computeOps)
    BY <2>1, PoppedOp, Zenon
  <2>3. NextOp(Popped) # NullOp /\ CanFuse(loops[Popped], loops[NextOp(Popped)])
    BY <2>1, Zenon DEF FusesWithNext
  <2>4. /\ NextOp(Popped) \in Range(computeOps)
        /\ Position(NextOp(Popped)) = Position(Popped) + 1
    BY <2>2, <2>3, Neighbors, Zenon
  <2>5. NextOp(Popped) # Popped
    BY <2>2, <2>4, Positions
  <2>6. Names(loops[Popped]) = Names(loops[NextOp(Popped)])
    BY <2>2, <2>3, <2>4, FusedLoops, Zenon
  <2>7. QED
    BY <2>1, <2>2, <2>4, <2>5, <2>6, FuseKeepsInv, Zenon
<1>5. CASE IntroduceLoop
  BY <1>5, IntroduceLoopKeepsInv, Zenon
<1>6. CASE Reject
  <2>1. UNCHANGED <<computeOps, loops, reads, fbys, mapOps>> /\ phase' = "failed"
    BY <1>6, Zenon DEF Reject
  <2>2. TypeOK'
    BY <2>1, Zenon DEF IInv, TypeOK
  <2>3. QED
    BY <2>1, <2>2, Zenon DEF IInv, Nests, Names
<1>7. CASE Finish
  <2>1. UNCHANGED <<computeOps, loops, reads, fbys, mapOps>> /\ phase' = "done"
    BY <1>7, Zenon DEF Finish
  <2>2. TypeOK'
    BY <2>1, Zenon DEF IInv, TypeOK
  <2>3. QED
    BY <2>1, <2>2, Zenon DEF IInv, Nests, Names
<1>8. CASE UNCHANGED vars
  <2>1. UNCHANGED <<computeOps, loops, reads, fbys, mapOps, phase>>
    BY <1>8, Zenon DEF vars
  <2>2. TypeOK'
    BY <2>1, Zenon DEF IInv, TypeOK
  <2>3. QED
    BY <2>1, <2>2, Zenon DEF IInv, Nests, Names
<1>9. QED
  BY <1>1, <1>2, <1>3, <1>4, <1>5, <1>6, <1>7, <1>8, Zenon DEF Next

(* In a normal program, an operation that uses a value of the loop being    *)
(* introduced would be in that loop, and there is no other operation in it. *)
LEMMA NormalProgramsDoNotCrash ==
  ASSUME IInv
  PROVE  NeverCrashes
<1> DEFINE op == Popped
           d == Len(loops[op])
<1>1. SUFFICES ASSUME mapOps # <<>>, Lowers(op)
               PROVE  ~ ReadsForeignFby(op) /\ Readers(op) = {}
  BY Zenon DEF NeverCrashes, Running, AssertsHold
<1>2. op \in Range(computeOps) /\ op \in Ops
  BY <1>1, PoppedOp, Positions, Zenon
<1>3. loops[op] \in Seq(LoopAttrs) /\ loops[op] # <<>>
  BY <1>1, <1>2, Zenon DEF IInv, Lowers
<1>4. /\ d \in Nat \ {0}
      /\ Len(Names(loops[op])) = d /\ DOMAIN Names(loops[op]) = 1 .. d
      /\ \A k \in 1 .. d : Names(loops[op])[k] = loops[op][k].name
  BY <1>3, EmptySeq, NamesOfNest, Zenon
<1> HIDE DEF op, d
<1>5. ASSUME NEW x \in Range(computeOps), x # op,
             IsNestPrefix(Names(loops[op]), Names(loops[x]))
      PROVE  FALSE
  <2> DEFINE e == Len(loops[x])
  <2>1. loops[x] \in Seq(LoopAttrs)
    BY Positions, Zenon DEF IInv
  <2>2. /\ e \in Nat /\ DOMAIN loops[x] = 1 .. e /\ Len(Names(loops[x])) = e
        /\ \A k \in 1 .. e : Names(loops[x])[k] = loops[x][k].name
    BY <2>1, NamesOfNest
  <2> HIDE DEF e
  <2>3. d <= e /\ \A k \in 1 .. d : Names(loops[op])[k] = Names(loops[x])[k]
    BY <1>4, <1>5, <2>2, Zenon DEF IsNestPrefix
  <2>4. d \in 1 .. d /\ d \in 1 .. e
    BY <1>4, <2>2, <2>3
  <2>5. loops[x][d].name = loops[op][d].name
    BY <1>4, <2>2, <2>3, <2>4, Zenon
  <2>6. QED
    BY <1>1, <1>2, <1>5, <2>2, <2>4, <2>5, OnlyOpOfLoop, Zenon DEF d
<1>6. ~ ReadsForeignFby(op)
  <2>1. SUFFICES ASSUME NEW f \in fbys, f.user = op, f.value # op
                 PROVE  FALSE
    BY Zenon DEF ReadsForeignFby
  <2>2. f.value \in Range(computeOps) /\ Names(loops[op]) = Names(loops[f.value])
    BY <2>1, Zenon DEF IInv
  <2>3. IsNestPrefix(Names(loops[op]), Names(loops[op]))
    BY <1>4 DEF IsNestPrefix
  <2>4. QED
    BY <1>5, <2>1, <2>2, <2>3, Zenon
<1>7. Readers(op) = {}
  <2>1. SUFFICES ASSUME NEW r \in Ops, <<r, op>> \in reads, IsDirect(<<r, op>>)
                 PROVE  FALSE
    BY Zenon DEF Readers
  <2>2. r \in Range(computeOps) /\ r # op
    BY <2>1, Zenon DEF IInv
  <2>3. IsNestPrefix(Names(loops[op]), Names(loops[r]))
    BY <2>1, Zenon DEF IsDirect
  <2>4. QED
    BY <1>5, <2>2, <2>3, Zenon
<1>8. QED
  BY <1>6, <1>7, Zenon

(* The pass keeps the remaining operations a normal program: their loops    *)
(* are a tree (introduce_loops.cc relies on it to fuse neighbours only).    *)
THEOREM ProgramStaysNormal ==
  ASSUME \A p \in Programs : IsNormal(p)
  PROVE  Spec => []IInv
<1>1. Init => IInv
  BY NormalProgramsAreInitial, Zenon
<1>2. IInv /\ [Next]_vars => IInv'
  BY NextKeepsInv, Zenon
<1>3. QED
  BY <1>1, <1>2, PTL DEF Spec

(* The sequence and the work list are vectors without repetitions, and no   *)
(* erased operation stays in the work list (the hooks of the rewriter,      *)
(* introduce_loops.cc:186-210).                                             *)
THEOREM NoErasedOpIsQueued ==
  ASSUME \A p \in Programs : IsNormal(p)
  PROVE  Spec => []TypeOK
<1>1. IInv => TypeOK
  BY Zenon DEF IInv
<1>2. QED
  BY <1>1, ProgramStaysNormal, PTL

(* The assertions of IntroduceLoop hold for any program the verifiers let   *)
(* through, whatever the canonicalization patterns rewrite in between.      *)
THEOREM AssertionsHold ==
  ASSUME \A p \in Programs : IsNormal(p)
  PROVE  Spec => []NeverCrashes
<1>1. IInv => NeverCrashes
  BY NormalProgramsDoNotCrash, Zenon
<1>2. QED
  BY <1>1, ProgramStaysNormal, PTL

-----------------------------------------------------------------------------
(* The generated code.                                                     *)

(* The order in which vectors are put together does not matter.             *)
Associate(x, y, z) == (x \o y) \o z = x \o (y \o z)

(* It does not, for any elements.                                           *)
LEMMA ConcatAssociates ==
  ASSUME NEW S, NEW s \in Seq(S), NEW t \in Seq(S), NEW u \in Seq(S)
  PROVE  Associate(s, t, u)
<1>1. s \o t \in Seq(S) /\ t \o u \in Seq(S)
  BY ConcatProperties, Zenon
<1> DEFINE l == (s \o t) \o u
           r == s \o (t \o u)
<1>2. /\ Len(s) \in Nat /\ Len(t) \in Nat /\ Len(u) \in Nat
      /\ Len(s \o t) = Len(s) + Len(t) /\ Len(t \o u) = Len(t) + Len(u)
      /\ l \in Seq(S) /\ r \in Seq(S)
      /\ Len(l) = Len(s \o t) + Len(u) /\ Len(r) = Len(s) + Len(t \o u)
  BY <1>1, ConcatProperties, LenProperties, Zenon
<1>3. /\ \A i \in 1 .. Len(s) + Len(t) : (s \o t)[i] = IF i <= Len(s) THEN s[i] ELSE t[i - Len(s)]
      /\ \A i \in 1 .. Len(t) + Len(u) : (t \o u)[i] = IF i <= Len(t) THEN t[i] ELSE u[i - Len(t)]
      /\ \A i \in 1 .. Len(s \o t) + Len(u) :
           l[i] = IF i <= Len(s \o t) THEN (s \o t)[i] ELSE u[i - Len(s \o t)]
      /\ \A i \in 1 .. Len(s) + Len(t \o u) :
           r[i] = IF i <= Len(s) THEN s[i] ELSE (t \o u)[i - Len(s)]
  BY <1>1, ConcatProperties, Zenon
<1>4. PICK a \in Nat, b \in Nat, c \in Nat : a = Len(s) /\ b = Len(t) /\ c = Len(u)
  BY <1>2, Zenon
<1>5. PICK st, tu : st = s \o t /\ tu = t \o u
  BY Zenon
<1> HIDE DEF l, r
<1>6. Len(l) = a + b + c /\ Len(r) = a + b + c
  BY <1>2, <1>4
<1>7. ASSUME NEW i \in 1 .. a + b + c
      PROVE  l[i] = r[i]
  <2>1. CASE i <= a
    BY <1>2, <1>3, <1>4, <1>5, <2>1
  <2>2. CASE i > a /\ i <= a + b
    <3>1. i - a \in 1 .. b + c /\ i - a <= b /\ ~ (i <= a)
      BY <2>2
    <3>2. l[i] = t[i - a]
      BY <1>2, <1>3, <1>4, <2>2, <3>1
    <3>3. r[i] = t[i - a]
      BY <1>2, <1>3, <1>4, <2>2, <3>1
    <3>4. QED
      BY <3>2, <3>3, Zenon
  <2>3. CASE i > a + b
    <3>1. i - a \in 1 .. b + c /\ ~ (i - a <= b) /\ ~ (i <= a) /\ i - a - b = i - (a + b)
      BY <2>3
    <3>2. l[i] = u[i - (a + b)]
      BY <1>2, <1>3, <1>4, <2>3
    <3>3. r[i] = u[i - a - b]
      BY <1>2, <1>3, <1>4, <2>3, <3>1
    <3>4. QED
      BY <3>1, <3>2, <3>3, Zenon
  <2>4. QED
    BY <2>1, <2>2, <2>3
<1>8. l = r
  <2>1. Len(l) = Len(r) /\ \A i \in 1 .. Len(l) : l[i] = r[i]
    BY <1>6, <1>7, Zenon
  <2>2. QED
    BY <1>2, <2>1, SeqEqual, Zenon
<1>9. QED
  BY <1>8, Zenon DEF l, r, Associate

(* Two pieces next to each other may be one.                                *)
LEMMA MergedPieces ==
  ASSUME NEW S, NEW p \in Seq(Seq(S)), NEW q \in Seq(Seq(S)), NEW j \in 1 .. Len(q),
         Len(p) = Len(q) + 1, q[j] = p[j] \o p[j + 1],
         \A k \in 1 .. Len(q) : /\ k < j => q[k] = p[k]
                                /\ k > j => q[k] = p[k + 1]
  PROVE  Concat(p) = Concat(q)
<1>1. PICK g : IsUpto(g, p, S) /\ Concat(p) = g[Len(p)]
  BY ConcatIsUpto, Zenon
<1>2. PICK h : IsUpto(h, q, S) /\ Concat(q) = h[Len(q)]
  BY ConcatIsUpto, Zenon
<1>3. PICK n \in Nat : n = Len(q)
  OBVIOUS
<1>4. j \in Nat /\ j \in 1 .. n /\ Len(p) = n + 1
  BY <1>3
<1>5. /\ g \in [0 .. n + 1 -> Seq(S)] /\ g[0] = <<>>
      /\ \A k \in 1 .. n + 1 : g[k] = g[k - 1] \o p[k]
  BY <1>1, <1>4, Zenon DEF IsUpto
<1>6. h[0] = <<>> /\ \A k \in 1 .. n : h[k] = h[k - 1] \o q[k]
  BY <1>2, <1>3, Zenon DEF IsUpto
<1> DEFINE Bad == {k \in 0 .. j - 1 : h[k] # g[k]}
<1>7. Bad = {}
  <2>1. SUFFICES ASSUME Bad # {}
                 PROVE  FALSE
    BY Zenon
  <2>2. Bad \in SUBSET Nat
    BY <1>4
  <2>3. PICK k \in Bad : \A y \in Bad : k <= y
    BY <2>1, <2>2, LeastNatural, Zenon
  <2>4. k # 0
    BY <1>5, <1>6, <2>3, Zenon
  <2>5. /\ k \in 1 .. n /\ k \in 1 .. n + 1 /\ k < j
        /\ k - 1 \in 0 .. j - 1 /\ ~ (k <= k - 1)
    BY <1>4, <2>2, <2>3, <2>4
  <2>6. h[k - 1] = g[k - 1]
    BY <2>3, <2>5, Zenon
  <2>7. h[k] = h[k - 1] \o q[k] /\ g[k] = g[k - 1] \o p[k] /\ q[k] = p[k]
    BY <1>3, <1>5, <1>6, <2>5, Zenon
  <2>8. QED
    BY <2>3, <2>6, <2>7, Zenon
<1>8. h[j] = g[j + 1]
  <2>1. /\ j - 1 \in 0 .. j - 1 /\ j - 1 \in 0 .. n + 1 /\ j \in 1 .. n + 1
        /\ j + 1 \in 1 .. n + 1 /\ (j + 1) - 1 = j
    BY <1>4
  <2>2. h[j - 1] = g[j - 1] /\ g[j - 1] \in Seq(S)
    BY <1>5, <1>7, <2>1, Zenon
  <2>3. p[j] \in Seq(S) /\ p[j + 1] \in Seq(S)
    BY <1>4, <2>1, ElementOfSeq, Zenon
  <2>4. h[j] = g[j - 1] \o (p[j] \o p[j + 1])
    BY <1>4, <1>6, <2>2, Zenon
  <2>5. g[j + 1] = (g[j - 1] \o p[j]) \o p[j + 1]
    BY <1>5, <2>1, Zenon
  <2>6. (g[j - 1] \o p[j]) \o p[j + 1] = g[j - 1] \o (p[j] \o p[j + 1])
    <3>1. Associate(g[j - 1], p[j], p[j + 1])
      BY <2>2, <2>3, ConcatAssociates, Zenon
    <3>2. QED
      BY <3>1, Zenon DEF Associate
  <2>7. QED
    BY <2>4, <2>5, <2>6, Zenon
<1> DEFINE Bad2 == {k \in j .. n : h[k] # g[k + 1]}
<1>9. Bad2 = {}
  <2>1. SUFFICES ASSUME Bad2 # {}
                 PROVE  FALSE
    BY Zenon
  <2>2. Bad2 \in SUBSET Nat
    BY <1>4
  <2>3. PICK k \in Bad2 : \A y \in Bad2 : k <= y
    BY <2>1, <2>2, LeastNatural, Zenon
  <2>4. k # j
    BY <1>8, <2>3, Zenon
  <2>5. /\ k \in 1 .. n /\ k + 1 \in 1 .. n + 1 /\ k > j /\ (k + 1) - 1 = k
        /\ k - 1 \in j .. n /\ ~ (k <= k - 1) /\ (k - 1) + 1 = k
    BY <1>4, <2>2, <2>3, <2>4
  <2>6. h[k - 1] = g[k]
    BY <2>3, <2>5, Zenon
  <2>7. h[k] = h[k - 1] \o q[k] /\ g[k + 1] = g[k] \o p[k + 1] /\ q[k] = p[k + 1]
    BY <1>3, <1>5, <1>6, <2>5, Zenon
  <2>8. QED
    BY <2>3, <2>6, <2>7, Zenon
<1>10. n \in j .. n
  BY <1>4
<1>11. h[n] = g[n + 1]
  BY <1>9, <1>10, Zenon
<1>12. QED
  BY <1>1, <1>2, <1>3, <1>4, <1>11, Zenon

(* How many loops two nests share.                                          *)
LEMMA NumSharedIs ==
  ASSUME NEW S, NEW a \in Seq(S), NEW b \in Seq(S)
  PROVE  /\ NumShared(a, b) \in 0 .. Len(a)
         /\ SharesLoops(a, b, NumShared(a, b)) /\ ~ SharesLoops(a, b, NumShared(a, b) + 1)
<1>1. Len(a) \in Nat /\ Len(b) \in Nat
  OBVIOUS
<1> DEFINE T == {n \in 0 .. Len(a) : SharesLoops(a, b, n)}
<1>2. T \in SUBSET (0 .. Len(a)) /\ 0 \in T
  BY <1>1 DEF SharesLoops
<1> HIDE DEF T
<1>3. PICK n \in T : \A y \in T : y <= n
  BY <1>1, <1>2, GreatestNatural, Zenon
<1> USE DEF T
<1>4. n + 1 \notin T /\ n \in 0 .. Len(a)
  BY <1>2, <1>3
<1>5. ~ SharesLoops(a, b, n + 1)
  <2>1. SUFFICES ASSUME SharesLoops(a, b, n + 1)
                 PROVE  FALSE
    BY Zenon
  <2>2. n + 1 <= Len(a)
    BY <2>1, Zenon DEF SharesLoops
  <2>3. n + 1 \in 0 .. Len(a)
    BY <1>1, <1>4, <2>2
  <2>4. QED
    BY <1>4, <2>1, <2>3, Zenon
<1>6. SharesLoops(a, b, n)
  BY <1>3, Zenon
<1>7. QED
  BY <1>4, <1>5, <1>6, Zenon DEF NumShared

(* That is the only number.                                                 *)
LEMMA NumSharedIsOnly ==
  ASSUME NEW S, NEW a \in Seq(S), NEW b \in Seq(S), NEW n \in Nat,
         SharesLoops(a, b, n), ~ SharesLoops(a, b, n + 1)
  PROVE  NumShared(a, b) = n
<1>1. PICK m : m = NumShared(a, b)
  BY Zenon
<1>2. m \in 0 .. Len(a) /\ SharesLoops(a, b, m) /\ ~ SharesLoops(a, b, m + 1)
  BY <1>1, NumSharedIs, Zenon
<1>3. Len(a) \in Nat /\ Len(b) \in Nat /\ m \in Nat
  BY <1>2
<1>4. \A k \in Nat, l \in Nat : SharesLoops(a, b, k) /\ l + 1 <= k => SharesLoops(a, b, l + 1)
  BY <1>3 DEF SharesLoops
<1>5. ~ (n + 1 <= m) /\ ~ (m + 1 <= n)
  BY <1>2, <1>3, <1>4, Zenon
<1>6. QED
  BY <1>1, <1>3, <1>5

(* The nests a and b share the same number of loops as c and d.             *)
ShareAlike(a, b, c, d) == \A k \in Nat : SharesLoops(a, b, k) <=> SharesLoops(c, d, k)

ShareAsMany(a, b, c, d) == NumShared(a, b) = NumShared(c, d)

(* Then that number is the same.                                            *)
LEMMA SameNumShared ==
  ASSUME NEW S, NEW a \in Seq(S), NEW b \in Seq(S), NEW c \in Seq(S), NEW d \in Seq(S),
         ShareAlike(a, b, c, d)
  PROVE  ShareAsMany(a, b, c, d)
<1>1. PICK n : n = NumShared(a, b)
  BY Zenon
<1>2. n \in 0 .. Len(a) /\ SharesLoops(a, b, n) /\ ~ SharesLoops(a, b, n + 1)
  BY <1>1, NumSharedIs, Zenon
<1>3. n \in Nat /\ n + 1 \in Nat
  BY <1>2
<1>4. SharesLoops(c, d, n) /\ ~ SharesLoops(c, d, n + 1)
  BY <1>2, <1>3, Zenon DEF ShareAlike
<1>5. QED
  BY <1>1, <1>3, <1>4, NumSharedIsOnly, Zenon DEF ShareAsMany

(* What is opened and closed depends on the number of shared loops.         *)
LEMMA SameOpened ==
  ASSUME NEW nest, NEW a, NEW b, NumShared(nest, a) = NumShared(nest, b)
  PROVE  Opened(nest, a) = Opened(nest, b) /\ Closed(nest, a) = Closed(nest, b)
BY SMT DEF Opened, Closed

(* Between two operations in the same loops nothing is opened or closed.    *)
LEMMA NothingOpened ==
  ASSUME NEW S, NEW a \in Seq(S)
  PROVE  Opened(a, a) = <<>> /\ Closed(a, a) = <<>>
<1>1. Len(a) \in Nat
  OBVIOUS
<1>2. SharesLoops(a, a, Len(a)) /\ ~ SharesLoops(a, a, Len(a) + 1)
  BY <1>1 DEF SharesLoops
<1>3. NumShared(a, a) = Len(a)
  BY <1>1, <1>2, NumSharedIsOnly, Zenon
<1>4. Len(a) - Len(a) = 0 /\ 1 .. 0 = {}
  BY <1>1
<1>5. QED
  BY <1>3, <1>4, SMT DEF Opened, Closed

(* What the code is made of.                                                *)
Tokens == {For(l) : l \in LoopNames} \union {End(l) : l \in LoopNames}
            \union {Statement(op) : op \in Ops}

(* The loops opened and closed at a nest are a part of the code.            *)
LEMMA OpenedTyped ==
  ASSUME NEW nest \in Seq(LoopNames), NEW neighbour \in Seq(LoopNames)
  PROVE  Opened(nest, neighbour) \in Seq(Tokens) /\ Closed(nest, neighbour) \in Seq(Tokens)
<1>1. PICK s : s = NumShared(nest, neighbour)
  BY Zenon
<1>2. PICK d \in Nat : d = Len(nest)
  OBVIOUS
<1>3. s \in 0 .. d /\ d - s \in Nat
  <2>1. s \in 0 .. d
    BY <1>1, <1>2, NumSharedIs, Zenon
  <2>2. QED
    BY <2>1
<1>4. \A k \in 1 .. d - s : s + k \in 1 .. d /\ d + 1 - k \in 1 .. d
  BY <1>3
<1>5. \A k \in 1 .. d : nest[k] \in LoopNames
  BY <1>2, ElementOfSeq, Zenon
<1>6. \A k \in 1 .. d - s : For(nest[s + k]) \in Tokens /\ End(nest[d + 1 - k]) \in Tokens
  BY <1>4, <1>5, Zenon DEF Tokens
<1>7. /\ Opened(nest, neighbour) \in [1 .. d - s -> Tokens]
      /\ Closed(nest, neighbour) \in [1 .. d - s -> Tokens]
  BY <1>1, <1>2, <1>6, Zenon DEF Opened, Closed
<1>8. QED
  BY <1>3, <1>7, IsASeq, Zenon

(* The outer loops of a nest of d loops.                                    *)
IsOuter(outer, nest, d) ==
  /\ nest \in Seq(LoopNames) /\ outer \in Seq(LoopNames)
  /\ d \in Nat \ {0} /\ Len(nest) = d /\ Len(outer) = d - 1
  /\ \A k \in 1 .. d - 1 : outer[k] = nest[k]

(* The innermost loop is opened last and closed first.                      *)
OpensInnermost(outer, nest, d, neighbour) ==
  /\ Opened(nest, neighbour) = Opened(outer, neighbour) \o <<For(nest[d])>>
  /\ Closed(nest, neighbour) = <<End(nest[d])>> \o Closed(outer, neighbour)

(* It is, where the neighbour is not in it.                                 *)
LEMMA InnermostLoop ==
  ASSUME NEW nest, NEW outer, NEW d, IsOuter(outer, nest, d),
         NEW neighbour \in Seq(LoopNames), NumShared(nest, neighbour) = NumShared(outer, neighbour)
  PROVE  OpensInnermost(outer, nest, d, neighbour)
<1>0. /\ nest \in Seq(LoopNames) /\ outer \in Seq(LoopNames)
      /\ d \in Nat \ {0} /\ Len(nest) = d /\ Len(outer) = d - 1
      /\ \A k \in 1 .. d - 1 : outer[k] = nest[k]
  BY Zenon DEF IsOuter
<1>1. PICK s : s = NumShared(nest, neighbour)
  BY Zenon
<1>2. s \in 0 .. d - 1
  BY <1>0, <1>1, NumSharedIs, Zenon
<1>3. PICK n \in Nat : n = d - 1 - s
  BY <1>0, <1>2
<1>4. PICK o, c, o2, c2 : /\ o = Opened(nest, neighbour) /\ c = Closed(nest, neighbour)
                          /\ o2 = Opened(outer, neighbour) /\ c2 = Closed(outer, neighbour)
  BY Zenon
<1>5. o \in Seq(Tokens) /\ c \in Seq(Tokens) /\ o2 \in Seq(Tokens) /\ c2 \in Seq(Tokens)
  BY <1>0, <1>4, OpenedTyped, Zenon
<1>6. d - s = n + 1 /\ d - 1 - s = n
  BY <1>0, <1>2, <1>3
<1>7. /\ o = [k \in 1 .. n + 1 |-> For(nest[s + k])]
      /\ c = [k \in 1 .. n + 1 |-> End(nest[d + 1 - k])]
  BY <1>0, <1>1, <1>4, <1>6, Zenon DEF Opened, Closed
<1>8. /\ o2 = [k \in 1 .. n |-> For(outer[s + k])]
      /\ c2 = [k \in 1 .. n |-> End(outer[d - 1 + 1 - k])]
  BY <1>0, <1>1, <1>4, <1>6, Zenon DEF Opened, Closed
<1>9. PICK f, e : f = <<For(nest[d])>> /\ e = <<End(nest[d])>>
  BY Zenon
<1>10. /\ f \in Seq(Tokens) /\ Len(f) = 1 /\ f[1] = For(nest[d])
       /\ e \in Seq(Tokens) /\ Len(e) = 1 /\ e[1] = End(nest[d])
  <2>1. nest[d] \in LoopNames
    BY <1>0
  <2>2. For(nest[d]) \in Tokens /\ End(nest[d]) \in Tokens
    BY <2>1, Zenon DEF Tokens
  <2>3. QED
    BY <1>9, <2>2
<1>11. Len(o) = n + 1 /\ Len(c) = n + 1 /\ Len(o2) = n /\ Len(c2) = n
  BY <1>7, <1>8
<1>12. /\ o2 \o f \in Seq(Tokens) /\ Len(o2 \o f) = n + 1
       /\ \A k \in 1 .. n + 1 : (o2 \o f)[k] = IF k <= n THEN o2[k] ELSE f[k - n]
       /\ e \o c2 \in Seq(Tokens) /\ Len(e \o c2) = n + 1
       /\ \A k \in 1 .. n + 1 : (e \o c2)[k] = IF k <= 1 THEN e[k] ELSE c2[k - 1]
  <2>1. 1 + n = n + 1
    OBVIOUS
  <2>2. /\ o2 \o f \in Seq(Tokens) /\ Len(o2 \o f) = Len(o2) + Len(f)
        /\ \A k \in 1 .. Len(o2) + Len(f) :
             (o2 \o f)[k] = IF k <= Len(o2) THEN o2[k] ELSE f[k - Len(o2)]
    BY <1>5, <1>10, ConcatProperties, Zenon
  <2>3. /\ e \o c2 \in Seq(Tokens) /\ Len(e \o c2) = Len(e) + Len(c2)
        /\ \A k \in 1 .. Len(e) + Len(c2) :
             (e \o c2)[k] = IF k <= Len(e) THEN e[k] ELSE c2[k - Len(e)]
    BY <1>5, <1>10, ConcatProperties, Zenon
  <2>4. QED
    BY <1>10, <1>11, <2>1, <2>2, <2>3, Zenon
<1>13. ASSUME NEW k \in 1 .. n + 1
       PROVE  o[k] = (o2 \o f)[k] /\ c[k] = (e \o c2)[k]
  <2>1. o[k] = (o2 \o f)[k]
    <3>1. CASE k <= n
      <4>1. k \in 1 .. n /\ s + k \in 1 .. d - 1
        BY <1>0, <1>2, <1>3, <3>1
      <4>2. o[k] = For(nest[s + k]) /\ o2[k] = For(outer[s + k]) /\ outer[s + k] = nest[s + k]
        BY <1>0, <1>7, <1>8, <4>1, Zenon
      <4>3. QED
        BY <1>12, <3>1, <4>2, Zenon
    <3>2. CASE k = n + 1
      <4>1. s + k = d /\ k - n = 1 /\ ~ (k <= n)
        BY <1>0, <1>2, <1>3, <3>2
      <4>2. QED
        BY <1>7, <1>10, <1>12, <4>1, Zenon
    <3>3. k <= n \/ k = n + 1
      OBVIOUS
    <3>4. QED
      BY <3>1, <3>2, <3>3, Zenon
  <2>2. c[k] = (e \o c2)[k]
    <3>1. CASE k = 1
      <4>1. d + 1 - k = d /\ k <= 1
        BY <1>0, <3>1
      <4>2. QED
        BY <1>7, <1>10, <1>12, <3>1, <4>1, Zenon
    <3>2. CASE k # 1
      <4>1. /\ k - 1 \in 1 .. n /\ ~ (k <= 1) /\ d - 1 + 1 - (k - 1) = d + 1 - k
            /\ d + 1 - k \in 1 .. d - 1
        BY <1>0, <1>2, <1>3, <3>2
      <4>2. c[k] = End(nest[d + 1 - k]) /\ c2[k - 1] = End(nest[d + 1 - k])
        BY <1>0, <1>7, <1>8, <4>1, Zenon
      <4>3. QED
        BY <1>12, <4>1, <4>2, Zenon
    <3>3. QED
      BY <3>1, <3>2, Zenon
  <2>3. QED
    BY <2>1, <2>2, Zenon
<1>14. o = o2 \o f
  <2>1. PICK r \in Seq(Tokens) : r = o2 \o f
    BY <1>12, Zenon
  <2>2. Len(o) = Len(r) /\ \A k \in 1 .. Len(o) : o[k] = r[k]
    BY <1>11, <1>12, <1>13, <2>1, Zenon
  <2>3. o = r
    BY <1>5, <2>2, SeqEqual, Zenon
  <2>4. QED
    BY <2>1, <2>3, Zenon
<1>15. c = e \o c2
  <2>1. PICK r \in Seq(Tokens) : r = e \o c2
    BY <1>12, Zenon
  <2>2. Len(c) = Len(r) /\ \A k \in 1 .. Len(c) : c[k] = r[k]
    BY <1>11, <1>12, <1>13, <2>1, Zenon
  <2>3. c = r
    BY <1>5, <2>2, SeqEqual, Zenon
  <2>4. QED
    BY <2>1, <2>3, Zenon
<1>16. QED
  BY <1>4, <1>9, <1>14, <1>15, Zenon DEF OpensInnermost

(* The body of a fused operation is between the loops of its two parts.     *)
AreFused(o, a, b, c) == (o \o (a \o b)) \o c = ((o \o a) \o <<>>) \o ((<<>> \o b) \o c)

(* It is, for any bodies a and b.                                           *)
LEMMA FusedPiece ==
  ASSUME NEW S, NEW o \in Seq(S), NEW a \in Seq(S), NEW b \in Seq(S), NEW c \in Seq(S)
  PROVE  AreFused(o, a, b, c)
<1>1. o \o a \in Seq(S)
  BY ConcatProperties, Zenon
<1>2. PICK oa \in Seq(S) : oa = o \o a
  BY <1>1, Zenon
<1>3. oa \o <<>> = oa /\ <<>> \o b = b
  OBVIOUS
<1>4. Associate(o, a, b) /\ Associate(oa, b, c)
  BY ConcatAssociates, Zenon
<1>5. QED
  BY <1>2, <1>3, <1>4, Zenon DEF Associate, AreFused

(* The innermost loop of an operation belongs to its nest or to its body.   *)
IsLowered(o, f, b, e, c) == ((o \o f) \o b) \o (e \o c) = (o \o ((f \o b) \o e)) \o c

(* It does, for any body b.                                                 *)
LEMMA LoweredPiece ==
  ASSUME NEW S, NEW o \in Seq(S), NEW f \in Seq(S), NEW b \in Seq(S),
         NEW e \in Seq(S), NEW c \in Seq(S)
  PROVE  IsLowered(o, f, b, e, c)
<1>1. f \o b \in Seq(S) /\ b \o e \in Seq(S) /\ o \o f \in Seq(S)
  BY ConcatProperties, Zenon
<1>2. PICK of \in Seq(S), be \in Seq(S) : of = o \o f /\ be = b \o e
  BY <1>1, Zenon
<1>3. of \o b \in Seq(S)
  BY ConcatProperties, Zenon
<1>4. Associate(of \o b, e, c) /\ Associate(of, b, e) /\ Associate(o, f, be) /\ Associate(f, b, e)
  BY <1>3, ConcatAssociates, Zenon
<1>5. (of \o b) \o (e \o c) = ((of \o b) \o e) \o c
  BY <1>4, Zenon DEF Associate
<1>6. (of \o b) \o e = o \o (f \o be)
  BY <1>2, <1>4, Zenon DEF Associate
<1>7. (f \o b) \o e = f \o be
  BY <1>2, <1>4, Zenon DEF Associate
<1>8. QED
  BY <1>2, <1>5, <1>6, <1>7, Zenon DEF IsLowered

(* Operations with nests and bodies, as the code is made from.              *)
AreOperations(nests, bodies) ==
  nests \in Seq(Seq(LoopNames)) /\ \A i \in 1 .. Len(nests) : bodies[i] \in Seq(Tokens)

Pieces(nests, bodies) == [i \in DOMAIN nests |-> Piece(nests, bodies, i)]

ArePieces(p, nests, bodies) ==
  /\ p \in Seq(Seq(Tokens)) /\ Len(p) = Len(nests)
  /\ \A i \in 1 .. Len(nests) : p[i] = Piece(nests, bodies, i)

(* Outside of the program there are no loops.                               *)
LEMMA NestAtTyped ==
  ASSUME NEW nests \in Seq(Seq(LoopNames)), NEW i
  PROVE  NestAt(nests, i) \in Seq(LoopNames)
<1>1. DOMAIN nests = 1 .. Len(nests)
  OBVIOUS
<1>2. CASE i \in DOMAIN nests
  BY <1>1, <1>2, ElementOfSeq, Zenon DEF NestAt
<1>3. CASE ~ (i \in DOMAIN nests)
  BY <1>3, EmptySeq, Zenon DEF NestAt
<1>4. QED
  BY <1>2, <1>3, Zenon

(* The pieces are vectors of what the code is made of.                      *)
LEMMA PiecesTyped ==
  ASSUME NEW nests, NEW bodies, AreOperations(nests, bodies)
  PROVE  ArePieces(Pieces(nests, bodies), nests, bodies)
<1>1. nests \in Seq(Seq(LoopNames)) /\ \A i \in 1 .. Len(nests) : bodies[i] \in Seq(Tokens)
  BY Zenon DEF AreOperations
<1>2. PICK n \in Nat : n = Len(nests) /\ DOMAIN nests = 1 .. n
  BY <1>1
<1>3. ASSUME NEW i \in 1 .. n
      PROVE  Piece(nests, bodies, i) \in Seq(Tokens)
  <2>1. nests[i] \in Seq(LoopNames) /\ bodies[i] \in Seq(Tokens)
    BY <1>1, <1>2, ElementOfSeq, Zenon
  <2>2. NestAt(nests, i - 1) \in Seq(LoopNames) /\ NestAt(nests, i + 1) \in Seq(LoopNames)
    BY <1>1, NestAtTyped, Zenon
  <2>3. PICK o \in Seq(Tokens), c \in Seq(Tokens) :
          o = Opened(nests[i], NestAt(nests, i - 1)) /\ c = Closed(nests[i], NestAt(nests, i + 1))
    BY <2>1, <2>2, OpenedTyped, Zenon
  <2>4. (o \o bodies[i]) \o c \in Seq(Tokens)
    BY <2>1, ConcatProperties, Zenon
  <2>5. QED
    BY <2>3, <2>4, Zenon DEF Piece
<1>4. PICK p : p = Pieces(nests, bodies)
  BY Zenon
<1>5. p = [i \in 1 .. n |-> Piece(nests, bodies, i)]
  BY <1>2, <1>4, Zenon DEF Pieces
<1>6. p \in [1 .. n -> Seq(Tokens)] /\ \A i \in 1 .. n : p[i] = Piece(nests, bodies, i)
  BY <1>3, <1>5, Zenon
<1>7. p \in Seq(Seq(Tokens)) /\ Len(p) = n
  BY <1>6
<1>8. QED
  BY <1>2, <1>4, <1>6, <1>7, Zenon DEF ArePieces

IsSameCode(nests, bodies, nests2, bodies2) == Code(nests, bodies) = Code(nests2, bodies2)

(* After a fusion at j: operation j is made of the operations j and j + 1,  *)
(* which are in the same loops.                                             *)
IsFusion(nests, bodies, nests2, bodies2, j) ==
  /\ Len(nests) = Len(nests2) + 1 /\ j \in 1 .. Len(nests2)
  /\ \A k \in 1 .. Len(nests2) :
       /\ k <= j => nests2[k] = nests[k]
       /\ k >= j => nests2[k] = nests[k + 1]
       /\ k < j => bodies2[k] = bodies[k]
       /\ k > j => bodies2[k] = bodies[k + 1]
  /\ bodies2[j] = bodies[j] \o bodies[j + 1]

(* The code stays the same.                                                 *)
LEMMA FusedCode ==
  ASSUME NEW nests, NEW bodies, NEW nests2, NEW bodies2, NEW j,
         AreOperations(nests, bodies), AreOperations(nests2, bodies2),
         IsFusion(nests, bodies, nests2, bodies2, j)
  PROVE  IsSameCode(nests2, bodies2, nests, bodies)
<1>1. /\ nests \in Seq(Seq(LoopNames)) /\ nests2 \in Seq(Seq(LoopNames))
      /\ \A i \in 1 .. Len(nests) : bodies[i] \in Seq(Tokens)
  BY Zenon DEF AreOperations
<1>2. PICK n \in Nat : n = Len(nests2) /\ DOMAIN nests2 = 1 .. n
  BY <1>1
<1>3. /\ Len(nests) = n + 1 /\ j \in 1 .. n
      /\ bodies2[j] = bodies[j] \o bodies[j + 1]
      /\ \A k \in 1 .. n :
           /\ k <= j => nests2[k] = nests[k]
           /\ k >= j => nests2[k] = nests[k + 1]
           /\ k < j => bodies2[k] = bodies[k]
           /\ k > j => bodies2[k] = bodies[k + 1]
  BY <1>2, Zenon DEF IsFusion
<1>4. DOMAIN nests = 1 .. n + 1 /\ j \in Nat
  BY <1>1, <1>3
<1>5. \A m \in 0 .. j : NestAt(nests2, m) = NestAt(nests, m)
  <2> SUFFICES ASSUME NEW m \in 0 .. j
               PROVE  NestAt(nests2, m) = NestAt(nests, m)
    BY Zenon
  <2>1. CASE m = 0
    <3>1. m \notin 1 .. n /\ m \notin 1 .. n + 1
      BY <2>1
    <3>2. QED
      BY <1>2, <1>4, <3>1, Zenon DEF NestAt
  <2>2. CASE m # 0
    <3>1. m \in 1 .. n /\ m \in 1 .. n + 1 /\ m <= j
      BY <1>3, <2>2
    <3>2. QED
      BY <1>2, <1>3, <1>4, <3>1, Zenon DEF NestAt
  <2>3. QED
    BY <2>1, <2>2, Zenon
<1>6. \A m \in j .. n + 1 : NestAt(nests2, m) = NestAt(nests, m + 1)
  <2> SUFFICES ASSUME NEW m \in j .. n + 1
               PROVE  NestAt(nests2, m) = NestAt(nests, m + 1)
    BY Zenon
  <2>1. CASE m = n + 1
    <3>1. m \notin 1 .. n /\ m + 1 \notin 1 .. n + 1
      BY <2>1
    <3>2. QED
      BY <1>2, <1>4, <3>1, Zenon DEF NestAt
  <2>2. CASE m # n + 1
    <3>1. m \in 1 .. n /\ m + 1 \in 1 .. n + 1 /\ m >= j
      BY <1>3, <2>2
    <3>2. QED
      BY <1>2, <1>3, <1>4, <3>1, Zenon DEF NestAt
  <2>3. QED
    BY <2>1, <2>2, Zenon
<1>7. PICK p, q : p = Pieces(nests, bodies) /\ q = Pieces(nests2, bodies2)
  BY Zenon
<1>8. /\ p \in Seq(Seq(Tokens)) /\ Len(p) = n + 1
      /\ \A i \in 1 .. n + 1 : p[i] = Piece(nests, bodies, i)
  <2>1. ArePieces(p, nests, bodies)
    BY <1>7, PiecesTyped, Zenon
  <2>2. QED
    BY <1>3, <2>1, Zenon DEF ArePieces
<1>9. /\ q \in Seq(Seq(Tokens)) /\ Len(q) = n
      /\ \A i \in 1 .. n : q[i] = Piece(nests2, bodies2, i)
  <2>1. ArePieces(q, nests2, bodies2)
    BY <1>7, PiecesTyped, Zenon
  <2>2. QED
    BY <1>2, <2>1, Zenon DEF ArePieces
<1>10. ASSUME NEW k \in 1 .. n, k < j
       PROVE  q[k] = p[k]
  <2>1. k \in 1 .. n + 1 /\ k - 1 \in 0 .. j /\ k + 1 \in 0 .. j /\ k <= j
    BY <1>4, <1>10
  <2>2. nests2[k] = nests[k] /\ bodies2[k] = bodies[k]
    BY <1>3, <1>10, <2>1, Zenon
  <2>3. QED
    BY <1>5, <1>8, <1>9, <2>1, <2>2, Zenon DEF Piece
<1>11. ASSUME NEW k \in 1 .. n, k > j
       PROVE  q[k] = p[k + 1]
  <2>1. /\ k + 1 \in 1 .. n + 1 /\ k - 1 \in j .. n + 1 /\ k + 1 \in j .. n + 1 /\ k >= j
        /\ (k - 1) + 1 = (k + 1) - 1
    BY <1>4, <1>11
  <2>2. nests2[k] = nests[k + 1] /\ bodies2[k] = bodies[k + 1]
    BY <1>3, <1>11, <2>1, Zenon
  <2>3. /\ NestAt(nests2, k - 1) = NestAt(nests, (k + 1) - 1)
        /\ NestAt(nests2, k + 1) = NestAt(nests, (k + 1) + 1)
    BY <1>6, <2>1, Zenon
  <2>4. QED
    BY <1>8, <1>9, <2>1, <2>2, <2>3, Zenon DEF Piece
<1>12. q[j] = p[j] \o p[j + 1]
  <2>1. /\ j \in 1 .. n + 1 /\ j + 1 \in 1 .. n + 1 /\ j - 1 \in 0 .. j
        /\ j + 1 \in j .. n + 1 /\ (j + 1) - 1 = j /\ j <= j /\ j >= j
    BY <1>3, <1>4
  <2>2. nests2[j] = nests[j] /\ nests2[j] = nests[j + 1]
    BY <1>3, <2>1, Zenon
  <2>3. PICK nest \in Seq(LoopNames) : nest = nests[j] /\ nest = nests[j + 1] /\ nest = nests2[j]
    BY <1>1, <1>3, <2>1, <2>2, ElementOfSeq, Zenon
  <2>4. PICK a \in Seq(Tokens), b \in Seq(Tokens) : a = bodies[j] /\ b = bodies[j + 1]
    BY <1>1, <1>3, <2>1, Zenon
  <2>5. PICK before \in Seq(LoopNames), after \in Seq(LoopNames) :
          /\ before = NestAt(nests, j - 1) /\ before = NestAt(nests2, j - 1)
          /\ after = NestAt(nests, (j + 1) + 1) /\ after = NestAt(nests2, j + 1)
    BY <1>1, <1>5, <1>6, <2>1, NestAtTyped, Zenon
  <2>6. NestAt(nests, j + 1) = nest /\ NestAt(nests, (j + 1) - 1) = nest
    BY <1>4, <2>1, <2>3, Zenon DEF NestAt
  <2>7. PICK o \in Seq(Tokens), c \in Seq(Tokens) :
          o = Opened(nest, before) /\ c = Closed(nest, after)
    BY OpenedTyped, Zenon
  <2>8. Opened(nest, nest) = <<>> /\ Closed(nest, nest) = <<>>
    BY NothingOpened, Zenon
  <2>9. q[j] = (o \o (a \o b)) \o c
    BY <1>3, <1>9, <2>3, <2>4, <2>5, <2>7, Zenon DEF Piece
  <2>10. p[j] = (o \o a) \o <<>>
    BY <1>8, <2>1, <2>3, <2>4, <2>5, <2>6, <2>7, <2>8, Zenon DEF Piece
  <2>11. p[j + 1] = (<<>> \o b) \o c
    BY <1>8, <2>1, <2>3, <2>4, <2>5, <2>6, <2>7, <2>8, Zenon DEF Piece
  <2>12. AreFused(o, a, b, c)
    BY FusedPiece, Zenon
  <2>13. QED
    BY <2>9, <2>10, <2>11, <2>12, Zenon DEF AreFused
<1>13. Concat(p) = Concat(q)
  <2>1. j \in 1 .. Len(q) /\ Len(p) = Len(q) + 1
    BY <1>3, <1>8, <1>9, Zenon
  <2>2. \A k \in 1 .. Len(q) : (k < j => q[k] = p[k]) /\ (k > j => q[k] = p[k + 1])
    BY <1>9, <1>10, <1>11, Zenon
  <2>3. QED
    BY <1>8, <1>9, <1>12, <2>1, <2>2, MergedPieces, Zenon
<1>14. QED
  BY <1>7, <1>13, Zenon DEF IsSameCode, Code, Pieces

(* An operation that is alone in its innermost loop shares as many loops    *)
(* with any other one as before when that loop is erased from its nest.     *)
LEMMA OuterShares ==
  ASSUME NEW nest, NEW outer, NEW d, IsOuter(outer, nest, d),
         NEW other \in Seq(LoopNames), ~ SharesLoops(nest, other, d)
  PROVE  ShareAsMany(nest, other, outer, other) /\ ShareAsMany(other, nest, other, outer)
<1>0. /\ nest \in Seq(LoopNames) /\ outer \in Seq(LoopNames)
      /\ d \in Nat \ {0} /\ Len(nest) = d /\ Len(outer) = d - 1
      /\ \A k \in 1 .. d - 1 : outer[k] = nest[k]
  BY Zenon DEF IsOuter
<1>1. \A k \in Nat : SharesLoops(nest, other, k) <=> SharesLoops(outer, other, k)
  <2> SUFFICES ASSUME NEW k \in Nat
               PROVE  SharesLoops(nest, other, k) <=> SharesLoops(outer, other, k)
    BY Zenon
  <2>1. CASE k <= d - 1
    <3>1. k <= d /\ \A i \in 1 .. k : outer[i] = nest[i]
      BY <1>0, <2>1
    <3>2. QED
      BY <1>0, <2>1, <3>1, Zenon DEF SharesLoops
  <2>2. CASE k = d
    <3>1. ~ (k <= d - 1)
      BY <1>0, <2>2
    <3>2. QED
      BY <1>0, <2>2, <3>1, Zenon DEF SharesLoops
  <2>3. CASE k > d
    <3>1. ~ (k <= d - 1) /\ ~ (k <= d)
      BY <1>0, <2>3
    <3>2. QED
      BY <1>0, <3>1, Zenon DEF SharesLoops
  <2>4. k <= d - 1 \/ k = d \/ k > d
    BY <1>0
  <2>5. QED
    BY <2>1, <2>2, <2>3, <2>4, Zenon
<1>2. \A a, b, k : SharesLoops(a, b, k) <=> SharesLoops(b, a, k)
  BY Zenon DEF SharesLoops
<1>3. ShareAlike(nest, other, outer, other) /\ ShareAlike(other, nest, other, outer)
  BY <1>1, <1>2, Zenon DEF ShareAlike
<1>4. QED
  BY <1>0, <1>3, SameNumShared, Zenon

(* After the introduction of the innermost loop of operation j, which no    *)
(* other operation is in.                                                   *)
IsLowering(nests, bodies, nests2, bodies2, j) ==
  /\ Len(nests2) = Len(nests) /\ j \in 1 .. Len(nests)
  /\ \A k \in 1 .. Len(nests) : k # j =>
       /\ nests2[k] = nests[k] /\ bodies2[k] = bodies[k]
       /\ ~ SharesLoops(nests[j], nests[k], Len(nests[j]))
  /\ Len(nests[j]) \in Nat \ {0} /\ Len(nests2[j]) = Len(nests[j]) - 1
  /\ \A k \in 1 .. Len(nests[j]) - 1 : nests2[j][k] = nests[j][k]
  /\ bodies2[j] = (<<For(nests[j][Len(nests[j])])>> \o bodies[j])
                     \o <<End(nests[j][Len(nests[j])])>>

(* The code stays the same.                                                 *)
LEMMA LoweredCode ==
  ASSUME NEW nests, NEW bodies, NEW nests2, NEW bodies2, NEW j,
         AreOperations(nests, bodies), AreOperations(nests2, bodies2),
         IsLowering(nests, bodies, nests2, bodies2, j)
  PROVE  IsSameCode(nests2, bodies2, nests, bodies)
<1>1. /\ nests \in Seq(Seq(LoopNames)) /\ nests2 \in Seq(Seq(LoopNames))
      /\ \A i \in 1 .. Len(nests) : bodies[i] \in Seq(Tokens)
  BY Zenon DEF AreOperations
<1>2. PICK n \in Nat : n = Len(nests) /\ n = Len(nests2) /\ DOMAIN nests = 1 .. n /\ DOMAIN nests2 = 1 .. n
  <2>1. Len(nests2) = Len(nests)
    BY Zenon DEF IsLowering
  <2>2. QED
    BY <1>1, <2>1
<1>3. j \in 1 .. n
  BY <1>2, Zenon DEF IsLowering
<1>4. PICK nest \in Seq(LoopNames), outer \in Seq(LoopNames), d \in Nat \ {0} :
        nest = nests[j] /\ outer = nests2[j] /\ d = Len(nest)
  <2>1. nests[j] \in Seq(LoopNames) /\ nests2[j] \in Seq(LoopNames)
    BY <1>1, <1>2, <1>3, ElementOfSeq, Zenon
  <2>2. QED
    BY <2>1, Zenon DEF IsLowering
<1>5. Len(outer) = d - 1 /\ \A k \in 1 .. d - 1 : outer[k] = nest[k]
  BY <1>4, Zenon DEF IsLowering
<1>6. IsOuter(outer, nest, d)
  BY <1>4, <1>5, Zenon DEF IsOuter
<1>7. \A k \in 1 .. n : k # j =>
        nests2[k] = nests[k] /\ bodies2[k] = bodies[k] /\ ~ SharesLoops(nest, nests[k], d)
  BY <1>2, <1>4, Zenon DEF IsLowering
<1>8. ASSUME NEW m, m # j
      PROVE  /\ NestAt(nests2, m) = NestAt(nests, m)
             /\ NestAt(nests, m) \in Seq(LoopNames)
             /\ NumShared(nest, NestAt(nests, m)) = NumShared(outer, NestAt(nests, m))
             /\ NumShared(NestAt(nests, m), nest) = NumShared(NestAt(nests, m), outer)
  <2>1. NestAt(nests2, m) = NestAt(nests, m)
    BY <1>2, <1>7, <1>8, Zenon DEF NestAt
  <2>2. NestAt(nests, m) \in Seq(LoopNames)
    BY <1>1, NestAtTyped, Zenon
  <2>3. ~ SharesLoops(nest, NestAt(nests, m), d)
    <3>1. CASE m \in 1 .. n
      BY <1>2, <1>7, <1>8, <3>1, Zenon DEF NestAt
    <3>2. CASE ~ (m \in 1 .. n)
      <4>1. NestAt(nests, m) = <<>>
        BY <1>2, <3>2, Zenon DEF NestAt
      <4>2. Len(<<>>) = 0 /\ ~ (d <= 0)
        OBVIOUS
      <4>3. QED
        BY <4>1, <4>2, Zenon DEF SharesLoops
    <3>3. QED
      BY <3>1, <3>2, Zenon
  <2>4. PICK other \in Seq(LoopNames) : other = NestAt(nests, m)
    BY <2>2, Zenon
  <2>5. /\ NumShared(nest, other) = NumShared(outer, other)
        /\ NumShared(other, nest) = NumShared(other, outer)
    <3>1. ShareAsMany(nest, other, outer, other) /\ ShareAsMany(other, nest, other, outer)
      BY <1>6, <2>3, <2>4, OuterShares, Zenon
    <3>2. QED
      BY <3>1, Zenon DEF ShareAsMany
  <2>6. QED
    BY <2>1, <2>2, <2>4, <2>5, Zenon
<1>9. PICK p, q : p = Pieces(nests, bodies) /\ q = Pieces(nests2, bodies2)
  BY Zenon
<1>10. ArePieces(p, nests, bodies) /\ ArePieces(q, nests2, bodies2)
  BY <1>9, PiecesTyped, Zenon
<1>11. /\ p \in Seq(Seq(Tokens)) /\ Len(p) = n
       /\ \A i \in 1 .. n : p[i] = Piece(nests, bodies, i)
       /\ q \in Seq(Seq(Tokens)) /\ Len(q) = n
       /\ \A i \in 1 .. n : q[i] = Piece(nests2, bodies2, i)
  BY <1>2, <1>10, Zenon DEF ArePieces
<1>12. ASSUME NEW k \in 1 .. n, k # j
       PROVE  q[k] = p[k]
  <2>1. nests2[k] = nests[k] /\ bodies2[k] = bodies[k] /\ NestAt(nests, k) = nests[k]
    BY <1>2, <1>7, <1>12, Zenon DEF NestAt
  <2>2. NestAt(nests, j) = nest /\ NestAt(nests2, j) = outer
    BY <1>2, <1>3, <1>4, Zenon DEF NestAt
  <2>3. NumShared(nests[k], nest) = NumShared(nests[k], outer)
    BY <1>8, <1>12, <2>1, Zenon
  <2>4. \A m : NumShared(nests[k], NestAt(nests2, m)) = NumShared(nests[k], NestAt(nests, m))
    BY <1>8, <2>2, <2>3, Zenon
  <2>5. /\ Opened(nests[k], NestAt(nests2, k - 1)) = Opened(nests[k], NestAt(nests, k - 1))
        /\ Closed(nests[k], NestAt(nests2, k + 1)) = Closed(nests[k], NestAt(nests, k + 1))
    BY <2>4, SameOpened, Zenon
  <2>6. QED
    BY <1>11, <2>1, <2>5, Zenon DEF Piece
<1>13. q[j] = p[j]
  <2>1. j - 1 # j /\ j + 1 # j
    BY <1>3
  <2>2. PICK before \in Seq(LoopNames), after \in Seq(LoopNames) :
          /\ before = NestAt(nests, j - 1) /\ before = NestAt(nests2, j - 1)
          /\ after = NestAt(nests, j + 1) /\ after = NestAt(nests2, j + 1)
    BY <1>8, <2>1, Zenon
  <2>3. NumShared(nest, before) = NumShared(outer, before) /\ NumShared(nest, after) = NumShared(outer, after)
    BY <1>8, <2>1, <2>2, Zenon
  <2>4. PICK o \in Seq(Tokens), c \in Seq(Tokens), b \in Seq(Tokens) :
          o = Opened(outer, before) /\ c = Closed(outer, after) /\ b = bodies[j]
    BY <1>1, <1>2, <1>3, OpenedTyped, Zenon
  <2>5. PICK f, e : f = <<For(nest[d])>> /\ e = <<End(nest[d])>>
    BY Zenon
  <2>6. f \in Seq(Tokens) /\ e \in Seq(Tokens)
    <3>1. d \in 1 .. d
      OBVIOUS
    <3>2. nest[d] \in LoopNames
      BY <1>4, <3>1, ElementOfSeq, Zenon
    <3>3. For(nest[d]) \in Tokens /\ End(nest[d]) \in Tokens
      BY <3>2, Zenon DEF Tokens
    <3>4. QED
      BY <2>5, <3>3
  <2>7. OpensInnermost(outer, nest, d, before) /\ OpensInnermost(outer, nest, d, after)
    BY <1>6, <2>3, InnermostLoop, Zenon
  <2>8. Opened(nest, before) = o \o f /\ Closed(nest, after) = e \o c
    BY <2>4, <2>5, <2>7, Zenon DEF OpensInnermost
  <2>9. bodies2[j] = (f \o b) \o e
    BY <1>4, <2>4, <2>5, Zenon DEF IsLowering
  <2>10. p[j] = ((o \o f) \o b) \o (e \o c)
    BY <1>3, <1>4, <1>11, <2>2, <2>4, <2>8, Zenon DEF Piece
  <2>11. q[j] = (o \o ((f \o b) \o e)) \o c
    BY <1>3, <1>4, <1>11, <2>2, <2>4, <2>9, Zenon DEF Piece
  <2>12. IsLowered(o, f, b, e, c)
    BY <2>6, LoweredPiece, Zenon
  <2>13. QED
    BY <2>10, <2>11, <2>12, Zenon DEF IsLowered
<1>14. p = q
  <2>1. Len(p) = Len(q) /\ \A k \in 1 .. Len(p) : p[k] = q[k]
    BY <1>11, <1>12, <1>13, Zenon
  <2>2. QED
    BY <1>11, <2>1, SeqEqual, Zenon
<1>15. QED
  BY <1>9, <1>14, Zenon DEF IsSameCode, Code, Pieces

-----------------------------------------------------------------------------
(* The code that the pass keeps.                                           *)

(* The operations with their places, nests and bodies.                      *)
Placed ==
  /\ Len(computeOps) \in Nat /\ DOMAIN computeOps = 1 .. Len(computeOps)
  /\ \A i \in 1 .. Len(computeOps) :
       /\ computeOps[i] \in Ops /\ computeOps[i] \in Range(computeOps)
       /\ Position(computeOps[i]) = i
  /\ Len(Nests) = Len(computeOps) /\ Nests \in Seq(Seq(LoopNames))
  /\ \A i \in 1 .. Len(computeOps) :
       Nests[i] = Names(loops[computeOps[i]]) /\ Bodies[i] = body[computeOps[i]]

BodiesTyped == body \in [Ops -> Seq(Tokens)]

(* Every operation has a place, and its nest and its body are there.        *)
LEMMA OpsArePlaced == IInv => Placed
<1> SUFFICES ASSUME IInv PROVE Placed
  BY Zenon
<1>1. DOMAIN computeOps = 1 .. Len(computeOps)
  BY Positions, Zenon
<1>2. \A i \in 1 .. Len(computeOps) : Bodies[i] = body[computeOps[i]]
  BY <1>1, Zenon DEF Bodies
<1>3. QED
  BY <1>1, <1>2, Positions, NestsOfProgram, Zenon DEF Placed

(* The second one of two fused neighbours leaves the sequence.              *)
LEMMA FusedOps ==
  ASSUME IInv, NEW first \in Range(computeOps), NEW second \in Range(computeOps),
         Position(second) = Position(first) + 1, Fuse(first, second)
  PROVE  /\ Len(computeOps') = Len(computeOps) - 1
         /\ \A k \in 1 .. Len(computeOps) - 1 :
              /\ k <= Position(first) => computeOps'[k] = computeOps[k]
              /\ k > Position(first) => computeOps'[k] = computeOps[k + 1]
         /\ Range(computeOps') = Range(computeOps) \ {second}
<1>1. PICK n \in 1 .. Len(computeOps), j \in Int :
        n = Position(second) /\ j = Position(first) /\ n = j + 1 /\ computeOps[n] = second
  <2>1. /\ Position(first) \in 1 .. Len(computeOps) /\ Position(second) \in 1 .. Len(computeOps)
        /\ computeOps[Position(second)] = second
    BY Positions, Zenon
  <2>2. QED
    BY <2>1
<1>2. computeOps' = SubSeq(computeOps, 1, n - 1) \o SubSeq(computeOps, n + 1, Len(computeOps))
  BY <1>1, Zenon DEF Fuse
<1>3. n - 1 + 2 = n + 1
  BY <1>1
<1>4. computeOps' = WithoutElement(computeOps, n - 1)
  BY <1>2, <1>3, Zenon DEF WithoutElement
<1>5. computeOps \in Seq(Ops) /\ \A i, k \in DOMAIN computeOps : computeOps[i] = computeOps[k] => i = k
  BY Zenon DEF IInv, TypeOK
<1>6. /\ Len(WithoutElement(computeOps, n - 1)) = Len(computeOps) - 1
      /\ \A k \in 1 .. Len(computeOps) - 1 : WithoutElement(computeOps, n - 1)[k] =
            IF k < n THEN computeOps[k] ELSE computeOps[k + 1]
  BY <1>5, RemoveAtDistinct, ZenonT(40)
<1>7. Range(WithoutElement(computeOps, n - 1)) = Range(computeOps) \ {second}
  BY <1>1, <1>5, RemoveAtDistinct
<1>8. \A k \in 1 .. Len(computeOps) - 1 : (k <= j => k < n) /\ (k > j => ~ (k < n))
  BY <1>1
<1>9. QED
  BY <1>1, <1>4, <1>6, <1>7, <1>8, Zenon

(* Fusing two neighbours keeps the code.                                    *)
LEMMA FuseKeepsCode ==
  ASSUME IInv, IInv', BodiesTyped,
         NEW first \in Range(computeOps), NEW second \in Range(computeOps),
         Position(second) = Position(first) + 1,
         Names(loops[first]) = Names(loops[second]),
         Fuse(first, second)
  PROVE  BodiesTyped' /\ Code(Nests', Bodies') = Code(Nests, Bodies)
<1>1. Placed
  BY OpsArePlaced, Zenon
<1>2. Placed'
  <2>1. IInv' => Placed'
    BY OpsArePlaced, PTL
  <2>2. QED
    BY <2>1, Zenon
<1>3. PICK m \in Nat, j \in Int : m = Len(computeOps) /\ j = Position(first)
  <2>1. Position(first) \in 1 .. Len(computeOps) /\ Len(computeOps) \in Nat
    BY Positions, Zenon
  <2>2. QED
    BY <2>1
<1>4. /\ j \in 1 .. m /\ j + 1 \in 1 .. m /\ Position(second) = j + 1
      /\ computeOps[j] = first /\ computeOps[j + 1] = second
      /\ first \in Ops /\ second \in Ops
  BY <1>3, Positions, Zenon
<1>5. j \in 1 .. m - 1 /\ m - 1 \in Nat /\ j <= j /\ j >= j /\ ~ (j < j)
  BY <1>4
<1>6. /\ Len(computeOps') = m - 1
      /\ \A k \in 1 .. m - 1 :
           /\ k <= j => computeOps'[k] = computeOps[k]
           /\ k > j => computeOps'[k] = computeOps[k + 1]
  BY <1>3, FusedOps, Zenon
<1>7. /\ loops' = loops
      /\ body' = [body EXCEPT ![first] = body[first] \o body[second]]
  BY Zenon DEF Fuse
<1>8. body[first] \in Seq(Tokens) /\ body[second] \in Seq(Tokens)
  BY <1>4, Zenon DEF BodiesTyped
<1>9. body[first] \o body[second] \in Seq(Tokens)
  BY <1>8, ConcatProperties, Zenon
<1>10. body' \in [Ops -> Seq(Tokens)]
  BY <1>7, <1>9, Zenon DEF BodiesTyped
<1>11. /\ body'[first] = body[first] \o body[second]
       /\ \A x \in Ops : x # first => body'[x] = body[x]
  BY <1>4, <1>7, Zenon DEF BodiesTyped
<1>12. PICK nests, bodies, nests2, bodies2 :
         nests = Nests /\ bodies = Bodies /\ nests2 = Nests' /\ bodies2 = Bodies'
  BY Zenon
<1>13. /\ nests \in Seq(Seq(LoopNames)) /\ Len(nests) = m
       /\ \A i \in 1 .. m : /\ nests[i] = Names(loops[computeOps[i]])
                            /\ bodies[i] = body[computeOps[i]]
                            /\ computeOps[i] \in Ops /\ Position(computeOps[i]) = i
  BY <1>1, <1>3, <1>12, Zenon DEF Placed
<1>14. /\ nests2 \in Seq(Seq(LoopNames)) /\ Len(nests2) = m - 1
       /\ \A i \in 1 .. m - 1 : /\ nests2[i] = Names(loops[computeOps'[i]])
                                /\ bodies2[i] = body'[computeOps'[i]]
                                /\ computeOps'[i] \in Ops
  <2>1. /\ Nests' \in Seq(Seq(LoopNames)) /\ Len(Nests') = Len(computeOps')
        /\ \A i \in 1 .. Len(computeOps') :
             /\ Nests'[i] = (Names(loops[computeOps[i]]))'
             /\ Bodies'[i] = body'[computeOps'[i]]
             /\ computeOps'[i] \in Ops
    BY <1>2, Zenon DEF Placed
  <2>2. \A i : (Names(loops[computeOps[i]]))' = Names(loops[computeOps'[i]])
    BY <1>7, Zenon DEF Names
  <2>3. QED
    BY <1>6, <1>12, <2>1, <2>2, Zenon
<1>15. AreOperations(nests, bodies)
  BY <1>13, Zenon DEF AreOperations, BodiesTyped
<1>16. AreOperations(nests2, bodies2)
  BY <1>10, <1>14, Zenon DEF AreOperations
<1>17. IsFusion(nests, bodies, nests2, bodies2, j)
  <2>1. Len(nests) = Len(nests2) + 1 /\ j \in 1 .. Len(nests2)
    BY <1>5, <1>13, <1>14
  <2>2. ASSUME NEW k \in 1 .. m - 1
        PROVE  /\ k <= j => nests2[k] = nests[k]
               /\ k >= j => nests2[k] = nests[k + 1]
               /\ k < j => bodies2[k] = bodies[k]
               /\ k > j => bodies2[k] = bodies[k + 1]
    <3>1. k \in 1 .. m /\ k + 1 \in 1 .. m /\ (k < j => k # j /\ k <= j) /\ (k > j => k + 1 # j)
      BY <1>4
    <3>2. k >= j => k = j \/ k > j
      BY <1>4
    <3>3. ASSUME k <= j PROVE nests2[k] = nests[k]
      <4>1. computeOps'[k] = computeOps[k]
        BY <1>6, <3>3, Zenon
      <4>2. QED
        BY <1>13, <1>14, <3>1, <4>1, Zenon
    <3>4. ASSUME k > j PROVE nests2[k] = nests[k + 1]
      <4>1. computeOps'[k] = computeOps[k + 1]
        BY <1>6, <3>4, Zenon
      <4>2. QED
        BY <1>13, <1>14, <3>1, <4>1, Zenon
    <3>5. k = j => nests2[k] = nests[k + 1]
      BY <1>4, <1>5, <1>13, <3>1, <3>3, Zenon
    <3>6. ASSUME k < j PROVE bodies2[k] = bodies[k]
      <4>1. computeOps'[k] = computeOps[k]
        BY <1>6, <3>1, <3>6, Zenon
      <4>2. computeOps[k] # first /\ computeOps[k] \in Ops
        BY <1>3, <1>13, <3>1, <3>6, Zenon
      <4>3. QED
        BY <1>11, <1>13, <1>14, <3>1, <4>1, <4>2, Zenon
    <3>7. ASSUME k > j PROVE bodies2[k] = bodies[k + 1]
      <4>1. computeOps'[k] = computeOps[k + 1]
        BY <1>6, <3>7, Zenon
      <4>2. computeOps[k + 1] # first /\ computeOps[k + 1] \in Ops
        BY <1>3, <1>13, <3>1, <3>7, Zenon
      <4>3. QED
        BY <1>11, <1>13, <1>14, <3>1, <4>1, <4>2, Zenon
    <3>8. QED
      BY <3>2, <3>3, <3>4, <3>5, <3>6, <3>7, Zenon
  <2>3. bodies2[j] = bodies[j] \o bodies[j + 1]
    BY <1>4, <1>5, <1>6, <1>11, <1>13, <1>14, ZenonT(40)
  <2>4. QED
    BY <1>14, <2>1, <2>2, <2>3, Zenon DEF IsFusion
<1>18. IsSameCode(nests2, bodies2, nests, bodies)
  BY <1>15, <1>16, <1>17, FusedCode, Zenon
<1>19. QED
  BY <1>10, <1>12, <1>18, Zenon DEF BodiesTyped, IsSameCode

(* Introducing the innermost loop of an operation keeps the code.           *)
LEMMA IntroduceLoopKeepsCode ==
  ASSUME IInv, IInv', BodiesTyped, IntroduceLoop
  PROVE  BodiesTyped' /\ Code(Nests', Bodies') = Code(Nests, Bodies)
<1>1. Placed
  BY OpsArePlaced, Zenon
<1>2. Placed'
  <2>1. IInv' => Placed'
    BY OpsArePlaced, PTL
  <2>2. QED
    BY <2>1, Zenon
<1>3. PICK op \in Range(computeOps), m \in Nat, j \in 1 .. Len(computeOps) :
        op = Popped /\ m = Len(computeOps) /\ j = Position(op)
  <2>1. Popped \in Range(computeOps)
    BY PoppedOp, Zenon DEF IntroduceLoop, Running
  <2>2. QED
    BY <2>1, Positions, Zenon
<1>4. op \in Ops /\ j \in 1 .. m /\ computeOps[j] = op /\ computeOps' = computeOps
  BY <1>3, Positions, Zenon DEF IntroduceLoop
<1>5. /\ Lowers(op)
      /\ loops' = [loops EXCEPT ![op] = EraseInnermost(@)]
      /\ body' = [body EXCEPT ![op] = InLoop(op)]
  BY <1>3, Zenon DEF IntroduceLoop
<1>6. PICK nest \in Seq(LoopAttrs) : nest = loops[op] /\ nest # <<>>
  BY <1>4, <1>5, Zenon DEF IInv, Lowers
<1>7. PICK d \in Nat \ {0} : d = Len(nest) /\ DOMAIN nest = 1 .. d /\ d \in 1 .. d
  BY <1>6, EmptySeq
<1>8. /\ loops'[op] = EraseInnermost(nest)
      /\ \A x \in Ops : x # op => loops'[x] = loops[x]
  BY <1>4, <1>5, <1>6, Zenon DEF IInv
<1>9. /\ EraseInnermost(nest) \in Seq(LoopAttrs) /\ Len(EraseInnermost(nest)) = d - 1
      /\ \A k \in 1 .. d - 1 : EraseInnermost(nest)[k] = nest[k]
  <2>1. \A k \in DOMAIN nest : nest[k].iter = k - 1
    BY <1>4, <1>6, Zenon DEF IInv
  <2>2. QED
    BY <1>6, <1>7, <2>1, ErasedNest, Zenon
<1>10. /\ Names(nest) \in Seq(LoopNames) /\ Len(Names(nest)) = d
       /\ \A k \in 1 .. d : Names(nest)[k] = nest[k].name
  BY <1>7, NamesOfNest, Zenon
<1>11. /\ Len(Names(loops'[op])) = d - 1
       /\ \A k \in 1 .. d - 1 : Names(loops'[op])[k] = nest[k].name
  <2>1. /\ Len(Names(EraseInnermost(nest))) = d - 1
        /\ \A k \in 1 .. d - 1 : Names(EraseInnermost(nest))[k] = EraseInnermost(nest)[k].name
    BY <1>9, NamesOfNest, Zenon
  <2>2. QED
    BY <1>8, <1>9, <2>1, Zenon
<1>12. PICK name \in LoopNames : name = nest[d].name
  <2>1. Names(nest)[d] \in LoopNames
    BY <1>7, <1>10, ElementOfSeq, Zenon
  <2>2. QED
    BY <1>7, <1>10, <2>1, Zenon
<1>13. InLoop(op) = (<<For(name)>> \o body[op]) \o <<End(name)>>
  BY <1>6, <1>7, <1>12, Zenon DEF InLoop
<1>14. InLoop(op) \in Seq(Tokens)
  <2>1. For(name) \in Tokens /\ End(name) \in Tokens /\ body[op] \in Seq(Tokens)
    BY <1>4, Zenon DEF Tokens, BodiesTyped
  <2>2. <<For(name)>> \in Seq(Tokens) /\ <<End(name)>> \in Seq(Tokens)
    BY <2>1
  <2>3. <<For(name)>> \o body[op] \in Seq(Tokens)
    BY <2>1, <2>2, ConcatProperties, Zenon
  <2>4. QED
    BY <1>13, <2>2, <2>3, ConcatProperties, ZenonT(40)
<1>15. body' \in [Ops -> Seq(Tokens)]
  BY <1>5, <1>14, Zenon DEF BodiesTyped
<1>16. body'[op] = InLoop(op) /\ \A x \in Ops : x # op => body'[x] = body[x]
  BY <1>4, <1>5, Zenon DEF BodiesTyped
<1>17. PICK nests, bodies, nests2, bodies2 :
         nests = Nests /\ bodies = Bodies /\ nests2 = Nests' /\ bodies2 = Bodies'
  BY Zenon
<1>18. /\ nests \in Seq(Seq(LoopNames)) /\ Len(nests) = m
       /\ \A i \in 1 .. m : /\ nests[i] = Names(loops[computeOps[i]])
                            /\ bodies[i] = body[computeOps[i]]
                            /\ computeOps[i] \in Ops /\ computeOps[i] \in Range(computeOps)
                            /\ Position(computeOps[i]) = i
  BY <1>1, <1>3, <1>17, Zenon DEF Placed
<1>19. /\ nests2 \in Seq(Seq(LoopNames)) /\ Len(nests2) = m
       /\ \A i \in 1 .. m : /\ nests2[i] = Names(loops'[computeOps[i]])
                            /\ bodies2[i] = body'[computeOps[i]]
  <2>1. /\ Nests' \in Seq(Seq(LoopNames)) /\ Len(Nests') = Len(computeOps')
        /\ \A i \in 1 .. Len(computeOps') :
             /\ Nests'[i] = (Names(loops[computeOps[i]]))'
             /\ Bodies'[i] = body'[computeOps'[i]]
    BY <1>2, Zenon DEF Placed
  <2>2. \A i : (Names(loops[computeOps[i]]))' = Names(loops'[computeOps[i]])
    BY <1>4, Zenon DEF Names
  <2>3. QED
    BY <1>3, <1>4, <1>17, <2>1, <2>2, Zenon
<1>20. AreOperations(nests, bodies)
  BY <1>18, Zenon DEF AreOperations, BodiesTyped
<1>21. AreOperations(nests2, bodies2)
  BY <1>15, <1>18, <1>19, Zenon DEF AreOperations
<1>22. IsLowering(nests, bodies, nests2, bodies2, j)
  <2>1. /\ nests[j] = Names(nest) /\ nests2[j] = Names(loops'[op])
        /\ bodies[j] = body[op] /\ bodies2[j] = body'[op]
    BY <1>3, <1>4, <1>6, <1>18, <1>19, Zenon
  <2>2. Len(nests[j]) = d /\ nests[j][d] = name /\ Len(nests2[j]) = d - 1
    BY <1>7, <1>10, <1>11, <1>12, <2>1, Zenon
  <2>3. \A k \in 1 .. d - 1 : nests2[j][k] = nests[j][k]
    <3>1. \A k \in 1 .. d - 1 : k \in 1 .. d
      OBVIOUS
    <3>2. QED
      BY <1>10, <1>11, <2>1, <3>1, Zenon
  <2>4. bodies2[j] = (<<For(name)>> \o bodies[j]) \o <<End(name)>>
    BY <1>13, <1>16, <2>1, Zenon
  <2>5. ASSUME NEW k \in 1 .. m, k # j
        PROVE  /\ nests2[k] = nests[k] /\ bodies2[k] = bodies[k]
               /\ ~ SharesLoops(nests[j], nests[k], d)
    <3>1. PICK x \in Ops : x = computeOps[k] /\ x # op /\ x \in Range(computeOps)
      BY <1>3, <1>18, <2>5, Zenon
    <3>2. nests2[k] = nests[k] /\ bodies2[k] = bodies[k]
      <4>1. loops'[x] = loops[x] /\ body'[x] = body[x]
        BY <1>8, <1>16, <3>1, Zenon
      <4>2. /\ nests[k] = Names(loops[x]) /\ nests2[k] = Names(loops'[x])
            /\ bodies[k] = body[x] /\ bodies2[k] = body'[x]
        BY <1>18, <1>19, <3>1, Zenon
      <4>3. QED
        BY <4>1, <4>2, Zenon
    <3>3. ASSUME SharesLoops(nests[j], nests[k], d)
          PROVE  FALSE
      <4>1. d <= Len(nests[k]) /\ nests[j][d] = nests[k][d]
        BY <1>7, <3>3, Zenon DEF SharesLoops
      <4>2. loops[x] \in Seq(LoopAttrs)
        BY <3>1, Zenon DEF IInv
      <4>3. /\ Len(nests[k]) = Len(loops[x])
            /\ \A q \in DOMAIN loops[x] : nests[k][q] = loops[x][q].name
        <5>1. nests[k] = Names(loops[x])
          BY <1>18, <3>1, Zenon
        <5>2. QED
          BY <4>2, <5>1, NamesOfNest, Zenon
      <4>4. d \in DOMAIN loops[x]
        BY <4>1, <4>2, <4>3
      <4>5. loops[x][d].name # nest[d].name
        BY <1>5, <1>6, <1>7, <3>1, <4>4, OnlyOpOfLoop, Zenon
      <4>6. QED
        BY <1>12, <2>2, <4>1, <4>3, <4>4, <4>5, Zenon
    <3>4. QED
      BY <3>2, <3>3, Zenon
  <2>6. /\ Len(nests[j]) \in Nat \ {0} /\ Len(nests2[j]) = Len(nests[j]) - 1
        /\ \A k \in 1 .. Len(nests[j]) - 1 : nests2[j][k] = nests[j][k]
    BY <2>2, <2>3, Zenon
  <2>7. bodies2[j] = (<<For(nests[j][Len(nests[j])])>> \o bodies[j])
                        \o <<End(nests[j][Len(nests[j])])>>
    BY <2>2, <2>4, Zenon
  <2>8. \A k \in 1 .. Len(nests) : k # j =>
          /\ nests2[k] = nests[k] /\ bodies2[k] = bodies[k]
          /\ ~ SharesLoops(nests[j], nests[k], Len(nests[j]))
    BY <1>18, <2>2, <2>5, Zenon
  <2>9. Len(nests2) = Len(nests) /\ j \in 1 .. Len(nests)
    BY <1>4, <1>18, <1>19, Zenon
  <2>10. QED
    BY <2>6, <2>7, <2>8, <2>9, Zenon DEF IsLowering
<1>23. IsSameCode(nests2, bodies2, nests, bodies)
  BY <1>20, <1>21, <1>22, LoweredCode, Zenon
<1>24. QED
  BY <1>15, <1>17, <1>23, Zenon DEF BodiesTyped, IsSameCode

(* The code that the program asks for.                                      *)
AskedCode ==
  Code([i \in DOMAIN program.order |-> Names(program.nests[program.order[i]])],
       [i \in DOMAIN program.order |-> <<Statement(program.order[i])>>])

CodeInv ==
  /\ BodiesTyped
  /\ Code(Nests, Bodies) = AskedCode
  /\ phase = "done" => mapOps = <<>>

(* It is the code of the program at first.                                  *)
LEMMA CodeAtFirst ==
  ASSUME Init
  PROVE  CodeInv
<1>1. /\ computeOps = program.order /\ loops = program.nests
      /\ body = [op \in Ops |-> <<Statement(op)>>] /\ phase = "register"
      /\ program \in Programs
  BY Zenon DEF Init
<1>2. \A i \in DOMAIN program.order : program.order[i] \in Ops
  <2>1. program.order \in Seq(Ops)
    BY <1>1, OpsAssumption, Zenon
  <2>2. QED
    BY <2>1
<1>3. Nests = [i \in DOMAIN program.order |-> Names(program.nests[program.order[i]])]
  BY <1>1, Zenon DEF Nests
<1>4. Bodies = [i \in DOMAIN program.order |-> <<Statement(program.order[i])>>]
  BY <1>1, <1>2, Zenon DEF Bodies
<1>5. BodiesTyped
  <2>1. \A op \in Ops : Statement(op) \in Tokens
    BY Zenon DEF Tokens
  <2>2. \A op \in Ops : <<Statement(op)>> \in Seq(Tokens)
    BY <2>1
  <2>3. QED
    BY <1>1, <2>2, Zenon DEF BodiesTyped
<1>6. phase # "done"
  BY <1>1
<1>7. QED
  BY <1>3, <1>4, <1>5, <1>6, Zenon DEF CodeInv, AskedCode

(* Every step keeps it: the operations that are fused are next to each      *)
(* other and in the same loops, a loop that is introduced holds a single    *)
(* operation.                                                               *)
LEMMA NextKeepsCode ==
  ASSUME IInv, IInv', CodeInv, [Next]_vars
  PROVE  CodeInv'
<1>1. BodiesTyped /\ Code(Nests, Bodies) = AskedCode /\ (phase = "done" => mapOps = <<>>)
  BY Zenon DEF CodeInv
<1>2. ASSUME UNCHANGED <<program, computeOps, loops, body>>, phase' = "done" => mapOps' = <<>>
      PROVE  CodeInv'
  <2>1. Nests' = Nests /\ Bodies' = Bodies /\ BodiesTyped' /\ AskedCode' = AskedCode
    BY <1>1, <1>2, Zenon DEF Nests, Bodies, Names, BodiesTyped, AskedCode
  <2>2. QED
    BY <1>1, <1>2, <2>1, Zenon DEF CodeInv
<1>3. ASSUME program' = program, phase' = phase, phase = "run",
             BodiesTyped' /\ Code(Nests', Bodies') = Code(Nests, Bodies)
      PROVE  CodeInv'
  <2>1. phase' # "done"
    BY <1>3
  <2>2. AskedCode' = AskedCode
    BY <1>3, Zenon DEF AskedCode, Names
  <2>3. QED
    BY <1>1, <1>3, <2>1, <2>2, Zenon DEF CodeInv
<1>4. CASE Register
  <2>1. UNCHANGED <<program, computeOps, loops, body>> /\ phase' \in {"run", "failed"}
    BY <1>4, Zenon DEF Register
  <2>2. phase' # "done"
    BY <2>1
  <2>3. QED
    BY <1>2, <2>1, <2>2, Zenon
<1>5. CASE Drop
  <2>1. UNCHANGED <<program, computeOps, loops, body>> /\ phase' = phase /\ phase = "run"
    BY <1>5, Zenon DEF Drop, Running
  <2>2. phase' # "done"
    BY <2>1
  <2>3. QED
    BY <1>2, <2>1, <2>2, Zenon
<1>6. CASE FuseWithPrev
  <2>1. /\ mapOps # <<>> /\ FusesWithPrev(Popped) /\ Fuse(PrevOp(Popped), Popped)
        /\ phase = "run"
    BY <1>6, Zenon DEF FuseWithPrev, Running
  <2>2. Popped \in Range(computeOps)
    BY <2>1, PoppedOp, Zenon
  <2>3. PrevOp(Popped) # NullOp /\ CanFuse(loops[PrevOp(Popped)], loops[Popped])
    BY <2>1, Zenon DEF FusesWithPrev
  <2>4. /\ PrevOp(Popped) \in Range(computeOps)
        /\ Position(PrevOp(Popped)) = Position(Popped) - 1
    BY <2>2, <2>3, Neighbors, Zenon
  <2>5. Position(Popped) = Position(PrevOp(Popped)) + 1
    BY <2>2, <2>4, Positions
  <2>6. Names(loops[PrevOp(Popped)]) = Names(loops[Popped])
    BY <2>2, <2>3, <2>4, FusedLoops, Zenon
  <2>7. BodiesTyped' /\ Code(Nests', Bodies') = Code(Nests, Bodies)
    BY <1>1, <2>1, <2>2, <2>4, <2>5, <2>6, FuseKeepsCode, Zenon
  <2>8. program' = program /\ phase' = phase
    BY <2>1, Zenon DEF Fuse
  <2>9. QED
    BY <1>3, <2>1, <2>7, <2>8, Zenon
<1>7. CASE FuseWithNext
  <2>1. /\ mapOps # <<>> /\ FusesWithNext(Popped) /\ Fuse(Popped, NextOp(Popped))
        /\ phase = "run"
    BY <1>7, Zenon DEF FuseWithNext, Running
  <2>2. Popped \in Range(computeOps)
    BY <2>1, PoppedOp, Zenon
  <2>3. NextOp(Popped) # NullOp /\ CanFuse(loops[Popped], loops[NextOp(Popped)])
    BY <2>1, Zenon DEF FusesWithNext
  <2>4. /\ NextOp(Popped) \in Range(computeOps)
        /\ Position(NextOp(Popped)) = Position(Popped) + 1
    BY <2>2, <2>3, Neighbors, Zenon
  <2>5. Names(loops[Popped]) = Names(loops[NextOp(Popped)])
    BY <2>2, <2>3, <2>4, FusedLoops, Zenon
  <2>6. BodiesTyped' /\ Code(Nests', Bodies') = Code(Nests, Bodies)
    BY <1>1, <2>1, <2>2, <2>4, <2>5, FuseKeepsCode, Zenon
  <2>7. program' = program /\ phase' = phase
    BY <2>1, Zenon DEF Fuse
  <2>8. QED
    BY <1>3, <2>1, <2>6, <2>7, Zenon
<1>8. CASE IntroduceLoop
  <2>1. BodiesTyped' /\ Code(Nests', Bodies') = Code(Nests, Bodies)
    BY <1>1, <1>8, IntroduceLoopKeepsCode, Zenon
  <2>2. program' = program /\ phase' = phase /\ phase = "run"
    BY <1>8, Zenon DEF IntroduceLoop, Running
  <2>3. QED
    BY <1>3, <2>1, <2>2, Zenon
<1>9. CASE Reject
  <2>1. UNCHANGED <<program, computeOps, loops, body>> /\ phase' = "failed"
    BY <1>9, Zenon DEF Reject
  <2>2. phase' # "done"
    BY <2>1
  <2>3. QED
    BY <1>2, <2>1, <2>2, Zenon
<1>10. CASE Finish
  <2>1. UNCHANGED <<program, computeOps, loops, body>> /\ mapOps' = <<>>
    BY <1>10, Zenon DEF Finish
  <2>2. QED
    BY <1>2, <2>1, Zenon
<1>11. CASE UNCHANGED vars
  <2>1. UNCHANGED <<program, computeOps, loops, body>> /\ mapOps' = mapOps /\ phase' = phase
    BY <1>11, Zenon DEF vars
  <2>2. QED
    BY <1>1, <1>2, <2>1, Zenon
<1>12. QED
  BY <1>4, <1>5, <1>6, <1>7, <1>8, <1>9, <1>10, <1>11, Zenon DEF Next

-----------------------------------------------------------------------------
(* The work list.                                                          *)

(* A nest that starts another one which it does not fuse with is shorter.   *)
LEMMA PrefixOrFuses ==
  ASSUME NEW a \in Seq(LoopAttrs), NEW b \in Seq(LoopAttrs),
         IsNestPrefix(a, b), ~ CanFuse(a, b) \/ ~ CanFuse(b, a)
  PROVE  Len(a) < Len(b)
<1>1. Len(a) \in Nat /\ Len(b) \in Nat /\ DOMAIN a = 1 .. Len(a)
  OBVIOUS
<1>2. Len(a) <= Len(b) /\ \A k \in 1 .. Len(a) : a[k] = b[k]
  BY <1>1, Zenon DEF IsNestPrefix
<1>3. ~ (a = <<>> /\ b = <<>>)
  BY Zenon DEF CanFuse
<1>4. SUFFICES ASSUME Len(a) = Len(b) PROVE FALSE
  BY <1>1, <1>2
<1>5. a # <<>> /\ b # <<>>
  BY <1>3, <1>4, EmptySeq
<1>6. Len(a) \in 1 .. Len(a)
  BY <1>1, <1>5, EmptySeq
<1>7. a[Len(a)] = b[Len(b)]
  BY <1>2, <1>4, <1>6, Zenon
<1>8. QED
  BY <1>5, <1>7, Zenon DEF CanFuse

(* y is next to op in the sequence.                                         *)
IsNextTo(y, op) ==
  /\ y \in Range(computeOps)
  /\ Position(y) = Position(op) + 1 \/ Position(op) = Position(y) + 1

(* An operation need not be in the work list when it is the only one left   *)
(* and has no loops, or when a neighbour will come back to it: one with     *)
(* more loops, or one in the work list.                                     *)
IsSettled(op) ==
  \/ Len(computeOps) = 1 /\ loops[op] = <<>>
  \/ \E y \in Range(computeOps) :
       /\ IsNextTo(y, op)
       /\ IsNestPrefix(loops[op], loops[y])
       /\ y \in Range(mapOps) \/ Len(loops[op]) < Len(loops[y])

WorkIsQueued ==
  phase \in {"run", "done"} => \A op \in Range(computeOps) \ Range(mapOps) : IsSettled(op)

(* What the code calls neighbours of an operation is next to it.            *)
LEMMA NextToOp ==
  ASSUME IInv, NEW op \in Range(computeOps)
  PROVE  /\ PrevOp(op) # NullOp => IsNextTo(PrevOp(op), op)
         /\ NextOp(op) # NullOp => IsNextTo(NextOp(op), op)
         /\ \A y : IsNextTo(y, op) => y # NullOp /\ (y = PrevOp(op) \/ y = NextOp(op))
<1>1. PICK n \in Nat, i \in 1 .. Len(computeOps) : n = Len(computeOps) /\ i = Position(op)
  BY Positions, Zenon
<1>2. /\ i # 1 => /\ PrevOp(op) = computeOps[i - 1] /\ PrevOp(op) \in Range(computeOps)
                  /\ Position(PrevOp(op)) = i - 1
      /\ i = 1 => PrevOp(op) = NullOp
      /\ i # n => /\ NextOp(op) = computeOps[i + 1] /\ NextOp(op) \in Range(computeOps)
                  /\ Position(NextOp(op)) = i + 1
      /\ i = n => NextOp(op) = NullOp
  BY <1>1, Neighbors, Zenon
<1>3. (i - 1) + 1 = i
  BY <1>1
<1>4. PrevOp(op) # NullOp => IsNextTo(PrevOp(op), op)
  BY <1>1, <1>2, <1>3, Zenon DEF IsNextTo
<1>5. NextOp(op) # NullOp => IsNextTo(NextOp(op), op)
  BY <1>1, <1>2, Zenon DEF IsNextTo
<1>6. ASSUME NEW y, IsNextTo(y, op)
      PROVE  y # NullOp /\ (y = PrevOp(op) \/ y = NextOp(op))
  <2>1. y \in Range(computeOps) /\ (Position(y) = i + 1 \/ i = Position(y) + 1)
    BY <1>1, <1>6, Zenon DEF IsNextTo
  <2>2. Position(y) \in 1 .. n /\ computeOps[Position(y)] = y /\ y \in Ops
    BY <1>1, <2>1, Positions, Zenon
  <2>3. (Position(y) = i + 1 /\ i # n) \/ (Position(y) = i - 1 /\ i # 1)
    BY <1>1, <2>1, <2>2
  <2>4. y # NullOp
    BY <2>2, OpsAssumption, Zenon
  <2>5. QED
    BY <1>2, <2>2, <2>3, <2>4, Zenon
<1>7. QED
  BY <1>4, <1>5, <1>6, Zenon

(* Of two operations next to each other of which one does not fuse with     *)
(* its neighbours, the outer one has less loops.                            *)
LEMMA NeighbourIsDeeper ==
  ASSUME IInv, NEW op \in Range(computeOps), ~ FusesWithPrev(op), ~ FusesWithNext(op),
         NEW y, IsNextTo(y, op)
  PROVE  /\ IsNestPrefix(loops[op], loops[y]) => Len(loops[op]) < Len(loops[y])
         /\ IsNestPrefix(loops[y], loops[op]) => Len(loops[y]) < Len(loops[op])
<1>1. y # NullOp /\ (y = PrevOp(op) \/ y = NextOp(op))
  BY NextToOp
<1>2. ~ CanFuse(loops[op], loops[y]) \/ ~ CanFuse(loops[y], loops[op])
  BY <1>1 DEF FusesWithPrev, FusesWithNext
<1>3. y \in Ops /\ op \in Ops
  BY Positions, Zenon DEF IsNextTo
<1>4. loops[op] \in Seq(LoopAttrs) /\ loops[y] \in Seq(LoopAttrs)
  BY <1>3, Zenon DEF IInv
<1>5. QED
  BY <1>2, <1>4, PrefixOrFuses, Zenon

(* An operation that is dropped from the work list is settled, and so are   *)
(* those that it was to come back to.                                       *)
LEMMA DropKeepsQueue ==
  ASSUME IInv, WorkIsQueued, Drop
  PROVE  WorkIsQueued'
<1>1. /\ phase = "run" /\ mapOps # <<>> /\ ~ FusesWithPrev(Popped) /\ ~ FusesWithNext(Popped)
      /\ loops[Popped] = <<>> \/ WaitsForNeighbor(Popped)
      /\ mapOps' = Tail(mapOps) /\ computeOps' = computeOps /\ loops' = loops
  BY Zenon DEF Drop, Running
<1>2. PICK op \in Range(computeOps) : op = Popped
  BY <1>1, PoppedOp, Zenon
<1>3. Range(mapOps) \subseteq Range(mapOps') \union {op}
  BY <1>1, <1>2, PoppedOp, Zenon
<1>4. SUFFICES ASSUME NEW x \in Range(computeOps), x \notin Range(mapOps')
               PROVE  IsSettled(x)'
  BY <1>1, Zenon DEF WorkIsQueued
<1>5. \A y, z : IsNextTo(y, z)' <=> IsNextTo(y, z)
  BY <1>1, Zenon DEF IsNextTo, Position
<1>6. SUFFICES \/ Len(computeOps) = 1 /\ loops[x] = <<>>
               \/ \E y \in Range(computeOps) :
                    /\ IsNextTo(y, x) /\ IsNestPrefix(loops[x], loops[y])
                    /\ y \in Range(mapOps') \/ Len(loops[x]) < Len(loops[y])
  BY <1>1, <1>5, Zenon DEF IsSettled, IsNestPrefix
<1>7. CASE x # op
  <2>1. IsSettled(x)
    <3>1. phase \in {"run", "done"}
      BY <1>1
    <3>2. QED
      BY <1>3, <1>4, <1>7, <3>1, Zenon DEF WorkIsQueued
  <2>2. ASSUME NEW y \in Range(computeOps), IsNextTo(y, x), IsNestPrefix(loops[x], loops[y]),
               y \in Range(mapOps) \/ Len(loops[x]) < Len(loops[y])
        PROVE  y \in Range(mapOps') \/ Len(loops[x]) < Len(loops[y])
    <3>1. CASE y # op
      BY <1>3, <2>2, <3>1, Zenon
    <3>2. CASE y = op
      <4>1. IsNextTo(x, op)
        BY <2>2, <3>2, Zenon DEF IsNextTo
      <4>2. QED
        BY <1>1, <1>2, <2>2, <3>2, <4>1, NeighbourIsDeeper, Zenon
    <3>3. QED
      BY <3>1, <3>2, Zenon
  <2>3. QED
    BY <2>1, <2>2, Zenon DEF IsSettled
<1>8. CASE x = op
  <2>1. CASE WaitsForNeighbor(op)
    <3>1. PICK y : IsNextTo(y, op) /\ IsNestPrefix(loops[op], loops[y])
      BY <2>1, NextToOp, Zenon DEF WaitsForNeighbor
    <3>2. y \in Range(computeOps) /\ Len(loops[op]) < Len(loops[y])
      BY <1>1, <1>2, <3>1, NeighbourIsDeeper, Zenon DEF IsNextTo
    <3>3. QED
      BY <1>8, <3>1, <3>2, Zenon
  <2>2. CASE ~ WaitsForNeighbor(op)
    <3>1. loops[op] = <<>>
      BY <1>1, <1>2, <2>2, Zenon
    <3>2. ASSUME Len(computeOps) # 1 PROVE FALSE
      <4>1. PICK i \in 1 .. Len(computeOps), n \in Nat : i = Position(op) /\ n = Len(computeOps)
        BY Positions, Zenon
      <4>2. i # 1 \/ i # n
        BY <3>2, <4>1
      <4>3. PICK y : y # NullOp /\ y \in Range(computeOps) /\ (y = PrevOp(op) \/ y = NextOp(op))
        BY <4>1, <4>2, Neighbors, Zenon
      <4>4. loops[y] \in Seq(LoopAttrs)
        BY <4>3, Positions, Zenon DEF IInv
      <4>5. IsNestPrefix(loops[op], loops[y])
        BY <3>1, <4>4 DEF IsNestPrefix
      <4>6. QED
        BY <2>2, <4>3, <4>5 DEF WaitsForNeighbor
    <3>3. QED
      BY <1>8, <3>1, <3>2, Zenon
  <2>3. QED
    BY <2>1, <2>2, Zenon
<1>9. QED
  BY <1>7, <1>8, Zenon

(* Fused neighbours are in the same loops, so who waits for the second one  *)
(* can wait for the first one, which is queued.                             *)
LEMMA FuseKeepsQueue ==
  ASSUME IInv, IInv', WorkIsQueued, phase = "run", mapOps # <<>>,
         NEW first \in Range(computeOps), NEW second \in Range(computeOps),
         Popped \in {first, second},
         Position(second) = Position(first) + 1,
         Names(loops[first]) = Names(loops[second]),
         Fuse(first, second)
  PROVE  WorkIsQueued'
<1>1. PICK m \in Nat, j \in 1 .. Len(computeOps) :
        /\ m = Len(computeOps) /\ j = Position(first) /\ Position(second) = j + 1
        /\ j \in 1 .. m /\ j + 1 \in 1 .. m
  BY Positions, Zenon
<1>2. /\ Len(computeOps') = m - 1
      /\ \A k \in 1 .. m - 1 : /\ k <= j => computeOps'[k] = computeOps[k]
                               /\ k > j => computeOps'[k] = computeOps[k + 1]
      /\ Range(computeOps') = Range(computeOps) \ {second}
  BY <1>1, FusedOps, Zenon
<1>3. loops' = loops /\ phase' = phase
  BY Zenon DEF Fuse
<1>4. first # second /\ first \in Ops /\ second \in Ops
  BY <1>1, Positions
<1>5. /\ Range(mapOps) \ {second} \subseteq Range(mapOps')
      /\ first \in Range(mapOps')
  <2> DEFINE added == ({first} \union Readers(first) \union Producers(first)
                         \union Readers(second) \union Producers(second)) \ {second}
  <2>1. Readers(first) \union Producers(first) \union Readers(second) \union Producers(second)
          \subseteq Range(computeOps)
    BY Zenon DEF IInv, Readers, Producers
  <2>2. added \subseteq Range(computeOps') /\ first \in added
    BY <1>2, <1>4, <2>1, Zenon
  <2>3. mapOps' \in Queues(Tail(mapOps), {first, second}, added, computeOps')
    BY Zenon DEF Fuse
  <2> HIDE DEF added
  <2>4. /\ IsListOf(Tail(mapOps), Ops)
        /\ Range(mapOps) \subseteq Range(Tail(mapOps)) \union {first, second}
    BY PoppedOp, Zenon
  <2>5. IsListOf(computeOps', Ops)
    BY Zenon DEF IInv, TypeOK, IsListOf
  <2>6. (Range(Tail(mapOps)) \ {first, second}) \union added \subseteq Range(mapOps')
    BY <2>2, <2>3, <2>4, <2>5, QueuedOps
  <2>7. QED
    BY <2>2, <2>4, <2>6, Zenon
<1>6. ASSUME NEW z \in Range(computeOps), z # second
      PROVE  /\ Position(z) \in 1 .. m /\ Position(z) # j + 1
             /\ Position(z) <= j => Position(z)' = Position(z)
             /\ Position(z) > j => Position(z)' = Position(z) - 1
  <2>1. PICK i \in 1 .. m : i = Position(z) /\ computeOps[i] = z /\ i # j + 1
    <3>1. Position(z) \in 1 .. m /\ computeOps[Position(z)] = z
      BY <1>1, Positions, Zenon
    <3>2. computeOps[j + 1] = second
      BY <1>1, Positions, Zenon
    <3>3. QED
      BY <1>6, <3>1, <3>2, Zenon
  <2>2. \A k \in 1 .. m - 1 : Position(computeOps[k])' = k
    <3>1. IInv' => Placed'
      BY OpsArePlaced, PTL
    <3>2. QED
      BY <1>2, <3>1, Zenon DEF Placed
  <2>3. ASSUME i <= j PROVE Position(z)' = i
    <3>1. i \in 1 .. m - 1
      BY <1>1, <2>3
    <3>2. computeOps'[i] = z
      BY <1>2, <2>1, <2>3, <3>1, Zenon
    <3>3. QED
      BY <2>2, <3>1, <3>2 DEF Position
  <2>4. ASSUME i > j PROVE Position(z)' = i - 1
    <3>1. i - 1 \in 1 .. m - 1 /\ i - 1 > j /\ (i - 1) + 1 = i
      BY <1>1, <2>1, <2>4
    <3>2. PICK k \in 1 .. m - 1 : k = i - 1 /\ k > j /\ k + 1 = i
      BY <3>1, Zenon
    <3>3. computeOps'[k] = z
      BY <1>2, <2>1, <3>2, Zenon
    <3>4. QED
      BY <2>2, <3>2, <3>3 DEF Position
  <2>5. QED
    BY <2>1, <2>3, <2>4, Zenon
<1>7. SUFFICES ASSUME NEW x \in Range(computeOps), x # second, x \notin Range(mapOps')
               PROVE  \E y \in Range(computeOps') :
                        /\ IsNextTo(y, x)' /\ IsNestPrefix(loops[x], loops[y])
                        /\ y \in Range(mapOps') \/ Len(loops[x]) < Len(loops[y])
  BY <1>2, <1>3, Zenon DEF WorkIsQueued, IsSettled, IsNestPrefix
<1>8. x # first /\ x \notin Range(mapOps)
  BY <1>5, <1>7, Zenon
<1>9. PICK y \in Range(computeOps) :
        /\ IsNextTo(y, x) /\ IsNestPrefix(loops[x], loops[y])
        /\ y \in Range(mapOps) \/ Len(loops[x]) < Len(loops[y])
  <2>1. IsSettled(x)
    <3>1. phase \in {"run", "done"}
      OBVIOUS
    <3>2. QED
      BY <1>8, <3>1, Zenon DEF WorkIsQueued
  <2>2. Len(computeOps) # 1
    BY <1>1
  <2>3. QED
    BY <2>1, <2>2, Zenon DEF IsSettled
<1>10. Position(y) = Position(x) + 1 \/ Position(x) = Position(y) + 1
  BY <1>9, Zenon DEF IsNextTo
<1>11. CASE y # second
  <2>1. y \in Range(computeOps')
    BY <1>2, <1>11, Zenon
  <2>2. Position(y)' = Position(x)' + 1 \/ Position(x)' = Position(y)' + 1
    BY <1>1, <1>6, <1>7, <1>10, <1>11
  <2>3. IsNextTo(y, x)'
    BY <2>1, <2>2, Zenon DEF IsNextTo
  <2>4. QED
    BY <1>5, <1>9, <1>11, <2>1, <2>3, Zenon
<1>12. CASE y = second
  <2>1. Position(x) # j
    BY <1>1, <1>8, Positions, Zenon
  <2>2. Position(x)' = j + 1 /\ Position(first)' = j
    BY <1>1, <1>4, <1>6, <1>7, <1>10, <1>12, <2>1
  <2>3. first \in Range(computeOps')
    BY <1>2, <1>4, Zenon
  <2>4. IsNextTo(first, x)'
    BY <2>2, <2>3, Zenon DEF IsNextTo
  <2>5. IsNestPrefix(loops[x], loops[first])
    <3>1. SharesLoops(Names(loops[second]), Names(loops[first]), Len(loops[second]))
      <4>1. loops[second] \in Seq(LoopAttrs)
        BY <1>4, Zenon DEF IInv
      <4>2. Len(Names(loops[second])) = Len(loops[second]) /\ Len(loops[second]) <= Len(loops[second])
        BY <4>1, NamesOfNest
      <4>3. QED
        BY <4>2, Zenon DEF SharesLoops
    <3>2. IsNestPrefix(loops[second], loops[first])
      BY <3>1, SharedLoopsArePrefix, Zenon
    <3>3. PICK a \in Seq(LoopAttrs), b \in Seq(LoopAttrs), c \in Seq(LoopAttrs) :
            a = loops[x] /\ b = loops[second] /\ c = loops[first]
      BY <1>4, Positions, Zenon DEF IInv
    <3>4. IsNestPrefix(a, b) /\ IsNestPrefix(b, c)
      BY <1>9, <1>12, <3>2, <3>3, Zenon
    <3>5. IsNestPrefix(a, c)
      BY <3>4 DEF IsNestPrefix
    <3>6. QED
      BY <3>3, <3>5, Zenon
  <2>6. QED
    BY <1>5, <2>3, <2>4, <2>5, Zenon
<1>13. QED
  BY <1>11, <1>12, Zenon

(* The operation whose loop is introduced is queued again, and who waits    *)
(* for it is in less loops and goes on waiting.                             *)
LEMMA IntroduceLoopKeepsQueue ==
  ASSUME IInv, WorkIsQueued, IntroduceLoop
  PROVE  WorkIsQueued'
<1>1. /\ phase = "run" /\ mapOps # <<>> /\ Lowers(Popped)
      /\ computeOps' = computeOps /\ phase' = phase
      /\ loops' = [loops EXCEPT ![Popped] = EraseInnermost(@)]
      /\ mapOps' \in Queues(Tail(mapOps), {}, {Popped} \union Producers(Popped), computeOps)
  BY Zenon DEF IntroduceLoop, Running
<1>2. PICK op \in Range(computeOps) : op = Popped /\ op \in Ops
  BY <1>1, PoppedOp, Positions, Zenon
<1>3. Range(mapOps) \subseteq Range(mapOps') /\ op \in Range(mapOps')
  <2> DEFINE added == {op} \union Producers(op)
  <2>1. added \subseteq Range(computeOps) /\ op \in added
    BY Zenon DEF IInv, Producers
  <2>2. mapOps' \in Queues(Tail(mapOps), {}, added, computeOps)
    BY <1>1, <1>2, Zenon
  <2>3. /\ IsListOf(Tail(mapOps), Ops) /\ IsListOf(computeOps, Ops)
        /\ Range(mapOps) \subseteq Range(Tail(mapOps)) \union {op}
    BY <1>1, <1>2, PoppedOp, Zenon
  <2> HIDE DEF added
  <2>4. (Range(Tail(mapOps)) \ {}) \union added \subseteq Range(mapOps')
    BY <2>1, <2>2, <2>3, QueuedOps, ZenonT(40)
  <2>5. QED
    BY <2>1, <2>3, <2>4, Zenon
<1>4. PICK nest \in Seq(LoopAttrs) : nest = loops[op] /\ nest # <<>>
  BY <1>1, <1>2, Zenon DEF IInv, Lowers
<1>5. /\ loops'[op] = EraseInnermost(nest)
      /\ \A x \in Ops : x # op => loops'[x] = loops[x]
  BY <1>1, <1>2, <1>4, Zenon DEF IInv
<1>6. /\ EraseInnermost(nest) \in Seq(LoopAttrs) /\ Len(EraseInnermost(nest)) = Len(nest) - 1
      /\ \A k \in 1 .. Len(nest) - 1 : EraseInnermost(nest)[k] = nest[k]
  <2>1. \A k \in DOMAIN nest : nest[k].iter = k - 1
    BY <1>2, <1>4, Zenon DEF IInv
  <2>2. QED
    BY <1>4, <2>1, ErasedNest, Zenon
<1>7. SUFFICES ASSUME NEW x \in Range(computeOps), x \notin Range(mapOps')
               PROVE  IsSettled(x)'
  BY <1>1, Zenon DEF WorkIsQueued
<1>8. \A y, z : IsNextTo(y, z)' <=> IsNextTo(y, z)
  BY <1>1, Zenon DEF IsNextTo, Position
<1>9. x # op /\ x \in Ops /\ x \notin Range(mapOps) /\ loops'[x] = loops[x]
  BY <1>3, <1>5, <1>7, Positions, Zenon
<1>10. SUFFICES \/ Len(computeOps) = 1 /\ loops[x] = <<>>
                \/ \E y \in Range(computeOps) :
                     /\ IsNextTo(y, x) /\ IsNestPrefix(loops[x], loops'[y])
                     /\ y \in Range(mapOps') \/ Len(loops[x]) < Len(loops'[y])
  BY <1>1, <1>8, <1>9, Zenon DEF IsSettled, IsNestPrefix
<1>11. IsSettled(x)
  <2>1. phase \in {"run", "done"}
    BY <1>1
  <2>2. QED
    BY <1>9, <2>1, Zenon DEF WorkIsQueued
<1>12. ASSUME NEW y \in Range(computeOps), IsNextTo(y, x), IsNestPrefix(loops[x], loops[y]),
              y \in Range(mapOps) \/ Len(loops[x]) < Len(loops[y])
       PROVE  /\ IsNestPrefix(loops[x], loops'[y])
              /\ y \in Range(mapOps') \/ Len(loops[x]) < Len(loops'[y])
  <2>1. CASE y # op
    <3>1. loops'[y] = loops[y]
      BY <1>5, <2>1, Positions, Zenon
    <3>2. QED
      BY <1>3, <1>12, <3>1, Zenon
  <2>2. CASE y = op
    <3>1. IsNextTo(x, op)
      BY <1>12, <2>2, Zenon DEF IsNextTo
    <3>2. Len(loops[x]) < Len(nest)
      BY <1>1, <1>2, <1>4, <1>12, <2>2, <3>1, NeighbourIsDeeper, Zenon DEF Lowers
    <3>3. PICK a \in Seq(LoopAttrs) : a = loops[x]
      BY <1>9, Zenon DEF IInv
    <3>4. IsNestPrefix(a, nest)
      BY <1>4, <1>12, <2>2, <3>3, Zenon
    <3>5. PICK outer \in Seq(LoopAttrs) : outer = EraseInnermost(nest)
      BY <1>6, Zenon
    <3>6. IsNestPrefix(a, outer)
      <4>1. Len(a) \in Nat /\ Len(nest) \in Nat /\ DOMAIN a = 1 .. Len(a)
        OBVIOUS
      <4>2. Len(a) <= Len(nest) - 1 /\ \A k \in 1 .. Len(a) : k \in 1 .. Len(nest) - 1
        BY <3>2, <3>3, <4>1
      <4>3. QED
        BY <1>6, <3>4, <3>5, <4>1, <4>2, Zenon DEF IsNestPrefix
    <3>7. QED
      BY <1>3, <1>5, <2>2, <3>3, <3>5, <3>6, Zenon
  <2>3. QED
    BY <2>1, <2>2, Zenon
<1>13. QED
  BY <1>11, <1>12, Zenon DEF IsSettled

(* Some element of a vector of vectors is not shorter than the others.      *)
LEMMA LongestExists ==
  ASSUME NEW S, NEW n \in Nat \ {0}, NEW f, \A i \in 1 .. n : f[i] \in Seq(S)
  PROVE  \E i \in 1 .. n : \A k \in 1 .. n : Len(f[k]) <= Len(f[i])
<1> DEFINE Longest(m, i) == i \in 1 .. m /\ \A k \in 1 .. m : Len(f[k]) <= Len(f[i])
           T == {m \in Nat : m \in 1 .. n /\ ~ \E i \in Nat : Longest(m, i)}
<1>1. \A i \in 1 .. n : Len(f[i]) \in Nat
  OBVIOUS
<1>2. SUFFICES ASSUME T # {} PROVE FALSE
  <2>1. n \in 1 .. n /\ n \in Nat
    OBVIOUS
  <2>2. PICK i \in Nat : Longest(n, i)
    BY <1>2, <2>1, Zenon
  <2>3. QED
    BY <2>2, Zenon
<1>3. T \in SUBSET Nat
  BY Zenon
<1>4. PICK m \in T : \A k \in T : m <= k
  BY <1>2, <1>3, LeastNatural, Zenon
<1>5. m \in Nat /\ m \in 1 .. n /\ ~ \E i \in Nat : Longest(m, i)
  BY <1>4, Zenon
<1>6. CASE m = 1
  <2>1. Longest(1, 1)
    BY <1>1, <1>5, <1>6
  <2>2. 1 \in Nat
    OBVIOUS
  <2>3. QED
    BY <1>5, <1>6, <2>1, <2>2, Zenon
<1>7. CASE m # 1
  <2>1. m - 1 \in Nat /\ m - 1 \in 1 .. n /\ ~ (m <= m - 1)
    BY <1>5, <1>7
  <2>2. PICK i \in Nat : Longest(m - 1, i)
    BY <1>4, <2>1, Zenon
  <2>3. /\ i \in 1 .. m - 1 /\ Len(f[i]) \in Nat /\ Len(f[m]) \in Nat
        /\ \A k \in 1 .. m - 1 : Len(f[k]) <= Len(f[i]) /\ Len(f[k]) \in Nat
    <3>1. m \in 1 .. n /\ \A k \in 1 .. m - 1 : k \in 1 .. n
      BY <1>5
    <3>2. QED
      BY <1>1, <2>2, <3>1, Zenon
  <2>4. \A k \in 1 .. m : k = m \/ k \in 1 .. m - 1
    BY <1>5
  <2>5. i \in 1 .. m /\ m \in 1 .. m /\ Len(f[m]) <= Len(f[m]) /\ Len(f[i]) <= Len(f[i])
    BY <1>5, <2>3
  <2>6. CASE Len(f[m]) <= Len(f[i])
    <3>1. Longest(m, i)
      BY <2>3, <2>4, <2>5, <2>6, Zenon
    <3>2. QED
      BY <1>5, <3>1, Zenon
  <2>7. CASE ~ (Len(f[m]) <= Len(f[i]))
    <3>1. \A k \in 1 .. m - 1 : Len(f[k]) <= Len(f[m])
      <4> SUFFICES ASSUME NEW k \in 1 .. m - 1 PROVE Len(f[k]) <= Len(f[m])
        BY Zenon
      <4>1. \A a, b, c \in Nat : a <= b /\ ~ (c <= b) => a <= c
        OBVIOUS
      <4>2. QED
        BY <2>3, <2>7, <4>1, Zenon
    <3>2. Longest(m, m)
      BY <2>4, <2>5, <3>1, Zenon
    <3>3. QED
      BY <1>5, <3>2, Zenon
  <2>8. QED
    BY <2>6, <2>7, Zenon
<1>8. QED
  BY <1>6, <1>7, Zenon

(* Every step keeps the operations queued that nothing else comes back to.  *)
LEMMA NextKeepsQueue ==
  ASSUME IInv, IInv', WorkIsQueued, [Next]_vars
  PROVE  WorkIsQueued'
<1>1. CASE Register
  <2>1. CASE program.supported
    <3>1. mapOps' \in Queues(computeOps, {}, {}, computeOps) /\ computeOps' = computeOps
      BY <1>1, <2>1, Zenon DEF Register
    <3>2. IsListOf(computeOps, Ops) /\ {} \subseteq Range(computeOps)
      BY Zenon DEF IInv, TypeOK, IsListOf
    <3>3. (Range(computeOps) \ {}) \union {} \subseteq Range(mapOps')
      BY <3>1, <3>2, QueuedOps, Zenon
    <3>4. QED
      BY <3>1, <3>3, Zenon DEF WorkIsQueued
  <2>2. CASE ~ program.supported
    <3>1. phase' = "failed"
      BY <1>1, <2>2, Zenon DEF Register
    <3>2. ~ (phase' \in {"run", "done"})
      BY <3>1
    <3>3. QED
      BY <3>2, Zenon DEF WorkIsQueued
  <2>3. QED
    BY <2>1, <2>2, Zenon
<1>2. CASE Drop
  BY <1>2, DropKeepsQueue, Zenon
<1>3. CASE FuseWithPrev
  <2>1. /\ mapOps # <<>> /\ FusesWithPrev(Popped) /\ Fuse(PrevOp(Popped), Popped)
        /\ phase = "run"
    BY <1>3, Zenon DEF FuseWithPrev, Running
  <2>2. Popped \in Range(computeOps)
    BY <2>1, PoppedOp, Zenon
  <2>3. PrevOp(Popped) # NullOp /\ CanFuse(loops[PrevOp(Popped)], loops[Popped])
    BY <2>1, Zenon DEF FusesWithPrev
  <2>4. /\ PrevOp(Popped) \in Range(computeOps)
        /\ Position(PrevOp(Popped)) = Position(Popped) - 1
    BY <2>2, <2>3, Neighbors, Zenon
  <2>5. Position(Popped) = Position(PrevOp(Popped)) + 1
    BY <2>2, <2>4, Positions
  <2>6. Names(loops[PrevOp(Popped)]) = Names(loops[Popped])
    BY <2>2, <2>3, <2>4, FusedLoops, Zenon
  <2>7. Popped \in {PrevOp(Popped), Popped}
    BY Zenon
  <2>8. QED
    BY <2>1, <2>2, <2>4, <2>5, <2>6, <2>7, FuseKeepsQueue, Zenon
<1>4. CASE FuseWithNext
  <2>1. /\ mapOps # <<>> /\ FusesWithNext(Popped) /\ Fuse(Popped, NextOp(Popped))
        /\ phase = "run"
    BY <1>4, Zenon DEF FuseWithNext, Running
  <2>2. Popped \in Range(computeOps)
    BY <2>1, PoppedOp, Zenon
  <2>3. NextOp(Popped) # NullOp /\ CanFuse(loops[Popped], loops[NextOp(Popped)])
    BY <2>1, Zenon DEF FusesWithNext
  <2>4. /\ NextOp(Popped) \in Range(computeOps)
        /\ Position(NextOp(Popped)) = Position(Popped) + 1
    BY <2>2, <2>3, Neighbors, Zenon
  <2>5. Names(loops[Popped]) = Names(loops[NextOp(Popped)])
    BY <2>2, <2>3, <2>4, FusedLoops, Zenon
  <2>6. Popped \in {Popped, NextOp(Popped)}
    BY Zenon
  <2>7. QED
    BY <2>1, <2>2, <2>4, <2>5, <2>6, FuseKeepsQueue, Zenon
<1>5. CASE IntroduceLoop
  BY <1>5, IntroduceLoopKeepsQueue, Zenon
<1>6. CASE Reject
  <2>1. ~ (phase' \in {"run", "done"})
    BY <1>6 DEF Reject
  <2>2. QED
    BY <2>1, Zenon DEF WorkIsQueued
<1>7. ASSUME UNCHANGED <<computeOps, loops, mapOps>>,
             phase' \in {"run", "done"} => phase \in {"run", "done"}
      PROVE  WorkIsQueued'
  <2>1. \A y, z : IsNextTo(y, z)' <=> IsNextTo(y, z)
    BY <1>7, Zenon DEF IsNextTo, Position
  <2>2. \A x : IsSettled(x) => IsSettled(x)'
    BY <1>7, <2>1, Zenon DEF IsSettled, IsNestPrefix
  <2>3. QED
    BY <1>7, <2>2, Zenon DEF WorkIsQueued
<1>8. CASE Finish
  <2>1. UNCHANGED <<computeOps, loops, mapOps>> /\ phase = "run"
    BY <1>8, Zenon DEF Finish
  <2>2. phase \in {"run", "done"}
    BY <2>1
  <2>3. QED
    BY <1>7, <2>1, <2>2, Zenon
<1>9. CASE UNCHANGED vars
  <2>1. UNCHANGED <<computeOps, loops, mapOps, phase>>
    BY <1>9, Zenon DEF vars
  <2>2. QED
    BY <1>7, <2>1, Zenon
<1>10. QED
  BY <1>1, <1>2, <1>3, <1>4, <1>5, <1>6, <1>8, <1>9, Zenon DEF Next

(* When the work list is empty, the operation with the most loops has no    *)
(* neighbour to wait for: it is the only one, and has no loops.             *)
LEMMA NothingIsLeft ==
  ASSUME IInv, WorkIsQueued, phase = "done", mapOps = <<>>
  PROVE  Len(computeOps) <= 1 /\ \A i \in DOMAIN Nests : Nests[i] = <<>>
<1>1. PICK n \in Nat : n = Len(computeOps)
  BY Positions, Zenon
<1>2. /\ \A i \in 1 .. n : computeOps[i] \in Range(computeOps) /\ loops[computeOps[i]] \in Seq(LoopAttrs)
      /\ \A op \in Range(computeOps) : \E i \in 1 .. n : computeOps[i] = op
  BY <1>1, Positions, Zenon DEF IInv
<1>3. DOMAIN Nests = 1 .. n /\ \A i \in 1 .. n : Nests[i] = Names(loops[computeOps[i]])
  BY <1>1, NestsOfProgram, Zenon
<1>4. CASE n = 0
  <2>1. n <= 1 /\ 1 .. n = {}
    BY <1>4
  <2>2. QED
    BY <1>1, <1>3, <2>1, Zenon
<1>5. CASE n # 0
  <2>1. PICK f : f = [i \in 1 .. n |-> loops[computeOps[i]]]
    BY Zenon
  <2>2. \A i \in 1 .. n : f[i] = loops[computeOps[i]] /\ f[i] \in Seq(LoopAttrs)
    BY <1>2, <2>1, Zenon
  <2>3. n \in Nat \ {0}
    BY <1>5
  <2>4. PICK i \in 1 .. n : \A k \in 1 .. n : Len(f[k]) <= Len(f[i])
    BY <2>2, <2>3, LongestExists, Zenon
  <2>5. PICK op \in Range(computeOps) : op = computeOps[i]
    BY <1>2, Zenon
  <2>6. Range(mapOps) = {}
    BY DEF Range
  <2>7. IsSettled(op)
    <3>1. phase \in {"run", "done"}
      OBVIOUS
    <3>2. QED
      BY <2>6, <3>1, Zenon DEF WorkIsQueued
  <2>8. ASSUME NEW y \in Range(computeOps), Len(loops[op]) < Len(loops[y])
        PROVE  FALSE
    <3>1. PICK k \in 1 .. n : computeOps[k] = y
      BY <1>2, Zenon
    <3>2. PICK a \in Seq(LoopAttrs), b \in Seq(LoopAttrs) : a = loops[op] /\ b = loops[y]
      BY <1>2, <2>5, <3>1, Zenon
    <3>3. Len(b) <= Len(a) /\ Len(a) < Len(b)
      BY <2>2, <2>4, <2>5, <2>8, <3>1, <3>2, Zenon
    <3>4. QED
      BY <3>3
  <2>9. n = 1 /\ loops[op] = <<>>
    BY <1>1, <2>6, <2>7, <2>8, Zenon DEF IsSettled
  <2>10. i = 1 /\ \A k \in 1 .. n : k = 1
    BY <2>9
  <2>11. Names(<<>>) = <<>>
    BY DEF Names
  <2>12. \A k \in 1 .. n : Nests[k] = <<>>
    BY <1>3, <2>5, <2>9, <2>10, <2>11, Zenon
  <2>13. n <= 1
    BY <2>9
  <2>14. QED
    BY <1>1, <1>3, <2>12, <2>13, Zenon
<1>6. QED
  BY <1>4, <1>5, Zenon

(* CodeIsKept: the loops that the pass builds around the statements are     *)
(* those that the sequence and the loop nests ask for, for programs of any  *)
(* size, whatever the order of the work list and whatever is rewritten in   *)
(* between; and the pass stops only when it has built all of them           *)
(* (IntroduceProgramLoops, introduce_loops.cc).                             *)
THEOREM GeneratedCodeIsKept ==
  ASSUME \A p \in Programs : IsNormal(p)
  PROVE  Spec => []CodeIsKept
<1>1. Init => IInv /\ CodeInv /\ WorkIsQueued
  <2> SUFFICES ASSUME Init PROVE IInv /\ CodeInv /\ WorkIsQueued
    BY Zenon
  <2>1. phase = "register"
    BY Zenon DEF Init
  <2>2. ~ (phase \in {"run", "done"})
    BY <2>1
  <2>3. QED
    BY <2>2, NormalProgramsAreInitial, CodeAtFirst, Zenon DEF WorkIsQueued
<1>2. IInv /\ CodeInv /\ WorkIsQueued /\ [Next]_vars => (IInv /\ CodeInv /\ WorkIsQueued)'
  <2> SUFFICES ASSUME IInv, CodeInv, WorkIsQueued, [Next]_vars
               PROVE  (IInv /\ CodeInv /\ WorkIsQueued)'
    BY Zenon
  <2>1. IInv'
    BY NextKeepsInv, Zenon
  <2>2. QED
    BY <2>1, NextKeepsCode, NextKeepsQueue, Zenon
<1>3. IInv /\ CodeInv /\ WorkIsQueued => CodeIsKept
  BY NothingIsLeft, Zenon DEF CodeInv, CodeIsKept, AskedCode
<1>4. QED
  BY <1>1, <1>2, <1>3, PTL DEF Spec
=============================================================================
