--------------------------- MODULE SequenceProofs ---------------------------
(***************************************************************************)
(* Proofs about SequenceAnalysis, for any operations and initial order.     *)
(* The inductive invariant is that the vector and the map are inverse to    *)
(* each other (IInv).  It is needed in full by every step: an edit reads    *)
(* the number to edit at from the map and renumbers through the vector.     *)
(***************************************************************************)
EXTENDS Sequence, VectorLemmas

IInv == TypeOK /\ VectorMatchesMap

-----------------------------------------------------------------------------
(* The queries.                                                            *)

(* The numbers in the map are exactly the indices of the vector.            *)
LEMMA NumbersInRange ==
  ASSUME IInv
  PROVE  /\ Len(computeOps) \in Nat
         /\ DOMAIN computeOps = 1 .. Len(computeOps)
         /\ \A op \in Live :
              /\ opToSequenceNumber[op] \in 0 .. Len(computeOps) - 1
              /\ computeOps[opToSequenceNumber[op] + 1] = op
         /\ \A k \in 1 .. Len(computeOps) :
              /\ computeOps[k] \in Live
              /\ opToSequenceNumber[computeOps[k]] = k - 1
BY DEF IInv, TypeOK, VectorMatchesMap

(* ImplicitSequenceNumber finds the maximum it looks for.                   *)
LEMMA ImplicitNumberExists ==
  ASSUME IInv, NEW op \in ImplicitOps
  PROVE  /\ ImplicitSequenceNumber(op) \in -1 .. Len(computeOps) - 1
         /\ IsImplicitNumber(op, ImplicitSequenceNumber(op))
<1>1. /\ Len(computeOps) \in Nat
      /\ frontier[op] \subseteq Live
      /\ \A p \in Live : opToSequenceNumber[p] \in 0 .. Len(computeOps) - 1
  BY NumbersInRange DEF IInv, TypeOK
<1>2. \E n \in -1 .. Len(computeOps) - 1 : IsImplicitNumber(op, n)
  <2>1. CASE frontier[op] = {}
    <3>1. -1 \in -1 .. Len(computeOps) - 1
      BY <1>1
    <3>2. IsImplicitNumber(op, -1)
      BY <2>1 DEF IsImplicitNumber
    <3>3. QED
      BY <3>1, <3>2
  <2>2. CASE frontier[op] # {}
    <3> DEFINE T == {opToSequenceNumber[p] : p \in frontier[op]}
    <3>1. T \in SUBSET (0 .. Len(computeOps)) /\ T # {}
      BY <1>1, <2>2
    <3>2. PICK n \in T : \A m \in T : m <= n
      BY <1>1, <3>1, GreatestNatural
    <3>3. IsImplicitNumber(op, n)
      BY <3>2 DEF IsImplicitNumber
    <3>4. n \in -1 .. Len(computeOps) - 1
      BY <1>1, <3>2
    <3>5. QED
      BY <3>3, <3>4
  <2>3. QED
    BY <2>1, <2>2
<1>3. QED
  BY <1>2 DEF ImplicitSequenceNumber

(* Insert computes an index of the vector, or the one past its end.         *)
LEMMA InsertionNumberRange ==
  ASSUME IInv, NEW reference \in References, NEW direction \in Directions
  PROVE  InsertionNumber(reference, direction) \in 0 .. Len(computeOps)
<1>1. SequenceNumber(reference) \in -1 .. Len(computeOps) - 1
  <2>1. CASE reference = NullOp
    BY <2>1, NumbersInRange, OpsAssumption DEF SequenceNumber
  <2>2. CASE reference \in Live
    <3>1. reference # NullOp /\ reference \in ComputeOps
      BY <2>2, OpsAssumption DEF IInv, TypeOK
    <3>2. SequenceNumber(reference) = opToSequenceNumber[reference]
      BY <3>1, OpsAssumption DEF SequenceNumber, ExplicitSequenceNumber
    <3>3. QED
      BY <2>2, <3>2, NumbersInRange
  <2>3. CASE reference \in ImplicitOps
    <3>1. reference # NullOp /\ reference \notin ComputeOps
      BY <2>3, OpsAssumption
    <3>2. SequenceNumber(reference) = ImplicitSequenceNumber(reference)
      BY <2>3, <3>1 DEF SequenceNumber
    <3>3. QED
      BY <2>3, <3>2, ImplicitNumberExists
  <2>4. QED
    BY <2>1, <2>2, <2>3 DEF References
<1>2. QED
  BY <1>1, NumbersInRange DEF InsertionNumber, Directions

-----------------------------------------------------------------------------
(* The edits.                                                              *)

(* The renumbering of Insert adds one to every number from n on, although   *)
(* the code never looks at the old numbers of those operations.             *)
LEMMA ShiftUpNumbers ==
  ASSUME IInv, NEW op \in ComputeOps, op \notin Live,
         NEW n \in 0 .. Len(computeOps)
  PROVE  ShiftUp(op, n) =
           [x \in Live \union {op} |->
              IF x = op THEN n
              ELSE IF opToSequenceNumber[x] >= n THEN opToSequenceNumber[x] + 1
              ELSE opToSequenceNumber[x]]
<1>1. \A k \in n + 1 .. Len(computeOps) : computeOps[k] # op
  BY NumbersInRange
<1>2. ASSUME NEW x \in Live, opToSequenceNumber[x] >= n
      PROVE  /\ \E k \in n + 1 .. Len(computeOps) : computeOps[k] = x
             /\ (CHOOSE k \in n + 1 .. Len(computeOps) : computeOps[k] = x)
                  = opToSequenceNumber[x] + 1
  <2>1. /\ opToSequenceNumber[x] + 1 \in n + 1 .. Len(computeOps)
        /\ computeOps[opToSequenceNumber[x] + 1] = x
    BY <1>2, NumbersInRange
  <2>2. \A k \in n + 1 .. Len(computeOps) :
          computeOps[k] = x => k = opToSequenceNumber[x] + 1
    BY NumbersInRange
  <2>3. QED
    BY <2>1, <2>2
<1>3. ASSUME NEW x \in Live, ~ (opToSequenceNumber[x] >= n)
      PROVE  ~ \E k \in n + 1 .. Len(computeOps) : computeOps[k] = x
  BY <1>3, NumbersInRange
<1>4. QED
  BY <1>1, <1>2, <1>3 DEF ShiftUp

(* The renumbering of Erase subtracts one from every number after n.        *)
LEMMA ShiftDownNumbers ==
  ASSUME IInv, NEW op \in Live, NEW n \in 0 .. Len(computeOps) - 1
  PROVE  ShiftDown(op, n) =
           [x \in Live \ {op} |->
              IF opToSequenceNumber[x] > n THEN opToSequenceNumber[x] - 1
              ELSE opToSequenceNumber[x]]
<1>1. ASSUME NEW x \in Live, opToSequenceNumber[x] > n
      PROVE  /\ \E k \in n + 2 .. Len(computeOps) : computeOps[k] = x
             /\ (CHOOSE k \in n + 2 .. Len(computeOps) : computeOps[k] = x) - 2
                  = opToSequenceNumber[x] - 1
  <2>1. /\ opToSequenceNumber[x] + 1 \in n + 2 .. Len(computeOps)
        /\ computeOps[opToSequenceNumber[x] + 1] = x
    BY <1>1, NumbersInRange
  <2>2. \A k \in n + 2 .. Len(computeOps) :
          computeOps[k] = x => k = opToSequenceNumber[x] + 1
    BY NumbersInRange
  <2>3. (CHOOSE k \in n + 2 .. Len(computeOps) : computeOps[k] = x)
           = opToSequenceNumber[x] + 1
    BY <2>1, <2>2
  <2>4. QED
    BY <2>1, <2>3, NumbersInRange
<1>2. ASSUME NEW x \in Live, ~ (opToSequenceNumber[x] > n)
      PROVE  ~ \E k \in n + 2 .. Len(computeOps) : computeOps[k] = x
  BY <1>2, NumbersInRange
<1>3. QED
  BY <1>1, <1>2 DEF ShiftDown

(* What an insertion does to the vector and the map, element by element.    *)
LEMMA InsertEffect ==
  ASSUME IInv, NEW op \in ComputeOps, NEW n \in 0 .. Len(computeOps),
         op \notin Live,
         opToSequenceNumber' = ShiftUp(op, n),
         computeOps' = WithElement(computeOps, n, op)
  PROVE  /\ computeOps' \in Seq(ComputeOps)
         /\ Len(computeOps') = Len(computeOps) + 1
         /\ \A k \in 1 .. n : computeOps'[k] = computeOps[k]
         /\ computeOps'[n + 1] = op
         /\ \A k \in n + 2 .. Len(computeOps) + 1 : computeOps'[k] = computeOps[k - 1]
         /\ Live' = Live \union {op}
         /\ opToSequenceNumber'[op] = n
         /\ \A x \in Live :
              opToSequenceNumber'[x] =
                IF opToSequenceNumber[x] >= n THEN opToSequenceNumber[x] + 1
                ELSE opToSequenceNumber[x]
<1>1. computeOps \in Seq(ComputeOps)
  BY DEF IInv, TypeOK
<1>2. opToSequenceNumber' =
        [x \in Live \union {op} |->
           IF x = op THEN n
           ELSE IF opToSequenceNumber[x] >= n THEN opToSequenceNumber[x] + 1
           ELSE opToSequenceNumber[x]]
  BY ShiftUpNumbers
<1>3. Live' = Live \union {op}
  BY <1>2 DEF Live
<1>4. /\ computeOps' \in Seq(ComputeOps)
      /\ Len(computeOps') = Len(computeOps) + 1
      /\ \A k \in 1 .. n : computeOps'[k] = computeOps[k]
      /\ computeOps'[n + 1] = op
      /\ \A k \in n + 2 .. Len(computeOps) + 1 : computeOps'[k] = computeOps[k - 1]
  <2> DEFINE vector == WithElement(computeOps, n, op)
  <2>1. /\ vector \in Seq(ComputeOps)
        /\ Len(vector) = Len(computeOps) + 1
        /\ \A k \in 1 .. n : vector[k] = computeOps[k]
        /\ vector[n + 1] = op
        /\ \A k \in n + 2 .. Len(computeOps) + 1 : vector[k] = computeOps[k - 1]
    <3>1. vector \in Seq(ComputeOps)
      BY <1>1, InsertAtElements
    <3>2. Len(vector) = Len(computeOps) + 1
      BY <1>1, InsertAtElements
    <3>3. \A k \in 1 .. n : vector[k] = computeOps[k]
      BY <1>1, InsertAtElements
    <3>4. vector[n + 1] = op
      BY <1>1, InsertAtElements
    <3>5. \A k \in n + 2 .. Len(computeOps) + 1 : vector[k] = computeOps[k - 1]
      BY <1>1, InsertAtElements
    <3>6. QED
      BY <3>1, <3>2, <3>3, <3>4, <3>5
  <2>2. computeOps' = vector
    OBVIOUS
  <2>3. QED
    BY <2>1, <2>2
<1>5. opToSequenceNumber'[op] = n
  BY <1>2
<1>6. \A x \in Live :
        opToSequenceNumber'[x] =
          IF opToSequenceNumber[x] >= n THEN opToSequenceNumber[x] + 1
          ELSE opToSequenceNumber[x]
  BY <1>2
<1>7. QED
  BY <1>3, <1>4, <1>5, <1>6

(* What an erasure does to the vector and the map, element by element.      *)
LEMMA EraseEffect ==
  ASSUME IInv, NEW op \in ComputeOps, Erase(op)
  PROVE  /\ op \in Live
         /\ computeOps' \in Seq(ComputeOps)
         /\ Len(computeOps') = Len(computeOps) - 1
         /\ \A k \in 1 .. Len(computeOps) - 1 :
              computeOps'[k] = IF k <= opToSequenceNumber[op] THEN computeOps[k]
                               ELSE computeOps[k + 1]
         /\ Live' = Live \ {op}
         /\ \A x \in Live \ {op} :
              opToSequenceNumber'[x] =
                IF opToSequenceNumber[x] > opToSequenceNumber[op]
                THEN opToSequenceNumber[x] - 1 ELSE opToSequenceNumber[x]
<1> DEFINE n == opToSequenceNumber[op]
<1>1. /\ computeOps \in Seq(ComputeOps)
      /\ op \in Live
      /\ n \in 0 .. Len(computeOps) - 1
  BY NumbersInRange DEF IInv, TypeOK, Erase
<1>2. /\ opToSequenceNumber' = ShiftDown(op, n)
      /\ computeOps' = WithoutElement(computeOps, n)
  BY DEF Erase, ExplicitSequenceNumber, WithoutElement
<1> HIDE DEF n
<1>3. opToSequenceNumber' =
        [x \in Live \ {op} |->
           IF opToSequenceNumber[x] > n THEN opToSequenceNumber[x] - 1
           ELSE opToSequenceNumber[x]]
  BY <1>1, <1>2, ShiftDownNumbers
<1>4. Live' = Live \ {op}
  BY <1>3 DEF Live
<1>5. /\ computeOps' \in Seq(ComputeOps)
      /\ Len(computeOps') = Len(computeOps) - 1
      /\ \A k \in 1 .. Len(computeOps) - 1 :
           computeOps'[k] = IF k <= n THEN computeOps[k] ELSE computeOps[k + 1]
  BY <1>1, <1>2, RemoveAtElements
<1>6. \A x \in Live \ {op} :
        opToSequenceNumber'[x] =
          IF opToSequenceNumber[x] > n THEN opToSequenceNumber[x] - 1
          ELSE opToSequenceNumber[x]
  BY <1>3
<1>7. QED
  BY <1>1, <1>4, <1>5, <1>6 DEF n

-----------------------------------------------------------------------------
(* The invariant.                                                          *)

(* The constructor establishes the invariant.                               *)
LEMMA InitIInv == Init => IInv
<1> SUFFICES ASSUME Init PROVE IInv
  OBVIOUS
<1> DEFINE Index(op) == CHOOSE i \in DOMAIN computeOps : computeOps[i] = op
<1>1. /\ computeOps \in Seq(ComputeOps)
      /\ Len(computeOps) \in Nat
      /\ DOMAIN computeOps = 1 .. Len(computeOps)
      /\ \A i, j \in DOMAIN computeOps : computeOps[i] = computeOps[j] => i = j
  BY InitialAssumption DEF Init
<1>2. /\ Live = {computeOps[i] : i \in DOMAIN computeOps}
      /\ \A op \in Live : opToSequenceNumber[op] = Index(op) - 1
      /\ opToSequenceNumber = [op \in Live |-> Index(op) - 1]
  BY DEF Init, Live
<1>3. \A i \in DOMAIN computeOps : computeOps[i] \in Live /\ Index(computeOps[i]) = i
  BY <1>1, <1>2
<1>4. \A op \in Live : Index(op) \in DOMAIN computeOps /\ computeOps[Index(op)] = op
  BY <1>2
<1> HIDE DEF Index
<1>5. VectorMatchesMap
  <2>1. \A op \in Live : (Index(op) - 1) + 1 = Index(op)
    BY <1>1, <1>4
  <2>2. QED
    BY <1>2, <1>3, <1>4, <2>1 DEF VectorMatchesMap
<1>6. TypeOK
  <2>1. Live \subseteq ComputeOps
    BY <1>1, <1>2
  <2>2. opToSequenceNumber \in [Live -> 0 .. Len(computeOps) - 1]
    <3>1. \A op \in Live : Index(op) - 1 \in 0 .. Len(computeOps) - 1
      BY <1>1, <1>4
    <3>2. QED
      BY <1>2, <3>1
  <2>3. frontier \in [ImplicitOps -> SUBSET Live]
    BY DEF Init
  <2>4. sequenceAttr \in [ComputeOps -> Nat \union {Unset}]
    BY <1>1 DEF Init
  <2>5. QED
    BY <1>1, <2>1, <2>2, <2>3, <2>4 DEF TypeOK
<1>7. QED
  BY <1>5, <1>6 DEF IInv

(* Insert keeps vector and map inverse to each other.                       *)
LEMMA InsertIInv ==
  ASSUME IInv, NEW op \in ComputeOps, NEW reference \in References,
         NEW direction \in Directions, CreateOp(op, reference, direction)
  PROVE  IInv'
<1> DEFINE n == InsertionNumber(reference, direction)
<1>1. n \in 0 .. Len(computeOps)
  BY InsertionNumberRange
<1>2. /\ op \notin Live
      /\ opToSequenceNumber' = ShiftUp(op, n)
      /\ computeOps' = WithElement(computeOps, n, op)
  BY DEF CreateOp, Insert, WithElement
<1> HIDE DEF n
<1>3. /\ computeOps' \in Seq(ComputeOps)
      /\ Len(computeOps') = Len(computeOps) + 1
      /\ \A k \in 1 .. n : computeOps'[k] = computeOps[k]
      /\ computeOps'[n + 1] = op
      /\ \A k \in n + 2 .. Len(computeOps) + 1 : computeOps'[k] = computeOps[k - 1]
      /\ Live' = Live \union {op}
      /\ opToSequenceNumber'[op] = n
      /\ \A x \in Live :
           opToSequenceNumber'[x] =
             IF opToSequenceNumber[x] >= n THEN opToSequenceNumber[x] + 1
             ELSE opToSequenceNumber[x]
  BY <1>1, <1>2, InsertEffect
<1>4. VectorMatchesMap'
  <2>1. \A x \in Live' : computeOps'[opToSequenceNumber'[x] + 1] = x
    <3>1. computeOps'[opToSequenceNumber'[op] + 1] = op
      BY <1>1, <1>3
    <3>2. ASSUME NEW x \in Live
          PROVE  computeOps'[opToSequenceNumber'[x] + 1] = x
      <4> DEFINE m == opToSequenceNumber[x]
      <4>1. m \in 0 .. Len(computeOps) - 1 /\ computeOps[m + 1] = x
        BY NumbersInRange
      <4>2. opToSequenceNumber'[x] = IF m >= n THEN m + 1 ELSE m
        BY <1>3
      <4> HIDE DEF m
      <4>3. CASE m >= n
        BY <1>1, <1>3, <4>1, <4>2, <4>3
      <4>4. CASE ~ (m >= n)
        BY <1>1, <1>3, <4>1, <4>2, <4>4
      <4>5. QED
        BY <4>3, <4>4
    <3>3. QED
      BY <1>3, <3>1, <3>2
  <2>2. ASSUME NEW k \in 1 .. Len(computeOps) + 1
        PROVE  computeOps'[k] \in Live' /\ opToSequenceNumber'[computeOps'[k]] = k - 1
    <3>1. CASE k <= n
      BY <1>1, <1>3, <3>1, NumbersInRange
    <3>2. CASE k = n + 1
      BY <1>1, <1>3, <3>2
    <3>3. CASE k > n + 1
      <4>1. /\ computeOps'[k] = computeOps[k - 1]
            /\ k - 1 \in 1 .. Len(computeOps)
        BY <1>1, <1>3, <3>3, NumbersInRange
      <4>2. /\ computeOps[k - 1] \in Live
            /\ opToSequenceNumber[computeOps[k - 1]] = k - 2
        BY <4>1, NumbersInRange
      <4>3. QED
        BY <1>1, <1>3, <3>3, <4>1, <4>2
    <3>4. QED
      BY <1>1, <3>1, <3>2, <3>3, NumbersInRange
  <2>3. DOMAIN computeOps' = 1 .. Len(computeOps) + 1
    BY <1>3
  <2>4. QED
    BY <2>1, <2>2, <2>3 DEF VectorMatchesMap
<1>5. TypeOK'
  <2>1. Live' \subseteq ComputeOps
    BY <1>3 DEF IInv, TypeOK
  <2>2. opToSequenceNumber' \in [Live' -> 0 .. Len(computeOps') - 1]
    <3>1. opToSequenceNumber' = [x \in Live' |-> opToSequenceNumber'[x]]
      BY <1>2, <1>3 DEF ShiftUp
    <3>2. \A x \in Live' : opToSequenceNumber'[x] \in 0 .. Len(computeOps') - 1
      BY <1>1, <1>3, NumbersInRange
    <3>3. QED
      BY <3>1, <3>2
  <2>3. frontier' \in [ImplicitOps -> SUBSET Live']
    BY <1>3 DEF IInv, TypeOK, CreateOp
  <2>4. sequenceAttr' \in [ComputeOps -> Nat \union {Unset}]
    <3>1. NewAttributes(reference, direction) \subseteq Nat \union {Unset}
      <4>1. ASSUME reference \in ComputeOps, direction = "kBefore"
            PROVE  {reference, PrevOp(reference)} \ {NullOp} \subseteq ComputeOps
        <5>1. reference \in Live
          BY <4>1, OpsAssumption DEF References
        <5>2. PrevOp(reference) \in ComputeOps \union {NullOp}
          BY <5>1, NumbersInRange DEF PrevOp, IInv, TypeOK
        <5>3. QED
          BY <4>1, <5>2
      <4>2. QED
        BY <4>1 DEF NewAttributes, IInv, TypeOK
    <3>2. QED
      BY <3>1 DEF IInv, TypeOK, CreateOp
  <2>5. QED
    BY <1>3, <2>1, <2>2, <2>3, <2>4 DEF TypeOK
<1>6. QED
  BY <1>4, <1>5 DEF IInv

(* Erase keeps vector and map inverse to each other.                        *)
LEMMA EraseIInv ==
  ASSUME IInv, NEW op \in ComputeOps, Erase(op)
  PROVE  IInv'
<1> DEFINE n == opToSequenceNumber[op]
<1>1. /\ op \in Live
      /\ computeOps' \in Seq(ComputeOps)
      /\ Len(computeOps') = Len(computeOps) - 1
      /\ \A k \in 1 .. Len(computeOps) - 1 :
           computeOps'[k] = IF k <= n THEN computeOps[k] ELSE computeOps[k + 1]
      /\ Live' = Live \ {op}
      /\ \A x \in Live \ {op} :
           opToSequenceNumber'[x] =
             IF opToSequenceNumber[x] > n THEN opToSequenceNumber[x] - 1
             ELSE opToSequenceNumber[x]
  BY EraseEffect
<1>2. /\ n \in 0 .. Len(computeOps) - 1
      /\ computeOps[n + 1] = op
      /\ \A x \in Live \ {op} : opToSequenceNumber[x] # n
  BY <1>1, NumbersInRange
<1> HIDE DEF n
<1>3. VectorMatchesMap'
  <2>1. ASSUME NEW x \in Live \ {op}
        PROVE  /\ opToSequenceNumber'[x] \in 0 .. Len(computeOps') - 1
               /\ computeOps'[opToSequenceNumber'[x] + 1] = x
    <3> DEFINE m == opToSequenceNumber[x]
    <3>1. m \in 0 .. Len(computeOps) - 1 /\ computeOps[m + 1] = x /\ m # n
      BY <1>2, NumbersInRange
    <3>2. opToSequenceNumber'[x] = IF m > n THEN m - 1 ELSE m
      BY <1>1
    <3> HIDE DEF m
    <3>3. CASE m > n
      BY <1>1, <1>2, <3>1, <3>2, <3>3
    <3>4. CASE ~ (m > n)
      BY <1>1, <1>2, <3>1, <3>2, <3>4
    <3>5. QED
      BY <3>3, <3>4
  <2>2. ASSUME NEW k \in 1 .. Len(computeOps) - 1
        PROVE  computeOps'[k] \in Live' /\ opToSequenceNumber'[computeOps'[k]] = k - 1
    <3>1. CASE k <= n
      <4>1. /\ computeOps'[k] = computeOps[k]
            /\ computeOps[k] \in Live
            /\ opToSequenceNumber[computeOps[k]] = k - 1
        BY <1>1, <3>1, NumbersInRange
      <4>2. computeOps[k] # op
        BY <1>2, <3>1, <4>1 DEF n
      <4>3. QED
        BY <1>1, <1>2, <3>1, <4>1, <4>2
    <3>2. CASE ~ (k <= n)
      <4>1. /\ computeOps'[k] = computeOps[k + 1]
            /\ computeOps[k + 1] \in Live
            /\ opToSequenceNumber[computeOps[k + 1]] = k
        BY <1>1, <3>2, NumbersInRange
      <4>2. computeOps[k + 1] # op
        BY <1>2, <3>2, <4>1 DEF n
      <4>3. QED
        BY <1>1, <1>2, <3>2, <4>1, <4>2
    <3>3. QED
      BY <3>1, <3>2
  <2>3. DOMAIN computeOps' = 1 .. Len(computeOps) - 1
    BY <1>1
  <2>4. QED
    BY <1>1, <2>1, <2>2, <2>3 DEF VectorMatchesMap
<1>4. TypeOK'
  <2>1. Live' \subseteq ComputeOps
    BY <1>1 DEF IInv, TypeOK
  <2>2. opToSequenceNumber' \in [Live' -> 0 .. Len(computeOps') - 1]
    <3>1. opToSequenceNumber' = [x \in Live' |-> opToSequenceNumber'[x]]
      BY <1>1 DEF Erase, ShiftDown
    <3>2. \A x \in Live' : opToSequenceNumber'[x] \in 0 .. Len(computeOps') - 1
      <4>1. TAKE x \in Live'
      <4>2. x \in Live /\ x # op /\ opToSequenceNumber[x] # n
        BY <1>1, <1>2
      <4>3. QED
        BY <1>1, <1>2, <4>2, NumbersInRange
    <3>3. QED
      BY <3>1, <3>2
  <2>3. frontier' \in [ImplicitOps -> SUBSET Live']
    BY <1>1 DEF IInv, TypeOK, Erase
  <2>4. sequenceAttr' \in [ComputeOps -> Nat \union {Unset}]
    BY DEF IInv, TypeOK, Erase
  <2>5. QED
    BY <1>1, <2>1, <2>2, <2>3, <2>4 DEF TypeOK
<1>5. QED
  BY <1>3, <1>4 DEF IInv

(* Redirecting uses and rewriting attributes do not touch the analysis.     *)
LEMMA ReplaceUsesIInv ==
  ASSUME IInv, NEW old \in ComputeOps, NEW new \in ComputeOps,
         ReplaceUses(old, new)
  PROVE  IInv'
<1>1. frontier' \in [ImplicitOps -> SUBSET Live]
  BY DEF IInv, TypeOK, ReplaceUses
<1>2. Live' = Live
  BY DEF ReplaceUses, Live
<1>3. QED
  BY <1>1, <1>2 DEF IInv, TypeOK, VectorMatchesMap, ReplaceUses

(* AssignInferred writes attributes only, and numbers in range.             *)
LEMMA AssignInferredIInv ==
  ASSUME IInv, AssignInferred
  PROVE  IInv'
<1>1. sequenceAttr' \in [ComputeOps -> Nat \union {Unset}]
  BY NumbersInRange DEF IInv, TypeOK, AssignInferred
<1>2. Live' = Live
  BY DEF AssignInferred, Live
<1>3. QED
  BY <1>1, <1>2 DEF IInv, TypeOK, VectorMatchesMap, AssignInferred

(* Every call keeps the invariant.                                          *)
LEMMA NextIInv == IInv /\ [Next]_vars => IInv'
<1> SUFFICES ASSUME IInv, [Next]_vars PROVE IInv'
  OBVIOUS
<1>1. ASSUME NEW op \in ComputeOps, NEW reference \in References,
             NEW direction \in Directions, CreateOp(op, reference, direction)
      PROVE  IInv'
  BY <1>1, InsertIInv
<1>2. ASSUME NEW op \in ComputeOps, Erase(op)
      PROVE  IInv'
  BY <1>2, EraseIInv
<1>3. ASSUME NEW old \in ComputeOps, NEW new \in ComputeOps, ReplaceUses(old, new)
      PROVE  IInv'
  BY <1>3, ReplaceUsesIInv
<1>4. CASE AssignInferred
  BY <1>4, AssignInferredIInv
<1>5. CASE UNCHANGED vars
  BY <1>5 DEF IInv, TypeOK, VectorMatchesMap, Live, vars
<1>6. QED
  BY <1>1, <1>2, <1>3, <1>4, <1>5 DEF Next

(* The analysis stays well typed.                                           *)
THEOREM SequenceTypeCorrect == Spec => []TypeOK
<1>1. IInv => TypeOK
  BY DEF IInv
<1>2. QED
  BY <1>1, InitIInv, NextIInv, PTL DEF Spec

(* op_to_sequence_number_ is the inverse of compute_ops_ after any number   *)
(* of Insert and Erase calls, whatever the program points.                  *)
THEOREM SequenceVectorMatchesMap == Spec => []VectorMatchesMap
<1>1. IInv => VectorMatchesMap
  BY DEF IInv
<1>2. QED
  BY <1>1, InitIInv, NextIInv, PTL DEF Spec

-----------------------------------------------------------------------------
(* What the queries promise.                                               *)

(* PrevOp and NextOp walk the order that IsBefore compares.                 *)
LEMMA NeighboursFollow ==
  ASSUME IInv
  PROVE  NeighboursAgree
<1> DEFINE N == Len(computeOps)
           num(x) == opToSequenceNumber[x]
<1>1. \A x \in Live : x \in ComputeOps /\ x # NullOp
  BY OpsAssumption DEF IInv, TypeOK
<1>2. \A x, y \in Live : x = y <=> num(x) = num(y)
  BY NumbersInRange
<1>3. \A x, y \in Live : IsBefore(x, y) <=> num(x) < num(y)
  BY <1>1, <1>2, NumbersInRange DEF IsBefore, ExplicitSequenceNumber
<1> SUFFICES ASSUME NEW op \in Live
             PROVE  IF NextOp(op) = NullOp
                    THEN \A x \in Live \ {op} : IsBefore(x, op)
                    ELSE /\ NextOp(op) \in Live
                         /\ PrevOp(NextOp(op)) = op
                         /\ IsBefore(op, NextOp(op))
                         /\ \A x \in Live : ~ (IsBefore(op, x) /\ IsBefore(x, NextOp(op)))
  BY DEF NeighboursAgree
<1>4. num(op) \in 0 .. N - 1 /\ N \in Nat
  BY NumbersInRange
<1>5. CASE num(op) = N - 1
  <2>1. NextOp(op) = NullOp
    BY <1>5 DEF NextOp
  <2>2. ASSUME NEW x \in Live \ {op}
        PROVE  IsBefore(x, op)
    <3>1. num(x) \in 0 .. N - 1 /\ num(x) # num(op)
      BY <1>2, NumbersInRange
    <3>2. QED
      BY <1>3, <1>4, <1>5, <3>1
  <2>3. QED
    BY <2>1, <2>2
<1>6. CASE num(op) # N - 1
  <2> DEFINE next == computeOps[num(op) + 2]
  <2>1. NextOp(op) = next
    BY <1>1, <1>6 DEF NextOp
  <2>2. num(op) + 2 \in 1 .. N
    BY <1>4, <1>6
  <2>3. next \in Live /\ num(next) = num(op) + 1 /\ next # NullOp
    BY <1>1, <1>4, <2>2, NumbersInRange
  <2>4. PrevOp(next) = op
    <3>1. num(next) # 0 /\ computeOps[num(next)] = op
      BY <1>4, <2>3, NumbersInRange
    <3>2. QED
      BY <2>3, <3>1 DEF PrevOp
  <2> HIDE DEF next
  <2>5. IsBefore(op, next)
    BY <1>3, <1>4, <2>3
  <2>6. \A x \in Live : ~ (num(op) < num(x) /\ num(x) < num(next))
    BY <1>4, <2>3, NumbersInRange
  <2>7. QED
    BY <1>3, <2>1, <2>3, <2>4, <2>5, <2>6
<1>7. QED
  BY <1>5, <1>6

(* IntroduceLoops can rely on PrevOp and NextOp after any edits.            *)
THEOREM SequenceNeighboursAgree == Spec => []NeighboursAgree
BY NeighboursFollow, InitIInv, NextIInv, PTL DEF Spec

(* For compute operations IsBefore compares the numbers in the map.         *)
LEMMA IsBeforeIsLess ==
  ASSUME IInv, NEW x \in Live, NEW y \in Live
  PROVE  IsBefore(x, y) <=> opToSequenceNumber[x] < opToSequenceNumber[y]
<1>1. y \in ComputeOps
  BY DEF IInv, TypeOK
<1>2. x = y => ~ (opToSequenceNumber[x] < opToSequenceNumber[y])
  BY NumbersInRange
<1>3. QED
  BY <1>1, <1>2 DEF IsBefore, ExplicitSequenceNumber

(* What a pass sees of an insertion: the numbers before and after it.       *)
LEMMA CreateOpNumbers ==
  ASSUME IInv, NEW op \in ComputeOps, NEW reference \in References,
         NEW direction \in Directions, Insert(op, reference, direction)
  PROVE  /\ InsertionNumber(reference, direction) \in 0 .. Len(computeOps)
         /\ op \notin Live
         /\ Live' = Live \union {op}
         /\ opToSequenceNumber'[op] = InsertionNumber(reference, direction)
         /\ \A x \in Live :
              opToSequenceNumber'[x] =
                IF opToSequenceNumber[x] >= InsertionNumber(reference, direction)
                THEN opToSequenceNumber[x] + 1 ELSE opToSequenceNumber[x]
<1> DEFINE n == InsertionNumber(reference, direction)
<1>1. n \in 0 .. Len(computeOps)
  BY InsertionNumberRange
<1>2. /\ op \notin Live
      /\ opToSequenceNumber' = ShiftUp(op, n)
      /\ computeOps' = WithElement(computeOps, n, op)
  BY DEF Insert, WithElement
<1> HIDE DEF n
<1>3. QED
  BY <1>1, <1>2, InsertEffect DEF n

(* The stale attributes, stated on the numbers.                             *)
AttributesFollowNumbers ==
  \A a, b \in Live :
    /\ sequenceAttr[a] # Unset /\ sequenceAttr[b] # Unset
    /\ sequenceAttr[a] < sequenceAttr[b]
    => opToSequenceNumber[a] < opToSequenceNumber[b]

(* To agree on the order is to agree on the numbers.                        *)
LEMMA AttributesFollow ==
  ASSUME IInv
  PROVE  AttributesAgree <=> AttributesFollowNumbers
BY IsBeforeIsLess DEF AttributesAgree, AttributesFollowNumbers

(* The constructor numbers operations along their attributes.               *)
LEMMA InitAttributes ==
  ASSUME Init, IInv
  PROVE  AttributesFollowNumbers
<1> SUFFICES ASSUME NEW a \in Live, NEW b \in Live,
                    sequenceAttr[a] # Unset, sequenceAttr[b] # Unset,
                    sequenceAttr[a] < sequenceAttr[b]
             PROVE  opToSequenceNumber[a] < opToSequenceNumber[b]
  BY DEF AttributesFollowNumbers
<1> DEFINE i == opToSequenceNumber[a] + 1
           j == opToSequenceNumber[b] + 1
<1>1. /\ i \in DOMAIN computeOps /\ computeOps[i] = a
      /\ j \in DOMAIN computeOps /\ computeOps[j] = b
      /\ i \in Nat /\ j \in Nat
  BY NumbersInRange
<1>2. sequenceAttr[a] \in Nat /\ sequenceAttr[b] \in Nat
  BY DEF IInv, TypeOK
<1>3. j < i => sequenceAttr[b] <= sequenceAttr[a]
  BY <1>1 DEF Init
<1>4. i # j
  BY <1>1, <1>2
<1>5. i < j
  BY <1>1, <1>2, <1>3, <1>4
<1>6. QED
  BY <1>5, NumbersInRange

(* An operation inserted before the one whose attribute it copies fits in.  *)
LEMMA CreateOpAttributes ==
  ASSUME IInv, AttributesFollowNumbers, NEW op \in ComputeOps,
         NEW reference \in References, NEW direction \in Directions,
         CreateOp(op, reference, direction)
  PROVE  AttributesFollowNumbers'
<1> DEFINE n == InsertionNumber(reference, direction)
<1>1. /\ n \in 0 .. Len(computeOps)
      /\ op \notin Live
      /\ Live' = Live \union {op}
      /\ opToSequenceNumber'[op] = n
      /\ \A x \in Live :
           opToSequenceNumber'[x] =
             IF opToSequenceNumber[x] >= n
             THEN opToSequenceNumber[x] + 1 ELSE opToSequenceNumber[x]
  BY CreateOpNumbers DEF CreateOp
<1>2. PICK attr \in NewAttributes(reference, direction) :
        sequenceAttr' = [sequenceAttr EXCEPT ![op] = attr]
  BY DEF CreateOp
<1>3. /\ sequenceAttr'[op] = attr
      /\ \A x \in Live : sequenceAttr'[x] = sequenceAttr[x]
  BY <1>1, <1>2 DEF IInv, TypeOK
<1>4. \A x \in Live : /\ opToSequenceNumber[x] \in Nat
                      /\ sequenceAttr[x] \in Nat \union {Unset}
  BY NumbersInRange DEF IInv, TypeOK
<1>5. ASSUME attr # Unset
      PROVE  \E m \in Live :
               /\ attr = sequenceAttr[m]
               /\ opToSequenceNumber[m] \in {n - 1, n}
  <2>1. reference \in ComputeOps /\ direction = "kBefore"
    BY <1>5 DEF NewAttributes
  <2>2. reference \in Live /\ reference # NullOp
    BY <2>1, OpsAssumption DEF References
  <2>3. n = opToSequenceNumber[reference]
    <3>1. SequenceNumber(reference) = opToSequenceNumber[reference]
      BY <2>1, <2>2, OpsAssumption DEF SequenceNumber, ExplicitSequenceNumber
    <3>2. QED
      BY <1>4, <2>1, <2>2, <3>1 DEF InsertionNumber
  <2>4. PICK m \in {reference, PrevOp(reference)} \ {NullOp} : attr = sequenceAttr[m]
    BY <1>5, <2>1 DEF NewAttributes
  <2>5. CASE m = reference
    BY <2>2, <2>3, <2>4, <2>5
  <2>6. CASE m = PrevOp(reference) /\ m # NullOp
    <3>1. n # 0 /\ m = computeOps[n]
      BY <2>2, <2>3, <2>6 DEF PrevOp
    <3>2. m \in Live /\ opToSequenceNumber[m] = n - 1
      BY <1>1, <3>1, NumbersInRange
    <3>3. QED
      BY <2>4, <3>2
  <2>7. QED
    BY <2>4, <2>5, <2>6
<1> HIDE DEF n
<1>6. ASSUME NEW x \in Live, attr # Unset, sequenceAttr[x] # Unset
      PROVE  /\ attr < sequenceAttr[x] => n < opToSequenceNumber'[x]
             /\ sequenceAttr[x] < attr => opToSequenceNumber'[x] < n
  <2>1. PICK m \in Live : /\ attr = sequenceAttr[m]
                          /\ opToSequenceNumber[m] \in {n - 1, n}
    BY <1>5, <1>6
  <2>2. /\ sequenceAttr[m] < sequenceAttr[x]
             => opToSequenceNumber[m] < opToSequenceNumber[x]
        /\ sequenceAttr[x] < sequenceAttr[m]
             => opToSequenceNumber[x] < opToSequenceNumber[m]
    BY <1>6, <2>1 DEF AttributesFollowNumbers
  <2>3. QED
    BY <1>1, <1>4, <2>1, <2>2
<1>7. ASSUME NEW a \in Live, NEW b \in Live,
             sequenceAttr[a] # Unset, sequenceAttr[b] # Unset,
             sequenceAttr[a] < sequenceAttr[b]
      PROVE  opToSequenceNumber'[a] < opToSequenceNumber'[b]
  <2>1. opToSequenceNumber[a] < opToSequenceNumber[b]
    BY <1>7 DEF AttributesFollowNumbers
  <2>2. QED
    BY <1>1, <1>4, <2>1
<1>8. ~ (attr # Unset /\ attr < attr)
  BY <1>4, <1>5
<1>9. QED
  BY <1>1, <1>3, <1>6, <1>7, <1>8 DEF AttributesFollowNumbers, Unset

(* Erase closes the gap and so keeps the order of the rest.                 *)
LEMMA EraseAttributes ==
  ASSUME IInv, AttributesFollowNumbers, NEW op \in ComputeOps, Erase(op)
  PROVE  AttributesFollowNumbers'
<1>1. /\ op \in Live
      /\ Live' = Live \ {op}
      /\ \A x \in Live \ {op} :
           opToSequenceNumber'[x] =
             IF opToSequenceNumber[x] > opToSequenceNumber[op]
             THEN opToSequenceNumber[x] - 1 ELSE opToSequenceNumber[x]
  BY EraseEffect
<1>2. \A x \in Live \ {op} : sequenceAttr'[x] = sequenceAttr[x]
  BY DEF Erase, IInv, TypeOK
<1>3. \A x \in Live : /\ opToSequenceNumber[x] \in Nat
                      /\ x # op => opToSequenceNumber[x] # opToSequenceNumber[op]
  BY <1>1, NumbersInRange
<1>4. ASSUME NEW a \in Live \ {op}, NEW b \in Live \ {op},
             opToSequenceNumber[a] < opToSequenceNumber[b]
      PROVE  opToSequenceNumber'[a] < opToSequenceNumber'[b]
  BY <1>1, <1>3, <1>4
<1>5. QED
  BY <1>1, <1>2, <1>4 DEF AttributesFollowNumbers

(* AssignInferred makes the attributes the numbers.                         *)
LEMMA AssignInferredAttributes ==
  ASSUME IInv, AssignInferred
  PROVE  AttributesFollowNumbers'
<1>1. Live' = Live /\ opToSequenceNumber' = opToSequenceNumber
  BY DEF AssignInferred, Live
<1>2. ASSUME NEW x \in Live
      PROVE  sequenceAttr'[x] = opToSequenceNumber[x]
  <2>1. x \in ComputeOps
    BY DEF IInv, TypeOK
  <2>2. /\ opToSequenceNumber[x] + 1 \in DOMAIN computeOps
        /\ computeOps[opToSequenceNumber[x] + 1] = x
        /\ \A k \in DOMAIN computeOps :
             computeOps[k] = x => k = opToSequenceNumber[x] + 1
    BY NumbersInRange
  <2>3. (CHOOSE k \in DOMAIN computeOps : computeOps[k] = x) = opToSequenceNumber[x] + 1
    BY <2>2
  <2>4. sequenceAttr'[x] = (CHOOSE k \in DOMAIN computeOps : computeOps[k] = x) - 1
    BY <2>1, <2>2 DEF AssignInferred
  <2>5. QED
    BY <2>3, <2>4, NumbersInRange
<1>3. QED
  BY <1>1, <1>2 DEF AttributesFollowNumbers

(* Every call keeps the attributes in the order of the numbers.             *)
LEMMA NextAttributes ==
  IInv /\ AttributesFollowNumbers /\ [Next]_vars => AttributesFollowNumbers'
<1> SUFFICES ASSUME IInv, AttributesFollowNumbers, [Next]_vars
             PROVE  AttributesFollowNumbers'
  OBVIOUS
<1>1. ASSUME NEW op \in ComputeOps, NEW reference \in References,
             NEW direction \in Directions, CreateOp(op, reference, direction)
      PROVE  AttributesFollowNumbers'
  BY <1>1, CreateOpAttributes
<1>2. ASSUME NEW op \in ComputeOps, Erase(op)
      PROVE  AttributesFollowNumbers'
  BY <1>2, EraseAttributes
<1>3. ASSUME NEW old \in ComputeOps, NEW new \in ComputeOps, ReplaceUses(old, new)
      PROVE  AttributesFollowNumbers'
  BY <1>3 DEF ReplaceUses, AttributesFollowNumbers, Live
<1>4. CASE AssignInferred
  BY <1>4, AssignInferredAttributes
<1>5. CASE UNCHANGED vars
  BY <1>5 DEF AttributesFollowNumbers, Live, vars
<1>6. QED
  BY <1>1, <1>2, <1>3, <1>4, <1>5 DEF Next

(* A SequenceAnalysis rebuilt from the attributes at any moment, AssignInferred *)
(* done or not, has nothing in them that contradicts the edited order.      *)
THEOREM SequenceAttributesAgree == Spec => []AttributesAgree
<1>1. Init => IInv /\ AttributesFollowNumbers
  BY InitIInv, InitAttributes
<1>2. IInv /\ AttributesFollowNumbers => AttributesAgree
  BY AttributesFollow
<1>3. QED
  BY <1>1, <1>2, NextIInv, NextAttributes, PTL DEF Spec

-----------------------------------------------------------------------------
(* What an insertion promises.                                             *)

(* An inserted operation comes where its insertion point says.              *)
LEMMA InsertAtPoint ==
  ASSUME IInv, IInv', NEW op \in ComputeOps, NEW reference \in Live \union {NullOp},
         NEW direction \in Directions, Insert(op, reference, direction), NEW x \in Live
  PROVE  /\ PointIsBefore(reference, direction, x) <=> IsBefore(op, x)'
         /\ PointIsAfter(reference, direction, x) <=> IsBefore(x, op)'
<1> DEFINE n == InsertionNumber(reference, direction)
           num == opToSequenceNumber
<1>1. /\ n \in 0 .. Len(computeOps)
      /\ Live' = Live \union {op}
      /\ num'[op] = n
      /\ num'[x] = IF num[x] >= n THEN num[x] + 1 ELSE num[x]
  BY CreateOpNumbers DEF References
<1>2. /\ num[x] \in 0 .. Len(computeOps) - 1
      /\ Len(computeOps) \in Nat
  BY NumbersInRange
<1>3. /\ IsBefore(op, x)' <=> num'[op] < num'[x]
      /\ IsBefore(x, op)' <=> num'[x] < num'[op]
  <2>1. op \in Live' /\ x \in Live'
    BY <1>1
  <2>2. op \in ComputeOps /\ x \in ComputeOps
    BY DEF IInv, TypeOK
  <2>3. op # x
    BY DEF Insert
  <2>4. QED
    BY <2>1, <2>2, <2>3 DEF IsBefore, ExplicitSequenceNumber
<1>4. CASE reference = NullOp
  <2>1. SequenceNumber(reference) = -1
    BY <1>4, OpsAssumption DEF SequenceNumber
  <2>2. n = IF direction = "kBefore" THEN 0 ELSE Len(computeOps)
    BY <2>1 DEF InsertionNumber, Directions
  <2>3. /\ PointIsBefore(reference, direction, x) <=> direction = "kBefore"
        /\ PointIsAfter(reference, direction, x) <=> direction = "kAfter"
    BY <1>4 DEF PointIsBefore, PointIsAfter
  <2> HIDE DEF n
  <2>4. CASE direction = "kBefore"
    BY <1>1, <1>2, <1>3, <2>2, <2>3, <2>4
  <2>5. CASE direction = "kAfter"
    BY <1>1, <1>2, <1>3, <2>2, <2>3, <2>5
  <2>6. QED
    BY <2>4, <2>5 DEF Directions
<1>5. CASE reference \in Live
  <2>1. reference \in ComputeOps /\ reference # NullOp
    BY <1>5, OpsAssumption DEF IInv, TypeOK
  <2>2. /\ num[reference] \in 0 .. Len(computeOps) - 1
        /\ num[reference] = num[x] <=> reference = x
    BY <1>5, NumbersInRange
  <2>3. SequenceNumber(reference) = num[reference]
    BY <2>1, OpsAssumption DEF SequenceNumber, ExplicitSequenceNumber
  <2>4. n = IF direction = "kBefore" THEN num[reference] ELSE num[reference] + 1
    BY <2>2, <2>3 DEF InsertionNumber, Directions
  <2>5. /\ IsBefore(reference, x) <=> num[reference] < num[x]
        /\ IsBefore(x, reference) <=> num[x] < num[reference]
    BY <1>5, IsBeforeIsLess
  <2>6. /\ PointIsBefore(reference, direction, x) <=>
             IF reference = x THEN direction = "kBefore" ELSE num[reference] < num[x]
        /\ PointIsAfter(reference, direction, x) <=>
             IF reference = x THEN direction = "kAfter" ELSE num[x] < num[reference]
    BY <2>1, <2>5 DEF PointIsBefore, PointIsAfter
  <2> HIDE DEF n
  <2>7. CASE direction = "kBefore"
    BY <1>1, <1>2, <1>3, <2>2, <2>4, <2>6, <2>7
  <2>8. CASE direction = "kAfter"
    BY <1>1, <1>2, <1>3, <2>2, <2>4, <2>6, <2>8
  <2>9. QED
    BY <2>7, <2>8 DEF Directions
<1>6. QED
  BY <1>4, <1>5

(* A pass may ask where a program point lies, then insert there, and the    *)
(* answers still hold of the inserted operation.                            *)
THEOREM SequenceInsertHonoursPoint == Spec => InsertHonoursPoint
<1>1. IInv /\ IInv' /\ [Next]_vars => [InsertKeepsPoint]_vars
  BY InsertAtPoint DEF InsertKeepsPoint
<1>2. QED
  BY <1>1, InitIInv, NextIInv, PTL DEF Spec, InsertHonoursPoint

-----------------------------------------------------------------------------
(* Refinement.                                                             *)

(* The numbers of the initial state are an abstract initial order.          *)
LEMMA InitRefines ==
  ASSUME IInv
  PROVE  Order!Init
<1> DEFINE before == {p \in Live \X Live :
                        opToSequenceNumber[p[1]] < opToSequenceNumber[p[2]]}
<1>1. \A a, b \in Live :
        <<a, b>> \in before <=> opToSequenceNumber[a] < opToSequenceNumber[b]
  OBVIOUS
<1>2. before \subseteq Live \X Live
  OBVIOUS
<1>3. Live \subseteq ComputeOps
  BY DEF IInv, TypeOK
<1>4. Order!IsStrictTotalOrder(Live, before)
  <2> HIDE DEF before
  <2>1. \A a \in Live : <<a, a>> \notin before
    BY <1>1, NumbersInRange
  <2>2. \A a, b \in Live : a # b => (<<a, b>> \in before \/ <<b, a>> \in before)
    BY <1>1, NumbersInRange
  <2>3. \A a, b, c \in Live :
          <<a, b>> \in before /\ <<b, c>> \in before => <<a, c>> \in before
    BY <1>1, NumbersInRange
  <2>4. QED
    BY <1>2, <2>1, <2>2, <2>3 DEF Order!IsStrictTotalOrder
<1>5. QED
  BY <1>3, <1>4 DEF Order!Init

(* An insertion at number n fills the gap after the operations numbered     *)
(* below n.                                                                 *)
LEMMA InsertRefines ==
  ASSUME IInv, NEW op \in ComputeOps, NEW reference \in References,
         NEW direction \in Directions, CreateOp(op, reference, direction)
  PROVE  Order!Insert(op)
<1> DEFINE n == InsertionNumber(reference, direction)
           before == {p \in Live \X Live :
                        opToSequenceNumber[p[1]] < opToSequenceNumber[p[2]]}
           D == {x \in Live : opToSequenceNumber[x] < n}
<1>1. /\ n \in 0 .. Len(computeOps)
      /\ op \notin Live
      /\ Live' = Live \union {op}
      /\ opToSequenceNumber'[op] = n
      /\ \A x \in Live :
           opToSequenceNumber'[x] =
             IF opToSequenceNumber[x] >= n
             THEN opToSequenceNumber[x] + 1 ELSE opToSequenceNumber[x]
  BY CreateOpNumbers DEF CreateOp
<1>2. \A x \in Live : opToSequenceNumber[x] \in Nat
  BY NumbersInRange
<1> HIDE DEF n
<1>3. Order!IsCut(D)
  BY <1>1, <1>2 DEF Order!IsCut
<1>4. before' = before \union (D \X {op}) \union ({op} \X (Live \ D))
  <2>1. \A a, b \in Live :
          opToSequenceNumber'[a] < opToSequenceNumber'[b]
            <=> opToSequenceNumber[a] < opToSequenceNumber[b]
    BY <1>1, <1>2
  <2>2. \A a \in Live : /\ opToSequenceNumber'[a] < opToSequenceNumber'[op] <=> a \in D
                        /\ opToSequenceNumber'[op] < opToSequenceNumber'[a] <=> a \in Live \ D
    BY <1>1, <1>2
  <2>3. ~ (opToSequenceNumber'[op] < opToSequenceNumber'[op])
    BY <1>1
  <2> DEFINE R == before \union (D \X {op}) \union ({op} \X (Live \ D))
  <2>4. \A a, b \in Live \union {op} : <<a, b>> \in before' <=> <<a, b>> \in R
    <3> TAKE a, b \in Live \union {op}
    <3>1. <<a, b>> \in before' <=> opToSequenceNumber'[a] < opToSequenceNumber'[b]
      BY <1>1
    <3>2. CASE a \in Live /\ b \in Live
      BY <1>1, <2>1, <3>1, <3>2
    <3>3. CASE a \in Live /\ b = op
      BY <1>1, <2>2, <3>1, <3>3
    <3>4. CASE a = op /\ b \in Live
      BY <1>1, <2>2, <3>1, <3>4
    <3>5. CASE a = op /\ b = op
      BY <1>1, <2>3, <3>1, <3>5
    <3>6. QED
      BY <3>2, <3>3, <3>4, <3>5
  <2>5. /\ before' \subseteq (Live \union {op}) \X (Live \union {op})
        /\ R \subseteq (Live \union {op}) \X (Live \union {op})
    BY <1>1
  <2>6. QED
    BY <2>4, <2>5
<1>5. D \in SUBSET Live
  OBVIOUS
<1>6. QED
  BY <1>1, <1>3, <1>4, <1>5 DEF Order!Insert

(* Erase removes its operation from the abstract order.                     *)
LEMMA EraseRefines ==
  ASSUME IInv, NEW op \in ComputeOps, Erase(op)
  PROVE  Order!Erase(op)
<1> DEFINE before == {p \in Live \X Live :
                        opToSequenceNumber[p[1]] < opToSequenceNumber[p[2]]}
<1>1. /\ op \in Live
      /\ Live' = Live \ {op}
      /\ \A x \in Live \ {op} :
           opToSequenceNumber'[x] =
             IF opToSequenceNumber[x] > opToSequenceNumber[op]
             THEN opToSequenceNumber[x] - 1 ELSE opToSequenceNumber[x]
  BY EraseEffect
<1>2. \A x \in Live : /\ opToSequenceNumber[x] \in Nat
                      /\ x # op => opToSequenceNumber[x] # opToSequenceNumber[op]
  BY <1>1, NumbersInRange
<1>3. \A a, b \in Live \ {op} :
        opToSequenceNumber'[a] < opToSequenceNumber'[b]
          <=> opToSequenceNumber[a] < opToSequenceNumber[b]
  BY <1>1, <1>2
<1>4. before' = before \intersect (Live' \X Live')
  BY <1>1, <1>3
<1>5. QED
  BY <1>1, <1>4 DEF Order!Erase

(* No sequence of edits reorders the operations that stay in the program.   *)
THEOREM SequenceImplementsOrder == Spec => ImplementsOrder
<1>1. Init => Order!Init
  BY InitIInv, InitRefines
<1>2. IInv /\ [Next]_vars => [Order!Next]_Order!vars
  <2> SUFFICES ASSUME IInv, [Next]_vars
               PROVE  [Order!Next]_Order!vars
    OBVIOUS
  <2>1. ASSUME NEW op \in ComputeOps, NEW reference \in References,
               NEW direction \in Directions, CreateOp(op, reference, direction)
        PROVE  Order!Next
    BY <2>1, InsertRefines DEF Order!Next
  <2>2. ASSUME NEW op \in ComputeOps, Erase(op)
        PROVE  Order!Next
    BY <2>2, EraseRefines DEF Order!Next
  <2>3. ASSUME NEW old \in ComputeOps, NEW new \in ComputeOps, ReplaceUses(old, new)
        PROVE  UNCHANGED Order!vars
    BY <2>3 DEF ReplaceUses, Order!vars, Live
  <2>4. CASE AssignInferred
    BY <2>4 DEF AssignInferred, Order!vars, Live
  <2>5. CASE UNCHANGED vars
    BY <2>5 DEF vars, Order!vars, Live
  <2>6. QED
    BY <2>1, <2>2, <2>3, <2>4, <2>5 DEF Next
<1>3. QED
  BY <1>1, <1>2, InitIInv, NextIInv, PTL DEF Spec, ImplementsOrder, Order!Spec

=============================================================================
