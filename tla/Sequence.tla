------------------------------ MODULE Sequence ------------------------------
(***************************************************************************)
(* SequenceAnalysis as the passes use it (sequence.h, sequence.cc): the     *)
(* vector compute_ops_ that lists the compute operations of a program in    *)
(* execution order, the map op_to_sequence_number_ that caches each one's   *)
(* index, the queries, and the edits that must keep vector and map          *)
(* together: Insert, Erase and AssignInferred.                              *)
(*                                                                          *)
(* Around the analysis the module keeps the two pieces of IR state its      *)
(* answers depend on: the operands of the operations that are sequenced     *)
(* implicitly (frontier) and the `sequence` attributes (sequenceAttr), which *)
(* stay as they are until AssignInferred rewrites them.                     *)
(*                                                                          *)
(* Sequence numbers are 0-based as in the code: the operation with number n *)
(* is computeOps[n + 1].                                                    *)
(***************************************************************************)
EXTENDS Integers, Sequences

CONSTANTS
  ComputeOps,        \* operations that are sequenced explicitly
  ImplicitOps,       \* non-compute operations: sequenced by their operands
  NullOp,            \* the null ComputeOpInstance
  InitialSequences   \* results ComputeDefaultSequence may have left

ASSUME OpsAssumption ==
  /\ ComputeOps \intersect ImplicitOps = {}
  /\ NullOp \notin ComputeOps \union ImplicitOps

(* Every compute operation of a program is listed once (DefaultSequence).   *)
ASSUME InitialAssumption ==
  \A s \in InitialSequences :
    s \in Seq(ComputeOps) /\ \A i, j \in DOMAIN s : s[i] = s[j] => i = j

VARIABLES
  computeOps,          \* compute_ops_
  opToSequenceNumber,  \* op_to_sequence_number_
  frontier,            \* ComputeOpFrontier(op), for each implicit operation
  sequenceAttr         \* decisions.sequence() of each compute operation

vars == <<computeOps, opToSequenceNumber, frontier, sequenceAttr>>

Unset == -1      \* a null `sequence` attribute
Directions == {"kBefore", "kAfter"}

Live == DOMAIN opToSequenceNumber
References == Live \union ImplicitOps \union {NullOp}

-----------------------------------------------------------------------------
(* Queries.                                                                *)

ExplicitSequenceNumber(op) == opToSequenceNumber[op]

(* The largest number among the frontier, -1 when the frontier is empty.    *)
IsImplicitNumber(op, n) ==
  \/ frontier[op] = {} /\ n = -1
  \/ /\ \E p \in frontier[op] : opToSequenceNumber[p] = n
     /\ \A p \in frontier[op] : opToSequenceNumber[p] <= n

ImplicitSequenceNumber(op) ==
  CHOOSE n \in -1 .. Len(computeOps) - 1 : IsImplicitNumber(op, n)

SequenceNumber(op) ==
  CASE op = NullOp         -> -1
    [] op \in ComputeOps   -> ExplicitSequenceNumber(op)
    [] op \in ImplicitOps  -> ImplicitSequenceNumber(op)

IsBefore(first, second) ==
  /\ first # second
  /\ IF second \in ComputeOps
     THEN ExplicitSequenceNumber(first) < ExplicitSequenceNumber(second)
     ELSE ExplicitSequenceNumber(first) <= ImplicitSequenceNumber(second)

(* A ProgramPoint is next to a compute operation, or outside the program    *)
(* when its operation is null.                                              *)
PointIsBefore(reference, direction, op) ==
  IF reference \in {NullOp, op} THEN direction = "kBefore"
                                ELSE IsBefore(reference, op)

PointIsAfter(reference, direction, op) ==
  IF reference \in {NullOp, op} THEN direction = "kAfter"
                                ELSE IsBefore(op, reference)

PrevOp(op) ==
  IF op = NullOp \/ opToSequenceNumber[op] = 0 THEN NullOp
  ELSE computeOps[opToSequenceNumber[op]]

NextOp(op) ==
  IF op = NullOp \/ opToSequenceNumber[op] = Len(computeOps) - 1 THEN NullOp
  ELSE computeOps[opToSequenceNumber[op] + 2]

-----------------------------------------------------------------------------
(* Edits.                                                                  *)

(* A faulty InsertionNumber: the two directions swapped.                    *)
SwappedInsertionNumber(reference, direction) ==
  LET n == SequenceNumber(reference)
  IN  CASE n = -1 /\ direction = "kBefore" -> 0
        [] n = -1 /\ direction = "kAfter"  -> Len(computeOps)
        [] n # -1 /\ direction = "kBefore" -> n + 1
        [] n # -1 /\ direction = "kAfter"  -> n

(* The index at which Insert puts an operation.                             *)
InsertionNumber(reference, direction) ==
  LET n == SequenceNumber(reference)
  IN  CASE n = -1 /\ direction = "kBefore" -> 0
        [] n = -1 /\ direction = "kAfter"  -> Len(computeOps)
        [] n # -1 /\ direction = "kBefore" -> n
        [] n # -1 /\ direction = "kAfter"  -> n + 1

(* A faulty ShiftUp: renumbering starts one operation too late.              *)
LateShiftUp(op, n) ==
  [x \in Live \union {op} |->
     IF \E k \in n + 2 .. Len(computeOps) : computeOps[k] = x
     THEN CHOOSE k \in n + 2 .. Len(computeOps) : computeOps[k] = x
     ELSE IF x = op THEN n ELSE opToSequenceNumber[x]]

(* The map after an insertion at number n: every operation the vector holds *)
(* from index n on is renumbered with its index plus one.                   *)
ShiftUp(op, n) ==
  [x \in Live \union {op} |->
     IF \E k \in n + 1 .. Len(computeOps) : computeOps[k] = x
     THEN CHOOSE k \in n + 1 .. Len(computeOps) : computeOps[k] = x
     ELSE IF x = op THEN n ELSE opToSequenceNumber[x]]

(* The map after the operation numbered n left: every operation the vector  *)
(* holds after index n is renumbered with its index minus one.              *)
ShiftDown(op, n) ==
  [x \in Live \ {op} |->
     IF \E k \in n + 2 .. Len(computeOps) : computeOps[k] = x
     THEN (CHOOSE k \in n + 2 .. Len(computeOps) : computeOps[k] = x) - 2
     ELSE opToSequenceNumber[x]]

(* The attribute a pass gives an operation it creates: none, or, when it    *)
(* inserts the operation before the one it rewrites, the attribute of that  *)
(* operation or of the one it fuses it with.                                *)
NewAttributes(reference, direction) ==
  {Unset} \union
    (IF reference \in ComputeOps /\ direction = "kBefore"
     THEN {sequenceAttr[x] : x \in {reference, PrevOp(reference)} \ {NullOp}}
     ELSE {})

Insert(op, reference, direction) ==
  LET n == InsertionNumber(reference, direction)
  IN  /\ op \notin Live
      /\ opToSequenceNumber' = ShiftUp(op, n)
      /\ computeOps' = SubSeq(computeOps, 1, n) \o <<op>>
                         \o SubSeq(computeOps, n + 1, Len(computeOps))

CreateOp(op, reference, direction) ==
  /\ Insert(op, reference, direction)
  /\ \E attr \in NewAttributes(reference, direction) :
       sequenceAttr' = [sequenceAttr EXCEPT ![op] = attr]
  /\ UNCHANGED frontier

(* A faulty Erase: the last operation takes the place of the erased one.    *)
EraseBySwap(op) ==
  /\ op \in Live
  /\ \A i \in ImplicitOps : op \notin frontier[i]
  /\ LET n == opToSequenceNumber[op]
         last == computeOps[Len(computeOps)]
     IN  /\ computeOps' = SubSeq([computeOps EXCEPT ![n + 1] = last], 1, Len(computeOps) - 1)
         /\ opToSequenceNumber' = [x \in Live \ {op} |->
                                     IF x = last THEN n ELSE opToSequenceNumber[x]]
  /\ sequenceAttr' = [sequenceAttr EXCEPT ![op] = Unset]
  /\ UNCHANGED frontier

(* An operation is erased once nothing uses its results.                    *)
Erase(op) ==
  /\ op \in Live
  /\ \A i \in ImplicitOps : op \notin frontier[i]
  /\ LET n == ExplicitSequenceNumber(op)
     IN  /\ opToSequenceNumber' = ShiftDown(op, n)
         /\ computeOps' = SubSeq(computeOps, 1, n)
                            \o SubSeq(computeOps, n + 2, Len(computeOps))
  /\ sequenceAttr' = [sequenceAttr EXCEPT ![op] = Unset]
  /\ UNCHANGED frontier

(* A pass redirects the uses of old to the operation that replaces it.      *)
ReplaceUses(old, new) ==
  /\ {old, new} \subseteq Live
  /\ frontier' = [i \in ImplicitOps |->
                    IF old \in frontier[i] THEN (frontier[i] \ {old}) \union {new}
                    ELSE frontier[i]]
  /\ UNCHANGED <<computeOps, opToSequenceNumber, sequenceAttr>>

AssignInferred ==
  /\ sequenceAttr' = [op \in ComputeOps |->
                        IF \E i \in DOMAIN computeOps : computeOps[i] = op
                        THEN (CHOOSE i \in DOMAIN computeOps : computeOps[i] = op) - 1
                        ELSE sequenceAttr[op]]
  /\ UNCHANGED <<computeOps, opToSequenceNumber, frontier>>

-----------------------------------------------------------------------------
(* The analysis starts as ComputeDefaultSequence leaves it: attributes are  *)
(* partial, need not be contiguous, and never contradict the order.         *)
Init ==
  /\ computeOps \in InitialSequences
  /\ opToSequenceNumber =
       [op \in {computeOps[i] : i \in DOMAIN computeOps} |->
          (CHOOSE i \in DOMAIN computeOps : computeOps[i] = op) - 1]
  /\ frontier \in [ImplicitOps -> SUBSET Live]
  /\ sequenceAttr \in [ComputeOps -> {Unset} \union {2 * i : i \in DOMAIN computeOps}]
  /\ \A op \in ComputeOps \ Live : sequenceAttr[op] = Unset
  /\ \A i, j \in DOMAIN computeOps :
       /\ i < j
       /\ Unset \notin {sequenceAttr[computeOps[i]], sequenceAttr[computeOps[j]]}
       => sequenceAttr[computeOps[i]] <= sequenceAttr[computeOps[j]]

Next ==
  \/ \E op \in ComputeOps, reference \in References, direction \in Directions :
       CreateOp(op, reference, direction)
  \/ \E op \in ComputeOps : Erase(op)
  \/ \E old, new \in ComputeOps : ReplaceUses(old, new)
  \/ AssignInferred

Spec == Init /\ [][Next]_vars
-----------------------------------------------------------------------------
(* Properties.                                                             *)

TypeOK ==
  /\ computeOps \in Seq(ComputeOps)
  /\ Live \subseteq ComputeOps
  /\ opToSequenceNumber \in [Live -> 0 .. Len(computeOps) - 1]
  /\ frontier \in [ImplicitOps -> SUBSET Live]
  /\ sequenceAttr \in [ComputeOps -> Nat \union {Unset}]

(* The lookup cache op_to_sequence_number_ stays the inverse of the vector   *)
(* compute_ops_ through every Insert and Erase.  Each edit renumbers only a  *)
(* suffix, so one index missed or renumbered twice goes unnoticed until a    *)
(* much later query.                                                        *)
VectorMatchesMap ==
  /\ \A op \in Live : computeOps[opToSequenceNumber[op] + 1] = op
  /\ \A i \in DOMAIN computeOps :
       computeOps[i] \in Live /\ opToSequenceNumber[computeOps[i]] = i - 1

(* PrevOp and NextOp, on which IntroduceLoops fuses neighbours, are inverse  *)
(* to each other, agree with IsBefore, and leave no operation out between.   *)
NeighboursAgree ==
  \A op \in Live :
    LET next == NextOp(op)
    IN  IF next = NullOp THEN \A x \in Live \ {op} : IsBefore(x, op)
        ELSE /\ next \in Live
             /\ PrevOp(next) = op
             /\ IsBefore(op, next)
             /\ \A x \in Live : ~(IsBefore(op, x) /\ IsBefore(x, next))

(* Passes edit the analysis for a long time before AssignInferred rewrites   *)
(* the attributes.  Meanwhile the stale attributes, those copied to          *)
(* rewritten operations included, never contradict the analysis: a fresh     *)
(* SequenceAnalysis built from them would not reorder the operations.        *)
AttributesAgree ==
  \A a, b \in Live :
    /\ Unset \notin {sequenceAttr[a], sequenceAttr[b]}
    /\ sequenceAttr[a] < sequenceAttr[b]
    => IsBefore(a, b)

InsertKeepsPoint ==
  \A op \in ComputeOps, reference \in Live \union {NullOp}, direction \in Directions :
    Insert(op, reference, direction) =>
      \A x \in Live :
        /\ PointIsBefore(reference, direction, x) <=> IsBefore(op, x)'
        /\ PointIsAfter(reference, direction, x) <=> IsBefore(x, op)'

(* Inserting at a program point keeps the promise of the queries asked about *)
(* that point before the insertion (storage.cc asks them, materialize_buffers *)
(* inserts there): the operations the point was before come after the new    *)
(* one, and the others come before it.                                      *)
InsertHonoursPoint == [][InsertKeepsPoint]_vars

(* What the vector and the map implement together: a strict total order in   *)
(* which Insert fills one gap and Erase leaves the rest alone.               *)
Order == INSTANCE SequenceOrder WITH
  live <- Live,
  before <- {p \in Live \X Live : opToSequenceNumber[p[1]] < opToSequenceNumber[p[2]]}

(* The edits of SequenceAnalysis implement those of an abstract order, so no *)
(* sequence of insertions, replacements and erasures reorders the operations *)
(* that stay in the program.                                                *)
ImplementsOrder == Order!Spec
=============================================================================
