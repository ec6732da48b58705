--------------------------- MODULE InsertionPoint ---------------------------
(***************************************************************************)
(* How passes find a place for a new operation in a SequenceAnalysis        *)
(* (sequence.cc): FindInsertionPoint walks from an operation along the      *)
(* sequence, out of the loops that the new operation is not nested in, and  *)
(* returns a ProgramPoint; Insert puts an operation there.  computeOps is   *)
(* compute_ops_, loops gives the loop nest of each operation.               *)
(***************************************************************************)
EXTENDS LoopTree, Functions, FiniteSetsExt

CONSTANT LoopNames   \* the names in the loop nests

Op(i) == <<"op", i>>   \* the operation that the program has in place i

Nests(computeOps, loops) == [i \in DOMAIN computeOps |-> loops[computeOps[i]]]

(* Numbers count from 0.                                                    *)
Number(computeOps, op) == (CHOOSE i \in DOMAIN computeOps : computeOps[i] = op) - 1

(* The first and the last operation of S.                                   *)
GetSpan(computeOps, S) ==
  LET numbers == {Number(computeOps, op) : op \in S}
  IN  <<computeOps[Min(numbers) + 1], computeOps[Max(numbers) + 1]>>

Point(op, direction, nest) == [op |-> op, direction |-> direction, nest |-> nest]

Delta(direction) == IF direction = "kBefore" THEN -1 ELSE 1

(* The loops of nest that start is nested in, among the first common ones.  *)
(* Names are compared from the inside out, up to the first pair that agrees. *)
NumCommonLoops(start, nest, common) ==
  Max({0} \union {k \in 1 .. common : k <= Len(nest) /\ nest[k] = start[k]})

(* The walk stops at an operation with commonLoops loops in common.         *)
StopsAt(commonLoops, numLoops) == commonLoops <= numLoops

(* The number of steps of the walk is the first after which it has left the *)
(* program or the loops; the point is at the operation before the last one. *)
FindInsertionPoint(computeOps, loops, start, numLoops, direction) ==
  LET nest == loops[start]
      At(k) == Number(computeOps, start) + k * Delta(direction)
      InProgram(k) == At(k) \in 0 .. Len(computeOps) - 1
      common[k \in 0 .. Len(computeOps)] ==
        IF k = 0 \/ ~ InProgram(k) THEN Len(nest)
        ELSE NumCommonLoops(nest, loops[computeOps[At(k) + 1]], common[k - 1])
      steps == Min({k \in 1 .. Len(computeOps) :
                      ~ InProgram(k) \/ StopsAt(common[k], numLoops)})
  IN  Point(computeOps[At(steps - 1) + 1], direction, SubSeq(nest, 1, numLoops))

InsertionIndex(computeOps, point) ==
  IF point.direction = "kAfter" THEN Number(computeOps, point.op) + 1
  ELSE Number(computeOps, point.op)

Insert(computeOps, op, point) ==
  LET index == InsertionIndex(computeOps, point)
  IN  SubSeq(computeOps, 1, index) \o <<op>> \o SubSeq(computeOps, index + 1, Len(computeOps))
=============================================================================
