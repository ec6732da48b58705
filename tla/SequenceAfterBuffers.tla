------------------------ MODULE SequenceAfterBuffers ------------------------
(***************************************************************************)
(* What becomes of the order that MaterializeBuffers writes to the          *)
(* `sequence` attributes: the next pass constructs a SequenceAnalysis,      *)
(* which orders the operations anew (ComputeDefaultSequence, sequence.cc).  *)
(***************************************************************************)
EXTENDS MaterializeBuffers, SequencesExt

(* The compute operations a value comes from.  An fby that is not on a      *)
(* cycle is not cut, and then depends on its value as well.                 *)
UseDefs(v) ==
  CASE IsView(v)          -> <<Op(v[2])>>
    [] v \in DOMAIN operands -> operands[v]
    [] OTHER              -> <<>>

OnCycle(v) ==
  LET Reached[k \in 0 .. Cardinality(DOMAIN operands)] ==
        IF k = 0 THEN Range(UseDefs(v))
        ELSE Reached[k - 1] \union UNION {Range(UseDefs(x)) : x \in Reached[k - 1]}
  IN  v \in Reached[Cardinality(DOMAIN operands)]

IsCut(v) == IsView(v) /\ v[2] \in program.fby /\ OnCycle(v)

ComputeOpFrontier(op) ==
  FlattenSeq([k \in DOMAIN UseDefs(op) |->
    LET v == UseDefs(op)[k]
    IN  CASE IsCut(v) \/ v[1] = "import" -> <<>>
          [] IsView(v) /\ ~ IsCut(v)     -> <<Op(v[2])>>
          [] OTHER                       -> <<v>>])

(* Those that have a number, looking through the ones that compute sizes,   *)
(* which have none.                                                         *)
NumberedBefore(op) ==
  UNION {IF x[1] = "sizes" THEN Range(operands[x]) ELSE {x} : x \in Range(ComputeOpFrontier(op))}

Contradicts == \E op \in DOMAIN numbers : \E x \in NumberedBefore(op) : numbers[x] >= numbers[op]

OpsBefore(op) ==
  IF op \notin DOMAIN numbers THEN <<>>
  ELSE SelectSeq(computeOps, LAMBDA x : numbers[x] < numbers[op])

(* The operations in the order in which a depth-first search from those in  *)
(* keys, which are in textual order, returns them.                          *)
RECURSIVE Visit(_, _)
Visit(done, keys) ==
  IF keys = <<>> THEN done
  ELSE IF Head(keys) \in Range(done) THEN Visit(done, Tail(keys))
  ELSE Visit(Append(Visit(done, ComputeOpFrontier(Head(keys)) \o OpsBefore(Head(keys))),
                    Head(keys)),
             Tail(keys))

NextSequence == Visit(<<>>, text \o computeOps)
-----------------------------------------------------------------------------
(* The next pass orders the operations anew, from the numbers and the       *)
(* use-def chains.  It finds no contradiction, keeps the order, and the     *)
(* operations that compute sizes, which have no number, split no loop.      *)
NextPassKeepsOrder ==
  Assigned =>
    /\ ~ Contradicts
    /\ SelectSeq(NextSequence, LAMBDA op : op[1] # "sizes") = computeOps
    /\ IsTree(Nests(NextSequence, loops))
=============================================================================
