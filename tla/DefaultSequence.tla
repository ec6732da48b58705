-------------------------- MODULE DefaultSequence --------------------------
(***************************************************************************)
(* ComputeDefaultSequence (sequence.cc): how SequenceAnalysis orders the    *)
(* compute operations of a program from partial `sequence` attributes and   *)
(* use-def chains.  FindEdgesToCut first breaks the use-def cycles that go  *)
(* through the "value" operand of a sair.fby, starting its traversal over   *)
(* after each cut; a second traversal, over compute operations only, yields *)
(* the order.  Rerun adds what the passes do with the result: they write it *)
(* back with AssignInferred and build the analysis again.                   *)
(*                                                                          *)
(* Operations are numbered by their place in the text of the program, which *)
(* is the order in which WalkOpInstances meets them.                        *)
(***************************************************************************)
EXTENDS Integers, Sequences, SequencesExt

CONSTANTS
  Ops,        \* operation instances: 1 .. n, in textual order
  NullOp,     \* the null instance; an operand with no value yet
  Programs    \* [kind, domain, operands, sequence], each a function of Ops

Unset == -1   \* a null `sequence` attribute

(* The domain of an operation is defined by ranges, which are not values:   *)
(* no operand holds one.  A sair.fby has the operands init and value.       *)
ASSUME ProgramsAssumption ==
  \A p \in Programs, op \in Ops :
    /\ p.kind[op] \in {"compute", "fby", "range", "other"}
    /\ \A i \in DOMAIN p.domain[op] : p.kind[p.domain[op][i]] = "range"
    /\ \A i \in DOMAIN p.operands[op] :
         \/ p.operands[op][i] = NullOp
         \/ p.operands[op][i] \in Ops /\ p.kind[p.operands[op][i]] # "range"
    /\ p.kind[op] = "fby" => Len(p.operands[op]) = 2
    /\ p.sequence[op] \in Nat \union {Unset}

VARIABLES
  program,
  phase,         \* "cut": FindEdgesToCut, "order": the second traversal
  fbyOpsToCut,   \* fby_ops_to_cut_
  computeOps,    \* compute_ops_
  previous,      \* compute_ops_ of the analysis whose result was written back
  graph, visited, stack, root, current, status   \* the traversal under way

traversal == <<graph, visited, stack, root, current, status>>
vars == <<program, phase, fbyOpsToCut, computeOps, previous,
          graph, visited, stack, root, current, status>>

ComputeOps(p) == {op \in Ops : p.kind[op] = "compute"}
InitOperand(p, op) == p.operands[op][1]
ValueOperand(p, op) == p.operands[op][2]

(* SetVector: the elements of s, each once, in the order of first insertion. *)
Inserted(s) ==
  FoldLeft(LAMBDA done, x : IF x \in ToSet(done) THEN done ELSE Append(done, x),
           <<>>, s)

Defined(s) == SelectSeq(s, LAMBDA x : x # NullOp)

NumOps == Len([op \in Ops |-> op])

TextualOrder(S) == SelectSeq([op \in Ops |-> op], LAMBDA op : op \in S)

-----------------------------------------------------------------------------
(* The graphs.                                                             *)

(* The predecessors of every operation, as FindEdgesToCut builds them.      *)
UseDefGraph(p) ==
  [keys |-> TextualOrder(Ops),
   adjacency |-> [op \in Ops |-> Inserted(p.domain[op] \o Defined(p.operands[op]))]]

(* The iterator.  The graphs it runs over are given to it by the actions.   *)
Traversal == INSTANCE DFSPostorder WITH
  Nodes <- Ops, NullNode <- NullOp, Graphs <- {}

(* What ComputeOpFrontier looks at: only the init operand of a cut fby.     *)
Uses(p, cut, op) ==
  Defined(IF op \in cut THEN <<InitOperand(p, op)>> ELSE p.operands[op]) \o p.domain[op]

(* A faulty ComputeOpFrontier: it does not look through other operations.   *)
DirectComputeOps(p, cut, op) ==
  Inserted(SelectSeq(Uses(p, cut, op), LAMBDA x : x \in ComputeOps(p)))

(* The compute operations that op depends on through other operations only. *)
(* The recursion is as deep as the longest chain of those.                  *)
ComputeOpFrontier(p, cut, op) ==
  LET Frontier[o \in Ops, depth \in 0 .. NumOps] ==
        LET uses == Uses(p, cut, o)
        IN  Inserted(FlattenSeq([i \in DOMAIN uses |->
              CASE p.kind[uses[i]] = "compute" -> <<uses[i]>>
                [] p.kind[uses[i]] # "compute" /\ depth > 0 -> Frontier[uses[i], depth - 1]
                [] OTHER -> <<>>]))
  IN  Frontier[op, NumOps]

(* A faulty OpsBefore: the upper instead of the lower bound.                *)
OpsUpTo(p, op) ==
  IF p.sequence[op] = Unset THEN <<>>
  ELSE SetToSortSeq(
         {x \in ComputeOps(p) : p.sequence[x] # Unset /\ p.sequence[x] <= p.sequence[op]},
         LAMBDA x, y : \/ p.sequence[x] < p.sequence[y]
                       \/ p.sequence[x] = p.sequence[y] /\ x < y)

(* The operations with a smaller attribute, in the order of the multimap.   *)
OpsBefore(p, op) ==
  IF p.sequence[op] = Unset THEN <<>>
  ELSE SetToSortSeq(
         {x \in ComputeOps(p) : p.sequence[x] # Unset /\ p.sequence[x] < p.sequence[op]},
         LAMBDA x, y : \/ p.sequence[x] < p.sequence[y]
                       \/ p.sequence[x] = p.sequence[y] /\ x < y)

(* The graph of the second traversal, without self-dependencies.            *)
ComputeGraph(p, cut) ==
  [keys |-> TextualOrder(ComputeOps(p)),
   adjacency |->
     [op \in Ops |->
        IF op \notin ComputeOps(p) THEN <<>>
        ELSE SelectSeq(Inserted(ComputeOpFrontier(p, cut, op) \o OpsBefore(p, op)),
                       LAMBDA x : x # op)]]

-----------------------------------------------------------------------------
(* FindEdgesToCut.                                                         *)

InCut == phase = "cut"

(* The i-th operation of the reported cycle is an fby and its value is the  *)
(* next operation of the cycle.                                             *)
EndsInValue(cycle, i) ==
  /\ program.kind[cycle[i]] = "fby"
  /\ ValueOperand(program, cycle[i]) = cycle[IF i = Len(cycle) THEN 1 ELSE i + 1]

CutVisit ==
  /\ InCut
  /\ Traversal!VisitDFSPostorder
  /\ UNCHANGED <<program, phase, fbyOpsToCut, computeOps, previous>>

CutIncrement ==
  /\ InCut
  /\ Traversal!Increment
  /\ UNCHANGED <<program, phase, fbyOpsToCut, computeOps, previous>>

(* A faulty CutEdge: the search is over after the first cut.                *)
CutOnce ==
  /\ InCut
  /\ Traversal!AtCycle
  /\ LET cycle == Traversal!FindCycleOnStack
     IN  \E i \in DOMAIN cycle :
           /\ EndsInValue(cycle, i)
           /\ \A j \in 1 .. i - 1 : ~ EndsInValue(cycle, j)
           /\ fbyOpsToCut' = Append(fbyOpsToCut, cycle[i])
  /\ phase' = "order"
  /\ Traversal!BeginAgain(ComputeGraph(program, ToSet(fbyOpsToCut')))
  /\ UNCHANGED <<program, computeOps, previous>>

(* A faulty CutEdge: the edge stays in the graph.                           *)
CutNothing ==
  /\ InCut
  /\ Traversal!AtCycle
  /\ LET cycle == Traversal!FindCycleOnStack
     IN  \E i \in DOMAIN cycle :
           /\ EndsInValue(cycle, i)
           /\ fbyOpsToCut' = IF cycle[i] \in ToSet(fbyOpsToCut) THEN fbyOpsToCut
                             ELSE Append(fbyOpsToCut, cycle[i])
  /\ Traversal!BeginAgain(graph)
  /\ UNCHANGED <<program, phase, computeOps, previous>>

(* The first value edge of the cycle is removed and the search starts over. *)
CutEdge ==
  /\ InCut
  /\ Traversal!AtCycle
  /\ LET cycle == Traversal!FindCycleOnStack
     IN  \E i \in DOMAIN cycle :
           /\ EndsInValue(cycle, i)
           /\ \A j \in 1 .. i - 1 : ~ EndsInValue(cycle, j)
           /\ fbyOpsToCut' = Append(fbyOpsToCut, cycle[i])
           /\ Traversal!BeginAgain(
                [graph EXCEPT !.adjacency[cycle[i]] =
                   SelectSeq(@, LAMBDA x : x # ValueOperand(program, cycle[i]))])
  /\ UNCHANGED <<program, phase, computeOps, previous>>

CutFails ==
  /\ InCut
  /\ Traversal!AtCycle
  /\ LET cycle == Traversal!FindCycleOnStack
     IN  \A i \in DOMAIN cycle : ~ EndsInValue(cycle, i)
  /\ phase' = "cycle"
  /\ UNCHANGED <<program, fbyOpsToCut, computeOps, previous, traversal>>

(* All cycles are cut: the second graph is built and its traversal begins.  *)
CutDone ==
  /\ InCut
  /\ status = "end"
  /\ phase' = "order"
  /\ Traversal!BeginAgain(ComputeGraph(program, ToSet(fbyOpsToCut)))
  /\ UNCHANGED <<program, fbyOpsToCut, computeOps, previous>>

-----------------------------------------------------------------------------
(* The order.                                                              *)

OrderVisit ==
  /\ phase = "order"
  /\ Traversal!VisitDFSPostorder
  /\ UNCHANGED <<program, phase, fbyOpsToCut, computeOps, previous>>

(* The operation the iterator points at gets the next number.               *)
OrderAppend ==
  /\ phase = "order"
  /\ computeOps' = Append(computeOps, current)
  /\ Traversal!Increment
  /\ UNCHANGED <<program, phase, fbyOpsToCut, previous>>

OrderFails ==
  /\ phase = "order"
  /\ Traversal!AtCycle
  /\ phase' = "contradiction"
  /\ UNCHANGED <<program, fbyOpsToCut, computeOps, previous, traversal>>

OrderDone ==
  /\ phase = "order"
  /\ status = "end"
  /\ phase' = "done"
  /\ UNCHANGED <<program, fbyOpsToCut, computeOps, previous, traversal>>

Position(op) == CHOOSE i \in DOMAIN computeOps : computeOps[i] = op

(* A faulty Rerun: attributes that are set already are not overwritten.     *)
RerunAssigningMissing ==
  /\ phase = "done"
  /\ computeOps # <<>> /\ previous = <<>>
  /\ previous' = computeOps
  /\ program' = [program EXCEPT !.sequence =
                   [op \in Ops |-> IF op \in ToSet(computeOps) /\ @[op] = Unset
                                   THEN Position(op) - 1 ELSE @[op]]]
  /\ phase' = "cut"
  /\ fbyOpsToCut' = <<>>
  /\ computeOps' = <<>>
  /\ Traversal!BeginAgain(UseDefGraph(program))

(* AssignInferred writes the order back and a new analysis is constructed.  *)
Rerun ==
  /\ phase = "done"
  /\ computeOps # <<>> /\ previous = <<>>
  /\ previous' = computeOps
  /\ program' = [program EXCEPT !.sequence =
                   [op \in Ops |-> IF op \in ToSet(computeOps) THEN Position(op) - 1
                                   ELSE @[op]]]
  /\ phase' = "cut"
  /\ fbyOpsToCut' = <<>>
  /\ computeOps' = <<>>
  /\ Traversal!BeginAgain(UseDefGraph(program))

-----------------------------------------------------------------------------
Init ==
  /\ program \in Programs
  /\ phase = "cut"
  /\ fbyOpsToCut = <<>>
  /\ computeOps = <<>>
  /\ previous = <<>>
  /\ Traversal!Begin(UseDefGraph(program))

Next ==
  \/ CutVisit
  \/ CutIncrement
  \/ CutEdge
  \/ CutFails
  \/ CutDone
  \/ OrderVisit
  \/ OrderAppend
  \/ OrderFails
  \/ OrderDone
  \/ Rerun

Spec == Init /\ [][Next]_vars /\ WF_vars(Next)
-----------------------------------------------------------------------------
(* Properties.  They speak of the program, not of the graphs built from it. *)

IsFbyValue(op, i) == program.kind[op] = "fby" /\ i = 2

(* The operations op needs.  The value operand of the fbys in skip is left  *)
(* out: it is needed by the next iteration, not by this one.                *)
Needs(op, skip) ==
  ToSet(program.domain[op]) \union
    {program.operands[op][i] :
       i \in {j \in DOMAIN program.operands[op] : ~ (op \in skip /\ IsFbyValue(op, j))}}

(* Every operation of S needs another one of S: S holds a cycle.            *)
Cyclic(S, skip) == S # {} /\ \A op \in S : Needs(op, skip) \intersect S # {}

FbyOps == {op \in Ops : program.kind[op] = "fby"}
Cut == ToSet(fbyOpsToCut)

(* FindEdgesToCut decides as its comment says (sequence.cc:495): it fails on *)
(* a cycle without an edge into the value of an fby, and otherwise leaves no *)
(* cycle, whatever the order in which its traversals meet the cycles.  An    *)
(* fby is cut only where it closes a loop, and once: the value of any other  *)
(* fby still has to be computed before the fby is read.                      *)
CutVerdict ==
  /\ phase = "cycle" => \E S \in SUBSET Ops : Cyclic(S, FbyOps)
  /\ phase \in {"order", "done", "contradiction"} =>
       \A S \in SUBSET Ops : ~ Cyclic(S, Cut)
  /\ \A i, j \in DOMAIN fbyOpsToCut : fbyOpsToCut[i] = fbyOpsToCut[j] => i = j
  /\ \A f \in Cut :
       \E S \in SUBSET Ops : Cyclic(S, {}) /\ {f, ValueOperand(program, f)} \subseteq S

(* a is needed by b, directly or through operations that are not compute.   *)
Feeds(a, b) ==
  LET Reached[k \in 0 .. NumOps] ==
        IF k = 0 THEN Needs(b, Cut)
        ELSE Reached[k - 1] \union
               UNION {Needs(op, Cut) : op \in (Reached[k - 1] \ ComputeOps(program)) \ {NullOp}}
  IN  a \in Reached[NumOps]

IsBefore(a, b) == Position(a) < Position(b)

(* The result lists every compute operation once, uses come after           *)
(* definitions within an iteration, and the relative order of the `sequence` *)
(* attributes is kept ("The relative order is preserved", sequence.h:164).   *)
OrderIsValid ==
  phase = "done" =>
    /\ ToSet(computeOps) = ComputeOps(program)
    /\ \A i, j \in DOMAIN computeOps : computeOps[i] = computeOps[j] => i = j
    /\ \A a, b \in ComputeOps(program) :
         /\ Feeds(a, b) => IsBefore(a, b)
         /\ Unset # program.sequence[a] /\ program.sequence[a] < program.sequence[b]
              => IsBefore(a, b)

(* Sequencing is refused only when the attributes and the use-def chains    *)
(* really contradict each other: some operations each have to come before   *)
(* another one of them.                                                     *)
RefusalIsJustified ==
  phase = "contradiction" =>
    \E S \in SUBSET ComputeOps(program) :
      /\ S # {}
      /\ \A b \in S : \E a \in S :
           \/ Feeds(a, b)
           \/ Unset # program.sequence[a] /\ program.sequence[a] < program.sequence[b]

(* Writing the result back and computing it again changes nothing: passes   *)
(* that rebuild the analysis see the order of the passes before them.       *)
RerunAgrees ==
  previous # <<>> =>
    /\ phase \notin {"cycle", "contradiction"}
    /\ phase = "done" => computeOps = previous

(* The search for edges to cut starts over after every cut and still ends.  *)
SequencingEnds == <>(phase \in {"done", "cycle", "contradiction"})
=============================================================================
