-------------------------- MODULE IterationSpaces ---------------------------
(***************************************************************************)
(* Iteration spaces (loop_nest.cc): the loops every operation of a program *)
(* is nested in and the mapping from its domain to these loops.            *)
(*                                                                         *)
(* A program is a sequence of operations in block order.  An operation is  *)
(* a record: its kind, the size of its domain, how many of its dimensions  *)
(* are parallel, its loops (name and iterator, for a compute operation),   *)
(* its value operands (a value <<operation, result>> and a mapping) and    *)
(* its results, each with its storage attribute.                           *)
(***************************************************************************)
EXTENDS Mapping

IsCompute(op) == op.kind \in {"map", "map_reduce"}

\* An operation whose iteration space is the one of an operand: the value of
\* an fby, the only operand of a projection, the memref of a from/to_memref.
InferOperand(op) ==
  CASE op.kind \in {"proj", "from_memref", "to_memref"} -> 1
    [] op.kind = "fby" -> 2
    [] OTHER -> 0

AllowUseBeforeDef(op, arg) == op.kind = "fby" /\ arg = 2

CarryingDims(op, arg) ==
  IF op.kind = "fby" /\ arg = 2 THEN op.parallel .. op.domain - 1 ELSE {}

NumCommonLoops(names, others) ==
  Max({k \in 0..Len(names) : /\ k <= Len(others)
                             /\ SubSeq(names, 1, k) = SubSeq(others, 1, k)})

Space(names, domain_to_loops, full) ==
  [names |-> names, mapping |-> IterationSpaceMapping(domain_to_loops), full |-> full]

MappingToLoops(space) == Resize(space.mapping, Len(space.names))

\* The loops of the operand that iterate on dimensions the operand's mapping
\* covers; for a loop-carried operand, down to the last loop that carries it.
InferIterationSpace(parent, op, arg) ==
  LET m == op.args[arg].m
      loops == MappingToLoops(parent)
      kept == Max({k \in 0..Size(loops) :
                     MinDomainSize(Resize(loops, k)) <= Size(m)})
      domain_to_loops == Compose(m, Resize(loops, kept))
      carries(k) == DimsOf(domain_to_loops.es[k]) \cap CarryingDims(op, arg) # {}
      size == IF AllowUseBeforeDef(op, arg)
              THEN Max({0} \cup {k \in 1..kept : carries(k)}) ELSE kept
  IN  Space(SubSeq(parent.names, 1, size), Resize(domain_to_loops, size), parent.full)

EmptySpace(op) == Space(<<>>, MappingOf(op.domain, <<>>), FALSE)

\* ComputeIterationSpace: the spaces known once that of operation o is.  The
\* empty space stands for o while that of its operand is computed.
RECURSIVE ComputeIterationSpace(_, _, _)
ComputeIterationSpace(p, o, known) ==
  LET op == p[o]
      arg == op.args[InferOperand(op)]
      after == ComputeIterationSpace(p, arg.v[1], (o :> EmptySpace(op)) @@ known)
  IN  CASE o \in DOMAIN known -> known
        [] IsCompute(op) ->
             (o :> Space([i \in DOMAIN op.loops |-> op.loops[i].name],
                         MappingOf(op.domain, [i \in DOMAIN op.loops |-> op.loops[i].iter]),
                         TRUE)) @@ known
        [] ~IsCompute(op) /\ InferOperand(op) = 0 -> (o :> EmptySpace(op)) @@ known
        [] OTHER ->
             (o :> InferIterationSpace(after[arg.v[1]], op, InferOperand(op))) @@ after

IterationSpaceAnalysis(p) ==
  FoldLeft(LAMBDA known, o : ComputeIterationSpace(p, o, known), <<>>,
           [o \in DOMAIN p |-> o])

\* A mapping between the domains of two operations as a mapping between their
\* iteration spaces that is the identity on common loops; it may fail.
TranslateMapping(from, to, m) ==
  LET common == NumCommonLoops(from.names, to.names)
      space_mapping ==
        Canonicalize(Compose(Compose(InverseOf(from.mapping), m), to.mapping))
  IN  UnifyMappings(space_mapping,
                    Resize(Identity(common, Size(from.mapping)), Size(to.mapping)), TRUE)

====
