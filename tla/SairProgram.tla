---------------------------- MODULE SairProgram -----------------------------
(***************************************************************************)
(* A Sair program as the passes see that rewrite its operations alone.      *)
(* Copies are materialized and instances are left out, so an operation is   *)
(*   kind   from_scalar, map, map_reduce, fby, proj_last, proj_any or exit; *)
(*   par    its parallel domain, a sequence of the sizes of static ranges;  *)
(*   other  its reduction, sequential or projection domain;                 *)
(*   args   its value operands, [v, r, m]: the operation that defines the   *)
(*          value, which of its results it is, and the mapping, whose       *)
(*          expressions are dimensions;                                     *)
(*   body   for a map or a map_reduce, each result as [f, xs]: a function   *)
(*          and the block arguments it is applied to; for a from_scalar,    *)
(*          the term the scalar stands for.                                 *)
(* An ir is [ops, order]: the operations by name and their order in the     *)
(* block.  Names of erased operations are used again.                       *)
(***************************************************************************)
EXTENDS Mapping

Op(kind, par, other, args, body) ==
  [kind |-> kind, par |-> par, other |-> other, args |-> args, body |-> body]

Access(v, r, m) == [v |-> v, r |-> r, m |-> m]

IsProj(op) == op.kind \in {"proj_last", "proj_any"}
HasBody(op) == op.kind \in {"map", "map_reduce"}

Domain(op) == op.par \o op.other

NumResults(op) == IF HasBody(op) THEN Len(op.body) ELSE IF op.kind = "exit" THEN 0 ELSE 1

(* Shape().Prefix(results_rank()).                                          *)
ResultShape(op) == IF op.kind = "fby" THEN Domain(op) ELSE op.par

(* The sizes of the ranges a mapping picks from a domain.                   *)
AccessedSizes(domain, m) == [i \in DOMAIN m.es |-> domain[m.es[i].d + 1]]

(* The dimensions an operand may not depend on: the others, for the initial *)
(* value of an fby or of a reduction.                                       *)
DimsDependingOnOperand(op, pos) ==
  IF \/ op.kind = "fby" /\ pos = 1
     \/ op.kind = "map_reduce" /\ pos <= Len(op.body)
  THEN Len(op.par) .. Len(Domain(op)) - 1
  ELSE {}

VerifySairOp(ops, o) ==
  \A pos \in DOMAIN ops[o].args :
    LET a == ops[o].args[pos]
    IN  /\ a.v \in DOMAIN ops
        /\ a.r \in 1 .. NumResults(ops[a.v])
        /\ IsSurjective(a.m) /\ IsFullySpecified(a.m)
        /\ a.m.n = Len(Domain(ops[o]))
        /\ MinDomainSize(a.m) <= a.m.n
        /\ VerifyMappingExprs(a.m)
        /\ AccessedSizes(Domain(ops[o]), a.m) = ResultShape(ops[a.v])
        /\ DependencyMask(a.m) \cap DimsDependingOnOperand(ops[o], pos) = {}
-----------------------------------------------------------------------------
(* What a program computes: the set of terms a result may be, at a point.   *)
(* A sair.proj_any returns any of the values it projects.                   *)

Points(sizes) == {p \in [DOMAIN sizes -> 0 .. Max({0} \cup ToSet(sizes))] :
                    \A i \in DOMAIN sizes : p[i] < sizes[i]}

IsFirst(op, p) == \A i \in Len(op.par) + 1 .. Len(p) : p[i] = 0

LastPoint(sizes) == [i \in DOMAIN sizes |-> sizes[i] - 1]

(* The point before p in the lexicographic order of the other domain.       *)
PreviousPoint(op, p) ==
  LET k == Max({i \in Len(op.par) + 1 .. Len(p) : p[i] > 0})
  IN  [i \in DOMAIN p |-> IF i < k THEN p[i] ELSE IF i = k THEN p[i] - 1 ELSE Domain(op)[i] - 1]

(* A function applied, at a point, to any choice of its arguments.          *)
Terms(result, p, Argument(_)) ==
  {<<result.f, p, xs>> :
     xs \in FoldLeft(LAMBDA chosen, x : {Append(c, t) : c \in chosen, t \in Argument(x)},
                     {<<>>}, result.xs)}

RECURSIVE Values(_, _, _, _)
RECURSIVE Reductions(_, _, _, _)
Values(ops, o, r, p) ==
  LET op == ops[o]
      Operand(x, q) == Values(ops, op.args[x].v, op.args[x].r, AsAffineMap(op.args[x].m, q))
  IN  CASE op.kind = "from_scalar" -> {op.body}
        [] op.kind = "map"         -> Terms(op.body[r], p, LAMBDA x : Operand(x, p))
        [] op.kind = "fby"         -> IF IsFirst(op, p) THEN Operand(1, p)
                                      ELSE Operand(2, PreviousPoint(op, p))
        [] op.kind = "proj_last"   -> Operand(1, p \o LastPoint(op.other))
        [] op.kind = "proj_any"    -> UNION {Operand(1, p \o q) : q \in Points(op.other)}
        [] op.kind = "map_reduce"  -> Reductions(ops, o, r, p \o LastPoint(op.other))

(* The value a reduction has after point p.                                 *)
Reductions(ops, o, r, p) ==
  LET op == ops[o]
      Operand(x) ==
        IF x <= Len(op.body) /\ ~ IsFirst(op, p) THEN Reductions(ops, o, x, PreviousPoint(op, p))
        ELSE Values(ops, op.args[x].v, op.args[x].r, AsAffineMap(op.args[x].m, p))
  IN  Terms(op.body[r], p, Operand)

(* What sair.exit returns.                                                  *)
Outcomes(ir) ==
  LET exit == ir.ops[Last(ir.order)]
  IN  [i \in DOMAIN exit.args |-> Values(ir.ops, exit.args[i].v, exit.args[i].r, <<>>)]
-----------------------------------------------------------------------------
(* Edits of a program.                                                      *)

(* New operations, the k-th of them under the k-th of the names.            *)
WithOps(ops, names, created) ==
  [x \in DOMAIN ops \cup ToSet(names) |->
     IF x \in DOMAIN ops THEN ops[x] ELSE created[CHOOSE k \in DOMAIN names : names[k] = x]]

Without(ops, dead) == [x \in DOMAIN ops \ dead |-> ops[x]]

FreshNames(ops, k) ==
  SubSeq(SetToSortSeq((1 .. Cardinality(DOMAIN ops) + k) \ DOMAIN ops, <), 1, k)

MapArgs(ops, Change(_)) ==
  [x \in DOMAIN ops |->
     [ops[x] EXCEPT !.args = [i \in DOMAIN ops[x].args |-> Change(ops[x].args[i])]]]

(* ValueOperand::SubstituteValue.                                           *)
SubstituteValue(a, access) == Access(access.v, access.r, Compose(a.m, access.m))

(* UpdateValueUses, for an operation with one result.                       *)
UpdateValueUses(ops, o, access) ==
  MapArgs(ops, LAMBDA a : IF a.v = o THEN SubstituteValue(a, access) ELSE a)

(* replaceAllUsesWith: each result of o by the only one of an operation.    *)
ReplaceAllUsesWith(ops, o, new) ==
  MapArgs(ops, LAMBDA a : IF a.v = o THEN Access(new[a.r], 1, a.m) ELSE a)

NumUses(ops, o, r) ==
  Cardinality({u \in UNION {{<<x, i>> : i \in DOMAIN ops[x].args} : x \in DOMAIN ops} :
                 LET a == ops[u[1]].args[u[2]] IN a.v = o /\ a.r = r})

IsUnused(ops, o) == \A x \in DOMAIN ops : \A i \in DOMAIN ops[x].args : ops[x].args[i].v # o

(* The order with names in the place of o.                                  *)
InPlaceOf(order, o, names) ==
  LET i == CHOOSE k \in DOMAIN order : order[k] = o
  IN  SubSeq(order, 1, i - 1) \o names \o SubSeq(order, i + 1, Len(order))

EraseOp(ir, o) ==
  [ir EXCEPT !.ops = Without(ir.ops, {o}), !.order = InPlaceOf(ir.order, o, <<>>)]
=============================================================================
