---------------------------- MODULE DomainShape -----------------------------
(***************************************************************************)
(* Domain shapes (sair_attributes.cc): how the dimensions of a domain      *)
(* depend on each other, and what a mapping makes of it.                   *)
(*                                                                         *)
(* A shape is a sequence of mappings: the i-th says on which of the        *)
(* dimensions before it dimension i depends.  The types and steps of the   *)
(* ranges are left out.                                                    *)
(***************************************************************************)
EXTENDS Mapping

\* The sub-expression of the inverse that computes the value of e.
RECURSIVE FindInInverse(_, _)
FindInInverse(e, inverse) ==
  CASE e.op = "dim" -> inverse[e.d + 1]
    [] e.op = "stripe" ->
         LET i == FindInInverse(e.e, inverse)
         IN  IF i \in {None, Unknown} THEN i ELSE i.es[Len(e.f)]
    [] e.op = "unstripe" ->
         LET Found(k) == FindInInverse(e.es[k], inverse)
             known == {k \in DOMAIN e.es : Found(k) \notin {None, Unknown}}
         IN  IF known = {} THEN Found(Len(e.es)) ELSE Found(Min(known)).e
    [] OTHER -> e

ApplyTo(dependencies, m) == Canonicalize(Compose(m, dependencies))

\* A stripe depends on the larger stripes it is part of.
StripeAccessedShape(e, inner, inverse) ==
  LET i == FindInInverse(e.e, inverse.es)
      larger == [k \in 1 .. Len(e.f) - 1 |-> IF i.op = "unstripe" THEN i.es[k] ELSE i]
  IN  MappingOf(inverse.n, inner.es \o larger)

\* The dependencies of expression e of the mapping with the given inverse.
RECURSIVE AccessedDim(_, _, _)
AccessedDim(e, inverse, shape) ==
  CASE e.op = "dim" -> ApplyTo(shape[e.d + 1], inverse)
    [] e.op = "stripe" ->
         StripeAccessedShape(e, AccessedDim(e.e, inverse, shape), inverse)
    [] e.op = "unstripe" -> AccessedDim(Head(e.es), inverse, shape)

AccessedShape(shape, m) ==
  [i \in DOMAIN m.es |-> AccessedDim(m.es[i], ResizeUseDomain(InverseOf(m), i - 1), shape)]

\* The assertions of DomainShapeAttr::get and AccessedShape.
IsShape(shape) ==
  \A i \in DOMAIN shape :
    /\ shape[i].n = i - 1
    /\ IsSurjective(shape[i]) /\ IsFullySpecified(shape[i])

\* The shape of e, in a set: the set is empty when an operand of e is unknown.
RECURSIVE ExprShape(_, _, _)
ExprShape(e, inverse, shape) ==
  CASE e.op = "dim" -> {ApplyTo(shape[e.d + 1], inverse)}
    [] e.op = "stripe" ->
         {StripeAccessedShape(e, s, inverse) : s \in ExprShape(e.e, inverse, shape)}
    [] e.op = "unstripe" -> ExprShape(Head(e.es), inverse, shape)
    [] OTHER -> {}

\* Operand i of an unstripe depends on the operands before it.
RECURSIVE VerifyMappingExprShape(_, _, _)
VerifyMappingExprShape(e, inverse, shape) ==
  CASE e.op = "stripe" -> VerifyMappingExprShape(e.e, inverse, shape)
    [] e.op = "unstripe" ->
         \A i \in DOMAIN e.es :
           /\ VerifyMappingExprShape(e.es[i], inverse, shape)
           /\ \A s \in ExprShape(e.es[i], inverse, shape) : Size(s) >= i - 1
    [] OTHER -> TRUE

VerifyMappingShape(m, shape) ==
  \A i \in DOMAIN m.es :
    /\ VerifyMappingExprShape(m.es[i], InverseOf(m), shape)
    /\ \A s \in ExprShape(m.es[i], InverseOf(m), shape) : MinDomainSize(s) < i

----------------------------------------------------------------------------
(* Loop nests.  A loop is a record: its name, its iterator, its unroll     *)
(* factor (0 for none).                                                    *)

IterExprs(loops) == [i \in DOMAIN loops |-> loops[i].iter]

LoopNames(loops) == [i \in DOMAIN loops |-> loops[i].name]

VerifyLoopNestWellFormed(shape, loops) ==
  LET m == MappingOf(Len(shape), IterExprs(loops))
  IN  /\ IsInjective(LoopNames(loops))
      /\ DependencyMask(m) \subseteq 0 .. Len(shape) - 1
      /\ IsFullySpecified(m)
      /\ VerifyMappingExprs(m)
      /\ IsSurjective(InverseOf(m))
      /\ VerifyMappingShape(m, shape)

=============================================================================
