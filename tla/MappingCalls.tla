---------------------------- MODULE MappingCalls ----------------------------
(***************************************************************************)
(* A client of MappingAttr (sair_attributes.cc): it holds a mapping and    *)
(* replaces it by the result of one method after the other, the way the    *)
(* analyses chain them (Inverse().Compose(..).Compose(..).Canonicalize()). *)
(***************************************************************************)
EXTENDS Mapping

CONSTANTS
  Mappings,    \* the mappings of the program: where a chain starts, arguments
  MaxCalls,    \* bound on the length of a chain
  MaxIndex,    \* bound on the indices of a dimension
  AnyUnify     \* whether mappings that put one dimension in two places are
               \* unified

VARIABLES
  mapping,     \* the mapping in hand
  prev,        \* the mapping it was computed from
  call,        \* the call that computed it: method, argument, success
  calls        \* how many calls were made

vars == <<mapping, prev, call, calls>>

Init ==
  /\ mapping \in Mappings
  /\ prev = mapping
  /\ call = [name |-> "start", arg |-> mapping, ok |-> TRUE]
  /\ calls = 0

\* The client goes on with the result; a null result ends the chain.
Call(name, arg, result) ==
  /\ calls' = calls + 1
  /\ prev' = mapping
  /\ call' = [name |-> name, arg |-> arg, ok |-> ~Fails(result)]
  /\ mapping' = IF Fails(result) THEN mapping ELSE result

CallCompose ==
  \E m \in Mappings :
    /\ m.n = Size(mapping)
    /\ Call("Compose", m, Compose(mapping, m))

CallInverse == Call("Inverse", mapping, InverseOf(mapping))

CallCanonicalize == Call("Canonicalize", mapping, Canonicalize(mapping))

CallMakeSurjective == Call("MakeSurjective", mapping, MakeSurjective(mapping))

CallMakeFullySpecified ==
  Call("MakeFullySpecified", mapping, MakeFullySpecified(mapping))

CallResizeUseDomain ==
  \E n \in 0..mapping.n + 1 :
    Call("ResizeUseDomain", mapping, ResizeUseDomain(mapping, n))

CallResize ==
  \E n \in 0..Size(mapping) + 1 : Call("Resize", mapping, Resize(mapping, n))

CallShiftRight ==
  \E start \in 0..mapping.n :
    Call("ShiftRight", mapping, ShiftRight(mapping, 1, start))

CallUnify(name, none) ==
  \E m \in Mappings :
    LET result == UnifyMappings(mapping, m, none)
    IN  /\ m.n = mapping.n /\ Size(m) = Size(mapping)
        /\ AnyUnify \/ Fails(result) \/ VerifyMappingExprs(result)
        /\ Call(name, m, result)

IterationSpace ==
  Call("IterationSpace", mapping, IterationSpaceMapping(mapping))

Next ==
  /\ calls < MaxCalls /\ call.ok
  /\ \/ CallCompose
     \/ CallInverse
     \/ CallCanonicalize
     \/ CallMakeSurjective
     \/ CallMakeFullySpecified
     \/ CallResizeUseDomain
     \/ CallResize
     \/ CallShiftRight
     \/ CallUnify("Unify", TRUE)
     \/ CallUnify("UnifyUnknownExprs", FALSE)
     \/ IterationSpace

Spec == Init /\ [][Next]_vars

----------------------------------------------------------------------------
(* Properties.                                                             *)

IsTotal(m) == IsSurjective(m) /\ IsFullySpecified(m)

\* The points of the use domain, each dimension with indices below MaxIndex.
Points(m) == [1..m.n -> 0..MaxIndex]

\* At p the operands of every unstripe of e are the stripes of one index.
RECURSIVE AgreesAt(_, _)
AgreesAt(e, p) ==
  CASE e.op = "stripe" -> AgreesAt(e.e, p)
    [] e.op = "unstripe" ->
         \A i \in DOMAIN e.es :
           /\ AgreesAt(e.es[i], p)
           /\ AsAffineExpr(e.es[i], p) = e.f[i] * (AsAffineExpr(e, p) \div e.f[i])
    [] OTHER -> TRUE

PointsOf(m) == {p \in Points(m) : \A i \in DOMAIN m.es : AgreesAt(m.es[i], p)}

\* No sequence of calls violates the assertions of MappingAttr::get and
\* MappingUnStripeExpr::get: every mapping has valid factors and an inverse.
AssertionsHold ==
  /\ VerifyMappingExprs(mapping)
  /\ \A i \in DOMAIN mapping.es : HasValidFactors(mapping.es[i])
  /\ DependencyMask(mapping) \subseteq 0..mapping.n - 1

\* Canonicalize rewrites a mapping without changing the indices it computes
\* (AsAffineMap before and after agree).
CanonicalizeKeepsIndices ==
  call.name = "Canonicalize" /\ IsTotal(prev) =>
    \A p \in PointsOf(prev) : AsAffineMap(mapping, p) = AsAffineMap(prev, p)

\* The inverse of a mapping leads from the indices it computes back to the
\* point, provided that nothing of it is `none`.
InverseLeadsBack ==
  call.name = "Inverse" /\ IsTotal(prev) /\ IsTotal(mapping) =>
    \A p \in PointsOf(prev) : AsAffineMap(mapping, AsAffineMap(prev, p)) = p

\* Unify joins what two mappings know.  Whether they unify does not depend on
\* their order, and neither does the result except for what is still `none` or
\* `?`.  Nothing is lost: an expression without `none` and `?` stays as it is,
\* and the dimensions of both mappings are in the result.
UnifyIsAJoin ==
  call.name = "Unify" =>
    LET other == UnifyMappings(call.arg, prev, TRUE)
    IN  /\ Fails(other) <=> ~call.ok
        /\ call.ok =>
             /\ MakeFullySpecified(other) = MakeFullySpecified(mapping)
             /\ DependencyMask(mapping) = DependencyMask(prev) \cup DependencyMask(call.arg)
             /\ \A i \in DOMAIN mapping.es, m \in {prev, call.arg} :
                  IsTotal(MappingOf(m.n, <<m.es[i]>>)) => mapping.es[i] = m.es[i]

=============================================================================
