---------------------------- MODULE MappedDomain ----------------------------
(***************************************************************************)
(* A domain that grows while mappings are unified (mapped_domain.cc).      *)
(*                                                                         *)
(* A mapped domain is a record: its dimensions (the value that defines the *)
(* range, and on which of the other dimensions it depends), the mapping    *)
(* from these dimensions, the names of the loops it is defined in and the  *)
(* mapping from the dimensions to these loops.                             *)
(***************************************************************************)
EXTENDS DomainShape

\* The value of a dimension whose range is not known.
Placeholder == "placeholder"

----------------------------------------------------------------------------
(* Constraints: what the dimensions of lhs stand for in rhs.  A failure    *)
(* ends the computation; so does an access out of the constraints' bounds. *)

Constraints(exprs) == [status |-> "ok", exprs |-> exprs]

\* Dimension d of lhs stands for e.
ConstrainDim(d, e, c) ==
  IF d < 0 THEN [c EXCEPT !.status = "out of bounds"]
  ELSE LET u == UnifyExpr(c.exprs[d + 1], e, TRUE)
       IN  IF u = Null THEN [c EXCEPT !.status = "failure"]
           ELSE [c EXCEPT !.exprs[d + 1] = u]

\* Unify, called with the callback of UnificationConstraints: the left side
\* and the right side change places where the right side has more factors.
RECURSIVE Constrain(_, _, _, _)
Constrain(x, y, shift, c) ==
  LET long == IF Len(x.f) >= Len(y.f) THEN x ELSE y
      short == IF Len(x.f) >= Len(y.f) THEN y ELSE x
      k == Len(short.f) - (IF Last(short.es) \in {None, Unknown} THEN 1 ELSE 0)
  IN  CASE c.status # "ok" -> c
        [] c.status = "ok" /\ x.op = "stripe" /\ y.op = "stripe" /\ x.f = y.f ->
             Constrain(x.e, y.e, shift, c)
        [] c.status = "ok" /\ x.op = "unstripe" /\ y.op = "unstripe"
             /\ SubSeq(short.f, 1, k) = SubSeq(long.f, 1, k) ->
             FoldLeft(LAMBDA acc, i : Constrain(long.es[i], short.es[i], shift, acc),
                      c, [i \in 1 .. k |-> i])
        [] OTHER ->
             IF x = y \/ {x, y} \cap {None, Unknown} # {} THEN c
             ELSE IF x.op = "dim" THEN ConstrainDim(x.d - shift, y, c)
             ELSE [c EXCEPT !.status = "failure"]

UnificationConstraints(lhs, rhs, c) ==
  LET shifted == ShiftRight(lhs, rhs.n, 0)
  IN  FoldLeft(LAMBDA acc, i : Constrain(shifted.es[i], rhs.es[i], rhs.n, acc),
               c, [i \in DOMAIN rhs.es |-> i])

----------------------------------------------------------------------------
(* The methods of MappedDomain.                                            *)

\* The loop nest without loops.
EmptyNest == [domain |-> <<>>, names |-> <<>>, domain_to_loops |-> MappingOf(0, <<>>)]

MakeMappedDomain(nest) ==
  [domain |-> nest.domain, mapping |-> MappingOf(Len(nest.domain), <<>>),
   loop_nest |-> nest.names, loops_mapping |-> nest.domain_to_loops]

NestedMapping(md) == AddPrefix(md.mapping, md.loops_mapping.es)

NestedShape(md) ==
  AccessedShape([i \in DOMAIN md.domain |-> md.domain[i].m], NestedMapping(md))

AddNonePrefixToMapping(md, k) ==
  [md EXCEPT !.mapping = AddPrefix(@, [i \in 1 .. k |-> None])]

\* A unification in progress: the dimensions so far and the constraints.
Resolution(status, domain, exprs) ==
  [status |-> status, domain |-> domain, exprs |-> exprs]

\* Mutant: the range that defines the dimension is not looked at.
MatchesMapping(dimension, old) == dimension.m.es = old.m.es

\* The dimension and the one it is unified with are the same.
MatchesDimension(dimension, old) ==
  dimension.v = old.v /\ dimension.m.es = old.m.es

\* Dimension d of the new mapping joins the domain.
ResolveUnification(r, d, dimension) ==
  LET constraint == r.exprs[d + 1]
  IN  IF dimension.v = Placeholder THEN r
      ELSE IF constraint \in {None, Unknown}
      THEN Resolution("ok", Append(r.domain, dimension),
                      [r.exprs EXCEPT ![d + 1] = Dim(Len(r.domain))])
      ELSE IF constraint.op = "dim" /\ MatchesDimension(dimension, r.domain[constraint.d + 1])
      THEN r
      ELSE [r EXCEPT !.status = "error"]

\* The dimension in terms of the domain: the constraints before it are applied.
ResolveDim(r, d, dimension) ==
  LET prefix == MappingOf(Len(r.domain), SubSeq(r.exprs, 1, d))
      m == Compose(prefix, dimension.m)
  IN  IF r.status # "ok" THEN r
      ELSE IF ~VerifyMappingExprs(prefix) THEN [r EXCEPT !.status = "assertion"]
      ELSE IF ~IsSurjective(m) THEN [r EXCEPT !.status = "error"]
      ELSE ResolveUnification(r, d, [v |-> dimension.v, m |-> m])

\* The mapped domain after a unification and how it ended: "ok", "error"
\* (reported to the user), "assertion" (an assertion fails) or "out of bounds".
Outcome(status, md) == [status |-> status, md |-> md]

SetMapping(md, r, mapping) ==
  IF Fails(mapping) THEN Outcome("assertion", md)
  ELSE Outcome("ok", [md EXCEPT !.domain = r.domain, !.mapping = mapping])

\* The constraints are resolved: the mappings are unified.
ApplyUnification(md, new_mapping, r) ==
  IF r.status # "ok" THEN Outcome(r.status, md)
  ELSE SetMapping(md, r,
         UnifyMappings(Compose(MappingOf(Len(r.domain), r.exprs), new_mapping),
                       ResizeUseDomain(md.mapping, Len(r.domain)), TRUE))

ResolveConstraints(md, new_mapping, new_domain, inner) ==
  IF inner.status = "ok"
  THEN ApplyUnification(md, new_mapping,
         FoldLeft(LAMBDA acc, d : ResolveDim(acc, d, new_domain[d + 1]),
                  Resolution("ok", md.domain, inner.exprs),
                  SetToSortSeq(DependencyMask(new_mapping), <)))
  ELSE Outcome(IF inner.status = "failure" THEN "error" ELSE inner.status, md)

\* The loops around the mapping have to unify.
UnifyNested(md, new_mapping, new_domain, outer) ==
  IF outer.status = "failure" THEN Outcome("assertion", md)
  ELSE ResolveConstraints(md, new_mapping, new_domain,
                          UnificationConstraints(new_mapping, md.mapping, outer))

UnifyMapping(md, loop_nest_mapping, new_mapping, new_domain) ==
  UnifyNested(md, new_mapping, new_domain,
              UnificationConstraints(loop_nest_mapping, md.loops_mapping,
                                     Constraints([d \in DOMAIN new_domain |-> None])))

=============================================================================
