------------------------------ MODULE Mapping ------------------------------
(***************************************************************************)
(* Mapping expressions and mappings (sair_attributes.cc).                  *)
(*                                                                         *)
(* An expression is a dimension, `none`, `?`, a stripe of an expression or *)
(* an unstripe of several.  A mapping is the size of its use domain and a  *)
(* sequence of expressions over the dimensions 0 .. size - 1.  The null    *)
(* expression a method returns on failure is the value Null.               *)
(***************************************************************************)
EXTENDS Integers, Sequences, SequencesExt, FiniteSetsExt

Dim(d) == [op |-> "dim", d |-> d]
None == [op |-> "none"]
Unknown == [op |-> "?"]
Null == [op |-> "null"]
Stripe(e, f) == [op |-> "stripe", e |-> e, f |-> f]
UnStripe(es, f) == [op |-> "unstripe", es |-> es, f |-> f]

MappingOf(n, es) == [n |-> n, es |-> es]

Size(m) == Len(m.es)

----------------------------------------------------------------------------
(* Traversals: Map and Walk with the functions the code passes to them.    *)

\* The leaves of e from left to right: the order of Walk and of Map.
RECURSIVE Leaves(_)
Leaves(e) ==
  CASE e.op = "stripe" -> Leaves(e.e)
    [] e.op = "unstripe" -> FlattenSeq([i \in DOMAIN e.es |-> Leaves(e.es[i])])
    [] OTHER -> <<e>>

\* Every function given to Map changes leaves only; sub says how.
RECURSIVE MapLeaves(_, _)
MapLeaves(e, sub) ==
  CASE e.op = "stripe" -> Stripe(MapLeaves(e.e, sub), e.f)
    [] e.op = "unstripe" ->
         UnStripe([i \in DOMAIN e.es |-> MapLeaves(e.es[i], sub)], e.f)
    [] OTHER -> IF e \in DOMAIN sub THEN sub[e] ELSE e

DimsOf(e) == {l.d : l \in {k \in ToSet(Leaves(e)) : k.op = "dim"}}

\* A dimension beyond the substitution becomes `none`.
SubstituteDims(e, exprs) ==
  MapLeaves(e, [l \in {Dim(d) : d \in DimsOf(e)} |->
                  IF l.d < Len(exprs) THEN exprs[l.d + 1] ELSE None])

HasNoneExprs(e) == None \in ToSet(Leaves(e))
HasUnknownExprs(e) == Unknown \in ToSet(Leaves(e))

IsSurjective(m) == \A i \in DOMAIN m.es : ~HasNoneExprs(m.es[i])
IsFullySpecified(m) == \A i \in DOMAIN m.es : ~HasUnknownExprs(m.es[i])

DependencyMask(m) == UNION {DimsOf(m.es[i]) : i \in DOMAIN m.es}

MinDomainSize(m) == Max({0} \cup {d + 1 : d \in DependencyMask(m)})

----------------------------------------------------------------------------
(* Unification.                                                            *)

\* Mutant: `none` on the right is not replaced.
OnMismatchLeftOnly(x, y, none) ==
  IF none /\ x = None THEN y
  ELSE IF x = Unknown THEN y
  ELSE IF y = Unknown THEN x
  ELSE Null

\* The on_mismatch callbacks of Unify, that replaces `none` and `?`, and of
\* UnifyUnknownExprs, that replaces `?` only.
OnMismatch(x, y, none) ==
  IF none /\ x = None THEN y
  ELSE IF none /\ y = None THEN x
  ELSE IF x = Unknown THEN y
  ELSE IF y = Unknown THEN x
  ELSE Null

RECURSIVE UnifyExpr(_, _, _)
UnifyExpr(x, y, none) ==
  LET long == IF Len(x.f) >= Len(y.f) THEN x ELSE y
      short == IF Len(x.f) >= Len(y.f) THEN y ELSE x
      \* A last operand `none` or `?` stands for any number of operands.
      k == Len(short.f) - (IF Last(short.es) \in {None, Unknown} THEN 1 ELSE 0)
      es == [i \in DOMAIN long.es |->
               IF i <= k THEN UnifyExpr(long.es[i], short.es[i], none)
                         ELSE long.es[i]]
      e == UnifyExpr(x.e, y.e, none)
  IN  CASE x.op = "stripe" /\ y.op = "stripe" /\ x.f = y.f ->
             IF e = Null THEN Null ELSE Stripe(e, x.f)
        [] x.op = "unstripe" /\ y.op = "unstripe" ->
             IF SubSeq(short.f, 1, k) # SubSeq(long.f, 1, k)
             THEN OnMismatch(x, y, none)
             ELSE IF Null \in ToSet(es) THEN Null ELSE UnStripe(es, long.f)
        [] OTHER -> IF x = y THEN x ELSE OnMismatch(x, y, none)

\* MappingAttr::Unify and UnifyUnknownExprs: null when one expression fails.
UnifyMappings(m1, m2, none) ==
  MappingOf(m1.n, [i \in DOMAIN m1.es |-> UnifyExpr(m1.es[i], m2.es[i], none)])

Fails(m) == Null \in ToSet(m.es)

----------------------------------------------------------------------------
(* Inverse and validity.                                                   *)

\* The factors of the i-th stripe of an unstripe.
StripeFactors(f, i) == SubSeq(f, 1, i)

\* The inverses after those of e, whose context has the inverse ctx.  A
\* failure leaves Null, with which nothing unifies.
RECURSIVE SetInverse(_, _, _)
SetInverse(e, ctx, inverses) ==
  LET inner == IF Last(e.f) = 1 THEN <<>> ELSE <<1>>
  IN  CASE e.op = "dim" ->
             [inverses EXCEPT ![e.d + 1] = UnifyExpr(@, ctx, TRUE)]
        [] e.op = "stripe" ->
             SetInverse(e.e,
                        UnStripe([i \in 1..Len(e.f) + Len(inner) |->
                                    IF i = Len(e.f) THEN ctx ELSE None],
                                 e.f \o inner),
                        inverses)
        [] e.op = "unstripe" ->
             FoldLeft(LAMBDA acc, i :
                        SetInverse(e.es[i], Stripe(ctx, StripeFactors(e.f, i)), acc),
                      inverses, [i \in DOMAIN e.es |-> i])
        [] OTHER -> inverses

InverseOf(m) ==
  MappingOf(Size(m),
            FoldLeft(LAMBDA acc, i : SetInverse(m.es[i], Dim(i - 1), acc),
                     [i \in 1..m.n |-> None],
                     [i \in DOMAIN m.es |-> i]))

\* The assertions of MappingUnStripeExpr::get.
RECURSIVE HasValidFactors(_)
HasValidFactors(e) ==
  CASE e.op = "stripe" -> e.f # <<>> /\ HasValidFactors(e.e)
    [] e.op = "unstripe" ->
         /\ Len(e.es) = Len(e.f)
         /\ Last(e.f) = 1
         /\ \A i \in 1..Len(e.f) - 1 : e.f[i] > e.f[i + 1]
         /\ \A i \in DOMAIN e.es : HasValidFactors(e.es[i])
    [] OTHER -> TRUE

\* The assertion of MappingAttr::get.
VerifyMappingExprs(m) == ~Fails(InverseOf(m))
----------------------------------------------------------------------------
(* Canonical forms.                                                        *)

\* The factors a stripe shares with the unstripe it is applied to.
NumCommon(f, g) ==
  Max({n \in 0..Min({Len(f), Len(g)}) : SubSeq(f, 1, n) = SubSeq(g, 1, n)})

\* Mutant: the value of the factor is not looked at.
HasOneFactor(f) == Len(f) = 1

\* A stripe with the single factor 1 is the whole expression.
IsTrivial(f) == f = <<1>>

GetCanonicalStripe(e, f) ==
  LET Drop(s) == SubSeq(s, NumCommon(f, e.f) + 1, Len(s))
  IN  IF IsTrivial(f) THEN e
      ELSE IF e.op # "unstripe" THEN Stripe(e, f)
      ELSE IF NumCommon(f, e.f) = Len(f) THEN e.es[Len(f)]
      ELSE Stripe(UnStripe(Drop(e.es), Drop(e.f)), Drop(f))

\* Mutant: the factors are not compared.
CanCollapseAny(es, f) == Last(es).op = "unstripe"

\* The last operand is an unstripe whose factors continue those before it.
CanCollapse(es, f) ==
  /\ Last(es).op = "unstripe"
  /\ Len(f) > 1 => f[Len(f) - 1] > Head(Last(es).f)

\* How many operands at the end are stripes of the same expression.
SameStripes(es) ==
  LET IsSame(i) == es[i].op = "stripe" /\ es[i].e = Last(es).e
  IN  Max({n \in 1..Len(es) : \A i \in Len(es) - n + 1..Len(es) : IsSame(i)})

\* The stripes at the end have the factors of the unstripe.
CanStitch(es, f) ==
  /\ Last(es).op = "stripe"
  /\ LET g == Last(es).f
         k == Min({Len(f), Len(g)})
     IN  SubSeq(f, Len(f) - k + 1, Len(f)) = SubSeq(g, Len(g) - k + 1, Len(g))
  /\ SameStripes(es) > 1

RECURSIVE CanonicalUnStripe(_, _)
CanonicalUnStripe(es, f) ==
  LET last == Last(es)
      n == SameStripes(es)
      kept == Len(es) - n
  IN  IF CanCollapse(es, f)
      THEN CanonicalUnStripe(Front(es) \o last.es, Front(f) \o last.f)
      ELSE IF CanStitch(es, f)
      THEN CanonicalUnStripe(
             Append(SubSeq(es, 1, kept),
                    GetCanonicalStripe(last.e,
                                       Append(SubSeq(last.f, 1, Len(last.f) - n), 1))),
             Append(SubSeq(f, 1, kept), 1))
      ELSE IF f = <<1>> THEN es[1]
      ELSE UnStripe(es, f)

RECURSIVE Canonical(_)
Canonical(e) ==
  CASE e.op = "stripe" -> GetCanonicalStripe(Canonical(e.e), e.f)
    [] e.op = "unstripe" ->
         CanonicalUnStripe([i \in DOMAIN e.es |-> Canonical(e.es[i])], e.f)
    [] OTHER -> e

Canonicalize(m) == MappingOf(m.n, [i \in DOMAIN m.es |-> Canonical(m.es[i])])

----------------------------------------------------------------------------
(* The other methods of MappingAttr.                                       *)

Identity(k, n) == MappingOf(n, [i \in 1..k |-> Dim(i - 1)])

\* Applies m1, then m2.
Compose(m1, m2) ==
  MappingOf(m1.n, [i \in DOMAIN m2.es |-> SubstituteDims(m2.es[i], m1.es)])

\* The `none` leaves become new dimensions, numbered from left to right.
RECURSIVE FillNones(_, _)
FillNones(e, n) ==
  LET NumNones(x) == Len(SelectSeq(Leaves(x), LAMBDA l : l = None))
      Before(i) == FoldLeft(LAMBDA acc, x : acc + NumNones(x), 0,
                            SubSeq(e.es, 1, i - 1))
  IN  CASE e = None -> Dim(n)
        [] e.op = "stripe" -> Stripe(FillNones(e.e, n), e.f)
        [] e.op = "unstripe" ->
             UnStripe([i \in DOMAIN e.es |-> FillNones(e.es[i], n + Before(i))], e.f)
        [] OTHER -> e

MakeSurjective(m) ==
  FoldLeft(LAMBDA acc, e :
             MappingOf(acc.n + Len(SelectSeq(Leaves(e), LAMBDA l : l = None)),
                       Append(acc.es, FillNones(e, acc.n))),
           MappingOf(m.n, <<>>), m.es)

MakeFullySpecified(m) ==
  MappingOf(m.n, [i \in DOMAIN m.es |->
                    MapLeaves(m.es[i], [l \in {Unknown} |-> None])])

ResizeUseDomain(m, n) ==
  IF n >= m.n THEN MappingOf(n, m.es)
  ELSE MappingOf(n, [i \in DOMAIN m.es |->
                       SubstituteDims(m.es[i], [d \in 1..n |-> Dim(d - 1)])])

Resize(m, size) ==
  MappingOf(m.n, [i \in 1..size |-> IF i <= Size(m) THEN m.es[i] ELSE None])

ShiftRight(m, offset, start) ==
  LET shifted == [d \in 1..m.n |->
                    Dim(IF d <= start THEN d - 1 ELSE d - 1 + offset)]
  IN  MappingOf(m.n + offset,
                [i \in DOMAIN m.es |-> SubstituteDims(m.es[i], shifted)])

AddPrefix(m, exprs) == MappingOf(m.n, exprs \o m.es)

DropFront(m, k) == MappingOf(m.n, SubSeq(m.es, k + 1, Size(m)))

\* Mutant: an unstripe has the index of its outermost stripe.
RECURSIVE AsOuterAffineExpr(_, _)
AsOuterAffineExpr(e, p) ==
  CASE e.op = "dim" -> p[e.d + 1]
    [] e.op = "stripe" -> Last(e.f) * (AsOuterAffineExpr(e.e, p) \div Last(e.f))
    [] e.op = "unstripe" -> AsOuterAffineExpr(Head(e.es), p)

\* The index e denotes at the point p of the use domain.
RECURSIVE AsAffineExpr(_, _)
AsAffineExpr(e, p) ==
  CASE e.op = "dim" -> p[e.d + 1]
    [] e.op = "stripe" -> Last(e.f) * (AsAffineExpr(e.e, p) \div Last(e.f))
    [] e.op = "unstripe" -> AsAffineExpr(Last(e.es), p)

AsAffineMap(m, p) == [i \in DOMAIN m.es |-> AsAffineExpr(m.es[i], p)]

\* The iteration space of an operation whose loops are the expressions of
\* domain_to_loops: it starts with these loops and covers the whole domain.
IterationSpaceMapping(domain_to_loops) ==
  InverseOf(MakeSurjective(InverseOf(domain_to_loops)))

====
