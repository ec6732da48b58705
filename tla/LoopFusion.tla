----------------------------- MODULE LoopFusion -----------------------------
(***************************************************************************)
(* Loop fusion (LoopFusionAnalysis, loop_nest.cc): all loops with one name *)
(* are one loop, whose range is unified from the iterators of all the      *)
(* operations it appears on.  The analysis goes through a work list of     *)
(* operations once per nesting level; the sub-domains are verified last.   *)
(*                                                                         *)
(* A compute operation is a record: its domain (for every dimension the    *)
(* value that defines the range and the dimensions it depends on), the     *)
(* sizes of its sub-domains, its loops and its place in the sequence.      *)
(***************************************************************************)
EXTENDS MappedDomain

CONSTANTS
  Programs,   \* the programs to analyse: sequences of operations, in block order
  Names       \* the names of loops

VARIABLES
  program,
  classes,    \* the fusion classes so far: a function on names of loops
  workList,   \* the operations whose loops are not all registered
  level,      \* the nesting level
  next,       \* the position in the work list
  status      \* "running", "checking", "ok", "error", "assertion", "out of bounds"

vars == <<program, classes, workList, level, next, status>>

Loops(o) == program[o].loops

----------------------------------------------------------------------------
(* Fusion classes and loop nests.                                          *)

\* GetLoopNest: what the class of the innermost loop says of the nest.
GetLoopNest(cs, names) ==
  IF names = <<>> THEN EmptyNest
  ELSE LET c == cs[Last(names)]
       IN  [domain |-> c.md.domain, names |-> Append(c.md.loop_nest, Last(names)),
            domain_to_loops |-> NestedMapping(c.md)]

NewClass(o, pos, nest) ==
  [md |-> AddNonePrefixToMapping(MakeMappedDomain(nest), 1),
   last |-> o, unroll |-> Loops(o)[pos].unroll]

\* Mutant: the operation registered last ends the loop.
AddLastUse(c, o) == [c EXCEPT !.last = o]

\* The loop ends after the last of its operations in the sequence.
AddUse(c, o) ==
  IF program[c.last].rank < program[o].rank THEN [c EXCEPT !.last = o] ELSE c

\* Mutant: unroll factors are only compared where one is given.
IsSameLoopOrPlain(isNew, class, names, unroll) ==
  names = class.md.loop_nest /\ (isNew \/ unroll \in {0, class.unroll})

\* The loop is the one of the class: nested in the same loops, unrolled alike.
IsSameLoop(isNew, class, names, unroll) ==
  names = class.md.loop_nest /\ (isNew \/ unroll = class.unroll)

\* The classes after loop pos of operation o is registered, with the outcome.
RegisterLoop(cs, o, pos) ==
  LET op == program[o]
      names == LoopNames(SubSeq(op.loops, 1, pos - 1))
      loop == op.loops[pos]
      isNew == loop.name \notin DOMAIN cs
      class == IF isNew THEN NewClass(o, pos, GetLoopNest(cs, names)) ELSE cs[loop.name]
      used == IF isNew THEN class ELSE AddUse(class, o)
      Unified(u) == [status |-> u.status,
                     cs |-> (loop.name :> [used EXCEPT !.md = u.md]) @@ cs]
  IN  IF ~IsSameLoop(isNew, class, names, loop.unroll)
      THEN [status |-> "error", cs |-> cs]
      ELSE Unified(UnifyMapping(class.md,
                     MappingOf(Len(op.domain), SubSeq(IterExprs(op.loops), 1, pos - 1)),
                     MappingOf(Len(op.domain), <<loop.iter>>), op.domain))

\* Every iterator is fully specified.
IsSpecified(cs) == \A n \in DOMAIN cs : ~HasNoneExprs(Head(cs[n].md.mapping.es))

----------------------------------------------------------------------------
(* Sub-domains: a loop iterates along one of them.                         *)

\* Mutant: the last dimension of an iterator may be in another sub-domain.
StaysInFirst(dims, lo, hi) == Min(dims) >= lo /\ Min(dims) < hi

StaysIn(dims, lo, hi) == Min(dims) >= lo /\ Max(dims) < hi

\* The sub-domain found for dimension d: the search starts with <<0, sizes[1]>>.
RECURSIVE FindSubDomain(_, _, _, _, _)
FindSubDomain(sizes, d, i, lo, hi) ==
  IF d < hi THEN <<lo, hi>> ELSE FindSubDomain(sizes, d, i + 1, hi, hi + sizes[i])

VerifySubDomains(op) ==
  LET space == IterationSpaceMapping(MappingOf(Len(op.domain), IterExprs(op.loops)))
  IN  \A i \in DOMAIN op.loops :
        LET dims == DimsOf(space.es[i])
            sub == IF HasNoneExprs(space.es[i]) THEN <<0, op.sub[1]>>
                   ELSE FindSubDomain(op.sub, Min(dims), 1, 0, op.sub[1])
        IN  dims # {} => StaysIn(dims, sub[1], sub[2])

----------------------------------------------------------------------------
(* The analysis.                                                           *)

Init ==
  /\ program \in Programs
  /\ classes = <<>>
  /\ workList = [o \in DOMAIN program |-> o]
  /\ level = 0 /\ next = 1
  /\ status = "running"

\* The operation has no loop at this level: the last one takes its place.
RemoveOp ==
  /\ status = "running" /\ next <= Len(workList)
  /\ Len(Loops(workList[next])) <= level
  /\ workList' = Front([workList EXCEPT ![next] = Last(workList)])
  /\ UNCHANGED <<program, classes, level, next, status>>

RegisterNext ==
  /\ status = "running" /\ next <= Len(workList)
  /\ Len(Loops(workList[next])) > level
  /\ LET r == RegisterLoop(classes, workList[next], level + 1)
     IN  /\ classes' = r.cs
         /\ status' = IF r.status = "ok" THEN status ELSE r.status
  /\ next' = next + 1
  /\ UNCHANGED <<program, workList, level>>

NextLevel ==
  /\ status = "running" /\ next > Len(workList) /\ workList # <<>>
  /\ level' = level + 1 /\ next' = 1
  /\ UNCHANGED <<program, classes, workList, status>>

\* All loops are registered: every iterator must be fully specified.
EnsureSpecified ==
  /\ status = "running" /\ workList = <<>>
  /\ status' = IF IsSpecified(classes) THEN "checking" ELSE "error"
  /\ UNCHANGED <<program, classes, workList, level, next>>

VerifyOps ==
  /\ status = "checking"
  /\ status' = IF \A o \in DOMAIN program : VerifySubDomains(program[o])
               THEN "ok" ELSE "error"
  /\ UNCHANGED <<program, classes, workList, level, next>>

Finished == status \notin {"running", "checking"}

Done == Finished /\ UNCHANGED vars

Next == RemoveOp \/ RegisterNext \/ NextLevel \/ EnsureSpecified \/ VerifyOps \/ Done

Spec == Init /\ [][Next]_vars

----------------------------------------------------------------------------
(* Properties.                                                             *)

Fused == status \in {"checking", "ok"}

\* The state is well formed; in particular every class has an iterator for its
\* own loop and one for each loop around it, over the dimensions of its domain.
TypeOK ==
  /\ status \in {"running", "checking", "ok", "error", "assertion", "out of bounds"}
  /\ workList \in Seq(DOMAIN program) /\ level \in Nat /\ next \in 1 .. Len(workList) + 1
  /\ DOMAIN classes \subseteq Names
  /\ \A n \in DOMAIN classes :
       LET md == classes[n].md
       IN  /\ classes[n].last \in DOMAIN program
           /\ Size(md.mapping) = 1 /\ md.mapping.n = Len(md.domain)
           /\ Size(md.loops_mapping) = Len(md.loop_nest)
           /\ DependencyMask(NestedMapping(md)) \subseteq 0 .. Len(md.domain) - 1

\* The dimensions the first k loops of op iterate on.
CoveredDims(op, k) == DependencyMask(MappingOf(0, SubSeq(IterExprs(op.loops), 1, k)))

\* The first k loops of op have iterators over known ranges.
IsKnown(op, k) ==
  /\ \A i \in 1 .. k : ~HasNoneExprs(op.loops[i].iter)
  /\ \A d \in CoveredDims(op, k) : op.domain[d + 1].v # Placeholder

\* The dimensions of x and y that the first k loops iterate on correspond: f
\* turns the iterators and the ranges of x into those of y.
HaveSameLoops(x, y, k) ==
  \E f \in [CoveredDims(x, k) -> CoveredDims(y, k)] :
    LET Renamed(e) == MapLeaves(e, [l \in {Dim(d) : d \in DOMAIN f} |-> Dim(f[l.d])])
    IN  /\ \A d, e \in DOMAIN f : f[d] = f[e] => d = e
        /\ \A i \in 1 .. k : Renamed(x.loops[i].iter) = y.loops[i].iter
        /\ \A d \in DOMAIN f :
             LET dx == x.domain[d + 1]
                 dy == y.domain[f[d] + 1]
             IN  /\ dx.v = dy.v
                 /\ [i \in DOMAIN dx.m.es |-> Renamed(dx.m.es[i])] = dy.m.es

\* Fusion is sound: operations that share loops iterate over the same ranges,
\* in the same order, whatever the order in which the analysis met them and
\* although it never compares two operations with each other.
FusedLoopsAgree ==
  Fused =>
    \A x, y \in ToSet(program) : \A k \in 1 .. Min({Len(x.loops), Len(y.loops)}) :
      x.loops[k].name = y.loops[k].name /\ IsKnown(x, k) /\ IsKnown(y, k) =>
        HaveSameLoops(x, y, k)

\* A loop has one place: it is nested in the same loops on every operation.
FusedLoopsAreNestedAlike ==
  Fused =>
    \A x, y \in ToSet(program) : \A i \in DOMAIN x.loops, j \in DOMAIN y.loops :
      x.loops[i].name = y.loops[j].name =>
        /\ SubSeq(LoopNames(x.loops), 1, i) = SubSeq(LoopNames(y.loops), 1, j)
        /\ x.loops[i].unroll = y.loops[j].unroll

\* The range of a loop only depends on the loops around it: its shape, which
\* TrimDependencies and the lowering ask for, exists (DomainShapeAttr::get).
LoopsHaveAShape ==
  Fused =>
    \A n \in DOMAIN classes : /\ IsSurjective(NestedMapping(classes[n].md))
                              /\ IsShape(NestedShape(classes[n].md))

\* The loop is said to end after the last operation of the sequence that is
\* nested in it, although operations leave the work list in another order.
LoopsEndAfterLastUse ==
  Fused =>
    \A n \in DOMAIN classes :
      LET users == {o \in DOMAIN program : n \in ToSet(LoopNames(Loops(o)))}
      IN  /\ classes[n].last \in users
          /\ \A o \in users : program[o].rank <= program[classes[n].last].rank

\* What the analysis keeps of a loop fits all the operations in the loop.
ClassesAreConsistent ==
  TypeOK /\ FusedLoopsAreNestedAlike /\ LoopsHaveAShape /\ LoopsEndAfterLastUse

\* What the analysis says of the operations taken in another order.
IsAccepted(r) == r.status = "ok" /\ IsSpecified(r.cs)

Verdict(order) ==
  LET steps == FlattenSeq([pos \in 1 .. Max({0} \cup {Len(Loops(o)) : o \in DOMAIN program}) |->
                 [i \in DOMAIN order |-> <<order[i], pos>>]])
      Step(r, o, pos) == IF r.status # "ok" \/ pos > Len(Loops(o)) THEN r
                         ELSE RegisterLoop(r.cs, o, pos)
      After[k \in 0 .. Len(steps)] ==
        IF k = 0 THEN [status |-> "ok", cs |-> <<>>]
        ELSE Step(After[k - 1], steps[k][1], steps[k][2])
  IN  IsAccepted(After[Len(steps)])

AgreesWith(accepted) ==
  IF Fused THEN accepted
  ELSE accepted => \E o \in DOMAIN program : ~VerifySubDomains(program[o])

\* The analysis accepts or refuses, and whether loops can be fused does not
\* depend on the order of the operations.  No assertion of UnifyMapping fails
\* (the outer loops unify, as they did when they were registered; so does the
\* mapping once its constraints are resolved) and the constraints are only
\* accessed at dimensions of the operation.
VerdictIgnoresOrder ==
  /\ status \notin {"assertion", "out of bounds"}
  /\ status # "running" =>
       AgreesWith(Verdict(Reverse([o \in DOMAIN program |-> o])))

\* Each loop only iterates along a single sub-domain: the parallel dimensions
\* of an operation or the others; along the parallel ones if part of its range
\* is not specified.  Loops that do are accepted.
SubDomains(op) == {0 .. op.sub[1] - 1, op.sub[1] .. Len(op.domain) - 1}

LoopsStayInSubDomains ==
  \A o \in DOMAIN program :
    LET op == program[o]
    IN  status \in {"checking", "ok"} =>
          (VerifySubDomains(op) <=>
             \A i \in DOMAIN op.loops :
               \E s \in SubDomains(op) :
                 /\ DimsOf(op.loops[i].iter) \subseteq s
                 /\ HasNoneExprs(op.loops[i].iter) /\ DimsOf(op.loops[i].iter) # {} =>
                      s = 0 .. op.sub[1] - 1)

=============================================================================
