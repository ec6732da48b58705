------------------------------ MODULE Rewrites ------------------------------
(***************************************************************************)
(* The rewrites of the operations of a program: the LowerMapReduce pass     *)
(* (transforms/lower_map_reduce.cc), the canonicalization patterns          *)
(* (canonicalization_patterns.cc), which the greedy driver applies in any   *)
(* order until none matches, and the InlineTrivialOps pass                  *)
(* (transforms/inline_trivial_ops.cc).                                      *)
(***************************************************************************)
EXTENDS SairProgram

CONSTANTS
  Programs,     \* sequences of operations; the last is the only exit
  MaxRewrites   \* more than any program takes

VARIABLES
  ir,
  phase,     \* the pass at hand: "lower", "canonicalize", "inline" or "done"
  results,   \* what replaced the results of the program, once it is inlined
  given,     \* what the program computed when it was given
  census     \* of a canonical form, once there are no reductions

vars == <<ir, phase, results, given, census>>

Indices(s) == [i \in DOMAIN s |-> i]
-----------------------------------------------------------------------------
(* An fby per result, which ties its initial value to the partial results,  *)
(* a map over the whole domain and a proj_last per result.                  *)
RewriteMapReduceToMap(s, o) ==
  LET op == s.ops[o]
      n == Len(op.body)
      names == FreshNames(s.ops, 2 * n + 1)
      map == names[n + 1]
      identity == Identity(Len(Domain(op)), Len(Domain(op)))
      fbys == [i \in 1 .. n |-> Op("fby", op.par, op.other,
                                   <<op.args[i], Access(map, i, identity)>>, <<>>)]
      newMap == Op("map", Domain(op), <<>>,
                   [i \in 1 .. n |-> Access(names[i], 1, identity)]
                     \o SubSeq(op.args, n + 1, Len(op.args)),
                   op.body)
      projs == [i \in 1 .. n |-> Op("proj_last", op.par, op.other,
                                    <<Access(map, i, identity)>>, <<>>)]
      created == fbys \o <<newMap>> \o projs
      replaced == ReplaceAllUsesWith(WithOps(s.ops, names, created), o, SubSeq(names, n + 2, 2 * n + 1))
  IN  [ops |-> Without(replaced, {o}), order |-> InPlaceOf(s.order, o, names)]

MapReduces(s) == SelectSeq(s.order, LAMBDA o : s.ops[o].kind = "map_reduce")

(* The pass walks the operations in the order of the block.                 *)
LowerMapReduce ==
  /\ phase = "lower" /\ MapReduces(ir) # <<>>
  /\ ir' = RewriteMapReduceToMap(ir, Head(MapReduces(ir)))
  /\ UNCHANGED <<phase, results, given, census>>

-----------------------------------------------------------------------------
(* SimplifySairOperands.                                                    *)

ExtendWithIdentity(m, domainSize, newSize) ==
  MappingOf(domainSize,
            [i \in 1 .. newSize |-> IF i <= Size(m) THEN m.es[i] ELSE Dim(i - 1)])

(* A faulty FlattenProj: the new projection reads what the old one reads.   *)
CopyProj(proj, prev) == Op(proj.kind, proj.par, proj.other, proj.args, <<>>)

(* A projection that does what proj does of the projection prev.            *)
FlattenProj(proj, prev) ==
  LET read == prev.args[1]
      m == ExtendWithIdentity(proj.args[1].m, Len(Domain(proj)) + Len(prev.other),
                              Len(Domain(prev)))
  IN  Op(proj.kind, proj.par, proj.other \o prev.other,
         <<Access(read.v, read.r, Compose(m, read.m))>>, <<>>)

SimplifyProjOp(s, o, pos) ==
  LET use == s.ops[o].args[pos]
      proj == s.ops[use.v]
      prev == s.ops[proj.args[1].v]
      new == FreshNames(s.ops, 1)[1]
  IN  IF proj.other = <<>>
      THEN [s EXCEPT !.ops[o].args[pos] = SubstituteValue(use, proj.args[1])]
      ELSE IF prev.kind # proj.kind THEN s
      ELSE [ops |-> [WithOps(s.ops, <<new>>, <<FlattenProj(proj, prev)>>)
                       EXCEPT ![o].args[pos] = Access(new, 1, use.m)],
            order |-> InPlaceOf(s.order, use.v, <<new, use.v>>)]

SimplifyFbyOp(s, o, pos) ==
  LET use == s.ops[o].args[pos]
      fby == s.ops[use.v]
  IN  IF fby.other # <<>> THEN s
      ELSE [s EXCEPT !.ops[o].args[pos] = SubstituteValue(use, fby.args[1])]

SimplifyOperand(s, o, pos) ==
  LET def == s.ops[s.ops[o].args[pos].v]
      simplified == CASE IsProj(def)        -> SimplifyProjOp(s, o, pos)
                      [] def.kind = "fby"   -> SimplifyFbyOp(s, o, pos)
                      [] OTHER              -> s
  IN  [simplified EXCEPT !.ops[o].args[pos].m = Canonicalize(@)]

SimplifySairOperands(s, o) ==
  FoldLeft(LAMBDA t, pos : SimplifyOperand(t, o, pos), s, Indices(s.ops[o].args))
-----------------------------------------------------------------------------
(* DeduplicateMapInputsOutputs.  A body is pure, so an argument is used if  *)
(* a result is computed from it.                                            *)

IsRead(body, pos) == \E i \in DOMAIN body : pos \in ToSet(body[i].xs)

Rank(kept, x) == Cardinality({y \in kept : y <= x})

KeepIndices(s, kept) == [i \in 1 .. Cardinality(kept) |-> s[SetToSortSeq(kept, <)[i]]]

(* A faulty IsSameAccess: the mappings are not compared.                    *)
IsSameValue(a, b) == a.v = b.v /\ a.r = b.r

IsSameAccess(a, b) == a = b

(* The arguments that repeat an earlier one are replaced by it in the body. *)
DeduplicateInput(args, body, pos) ==
  LET earlier == {j \in 1 .. pos - 1 : IsSameAccess(args[j], args[pos]) /\ IsRead(body, j)}
  IN  IF earlier = {} THEN body
      ELSE [i \in DOMAIN body |->
              [body[i] EXCEPT !.xs = [k \in DOMAIN @ |-> IF @[k] = pos THEN Min(earlier) ELSE @[k]]]]

DeduplicateInputs(op) ==
  LET body == FoldLeft(LAMBDA b, pos : DeduplicateInput(op.args, b, pos), op.body,
                       Indices(op.args))
      kept == {pos \in DOMAIN op.args : IsRead(body, pos)}
  IN  [op EXCEPT !.args = KeepIndices(op.args, kept),
                 !.body = [i \in DOMAIN body |->
                             [body[i] EXCEPT !.xs = [k \in DOMAIN @ |-> Rank(kept, @[k])]]]]

(* The uses of a result that repeats an earlier one move to that one, but   *)
(* not to one that has no use and is about to be dropped.                   *)
DeduplicateResult(ops, o, r) ==
  LET body == ops[o].body
      earlier == {j \in 1 .. r - 1 : body[j] = body[r] /\ NumUses(ops, o, j) > 0}
  IN  IF earlier = {} THEN ops
      ELSE MapArgs(ops, LAMBDA a : IF a.v = o /\ a.r = r THEN [a EXCEPT !.r = Min(earlier)] ELSE a)

DeduplicateResults(ops, o) ==
  LET moved == FoldLeft(LAMBDA t, r : DeduplicateResult(t, o, r), ops, Indices(ops[o].body))
      kept == {r \in DOMAIN ops[o].body : NumUses(moved, o, r) > 0}
  IN  MapArgs([moved EXCEPT ![o].body = KeepIndices(@, kept)],
              LAMBDA a : IF a.v = o THEN [a EXCEPT !.r = Rank(kept, @)] ELSE a)

(* A faulty DeduplicateMapInputsOutputs: unless both inputs and results can *)
(* be removed, nothing is.                                                  *)
DeduplicateBoth(s, o) ==
  LET t == [s EXCEPT !.ops = DeduplicateResults([@ EXCEPT ![o] = DeduplicateInputs(@)], o)]
  IN  IF \/ s.ops[o].kind # "map"
         \/ Len(t.ops[o].args) = Len(s.ops[o].args)
         \/ Len(t.ops[o].body) = Len(s.ops[o].body)
      THEN s ELSE t

DeduplicateMapInputsOutputs(s, o) ==
  IF s.ops[o].kind # "map" THEN s
  ELSE [s EXCEPT !.ops = DeduplicateResults([@ EXCEPT ![o] = DeduplicateInputs(@)], o)]
-----------------------------------------------------------------------------
(* The patterns of sair.fby and of the projections.                         *)

IsCyclicFby(s, o) ==
  LET op == s.ops[o]
      size == Len(Domain(op))
  IN  op.kind = "fby" /\ op.args[2].v = o /\ op.args[2].m = Identity(size, size)

RemoveCyclicFby(s, o) ==
  IF ~ IsCyclicFby(s, o) THEN s
  ELSE EraseOp([s EXCEPT !.ops = UpdateValueUses(s.ops, o, s.ops[o].args[1])], o)

UsedDimensions(op) == UNION {DependencyMask(op.args[i].m) : i \in DOMAIN op.args}

HasUnreferencedDims(op) ==
  /\ op.kind = "fby" \/ IsProj(op)
  /\ UsedDimensions(op) # 0 .. Len(Domain(op)) - 1

(* RemoveUnusedDomainDimensions: from the old dimensions to those in use.   *)
UsedDomainMapping(op) ==
  MappingOf(Len(Domain(op)),
            [i \in 1 .. Cardinality(UsedDimensions(op)) |->
               Dim(SetToSortSeq(UsedDimensions(op), <)[i])])

ReCreateWithNewDomain(op, m) ==
  LET kept == {d + 1 : d \in UsedDimensions(op)}
      rank == Len(op.par)
  IN  [op EXCEPT !.par = KeepIndices(@, {d \in kept : d <= rank}),
                 !.other = KeepIndices(@, {d - rank : d \in {x \in kept : x > rank}}),
                 !.args = [i \in DOMAIN @ |->
                             [@[i] EXCEPT !.m = Compose(InverseOf(m), @)]]]

(* A faulty ResultMapping: the one of the whole domain, for projections too. *)
WholeMapping(op, m) == m

(* From the old dimensions of the result to the new ones.                   *)
ResultMapping(op, m) ==
  IF op.kind = "fby" THEN m
  ELSE Resize(m, Cardinality({d \in UsedDimensions(op) : d < Len(op.par)}))

(* The new operation takes the name of the old one, whose uses, those in    *)
(* the new operation included, are redirected.                              *)
RemoveUnreferencedDims(s, o) ==
  LET op == s.ops[o]
      m == UsedDomainMapping(op)
  IN  IF ~ HasUnreferencedDims(op) THEN s
      ELSE [s EXCEPT !.ops = UpdateValueUses([@ EXCEPT ![o] = ReCreateWithNewDomain(op, m)],
                                             o, Access(o, 1, ResultMapping(op, m)))]

(* The operations without side effects; sair.map is not declared as one.    *)
IsPure(op) == op.kind = "from_scalar" \/ op.kind = "fby" \/ IsProj(op)

(* The greedy driver erases operations without effects and without uses.    *)
EraseDead(s, o) == IF IsPure(s.ops[o]) /\ IsUnused(s.ops, o) THEN EraseOp(s, o) ELSE s
-----------------------------------------------------------------------------
(* The driver applies a pattern where it changes something.                 *)
Apply(rewritten) ==
  /\ phase = "canonicalize"
  /\ rewritten # ir
  /\ ir' = rewritten
  /\ UNCHANGED <<phase, results, given, census>>

Patterns(s, o) ==
  <<SimplifySairOperands(s, o), DeduplicateMapInputsOutputs(s, o), RemoveCyclicFby(s, o),
    RemoveUnreferencedDims(s, o), EraseDead(s, o)>>

(* Where the driver ends if it takes, each time, the first pattern of the   *)
(* first operation that changes something.                                  *)
RECURSIVE NormalForm(_, _)
NormalForm(s, rewrites) ==
  LET open == SelectSeq(s.order, LAMBDA o : ToSet(Patterns(s, o)) # {s})
  IN  IF open = <<>> \/ rewrites = 0 THEN s
      ELSE NormalForm(SelectSeq(Patterns(s, Head(open)), LAMBDA t : t # s)[1], rewrites - 1)

(* How many operations of which kind, over which domains, there are.        *)
Census(s) ==
  LET Signature(op) == <<op.kind, op.par, op.other, Len(op.args), NumResults(op)>>
      signatures == {Signature(s.ops[o]) : o \in DOMAIN s.ops}
  IN  [g \in signatures |-> Cardinality({o \in DOMAIN s.ops : Signature(s.ops[o]) = g})]

FinishLowering ==
  /\ phase = "lower" /\ MapReduces(ir) = <<>>
  /\ phase' = "canonicalize"
  /\ census' = Census(NormalForm(ir, MaxRewrites))
  /\ UNCHANGED <<ir, results, given>>
FinishCanonicalization ==
  /\ phase = "canonicalize"
  /\ \A o \in DOMAIN ir.ops : ToSet(Patterns(ir, o)) = {ir}
  /\ phase' = "inline"
  /\ UNCHANGED <<ir, results, given, census>>
-----------------------------------------------------------------------------
(* InlineTrivialOps.                                                        *)

IsTrivialSairMap(ops, o) ==
  /\ ops[o].kind = "map" /\ ops[o].par = <<>>
  /\ \A i \in DOMAIN ops[o].args : ops[ops[o].args[i].v].kind = "from_scalar"

TrivialOps == SelectSeq(ir.order, LAMBDA o : IsTrivialSairMap(ir.ops, o))

HasOneUse(ops, v) == NumUses(ops, v, 1) = 1

(* The body is moved before the program, its results are wrapped, and the   *)
(* scalars it was the last to use are erased.                               *)
InlineOp(o) ==
  LET op == ir.ops[o]
      Scalar(pos) == ir.ops[op.args[pos].v].body
      names == FreshNames(ir.ops, Len(op.body))
      created == [r \in DOMAIN op.body |->
                    Op("from_scalar", <<>>, <<>>, <<>>,
                       <<op.body[r].f, <<>>,
                         [k \in DOMAIN op.body[r].xs |-> Scalar(op.body[r].xs[k])]>>)]
      replaced == ReplaceAllUsesWith(WithOps(ir.ops, names, created), o, names)
      erased == {v \in {op.args[pos].v : pos \in DOMAIN op.args} : HasOneUse(replaced, v)}
                  \cup {o}
  IN  [ops |-> Without(replaced, erased),
       order |-> SelectSeq(InPlaceOf(ir.order, o, names), LAMBDA x : x \notin erased)]

InlineTrivialSairOp ==
  /\ phase = "inline" /\ TrivialOps # <<>>
  /\ ir' = InlineOp(Head(TrivialOps))
  /\ UNCHANGED <<phase, results, given, census>>

(* "A sair.program operation is trivial if it only contains sair.from_scalar *)
(* operations apart from its terminator."  Its results are then the scalars. *)
IsTrivialProgram == \A o \in ToSet(Front(ir.order)) : ir.ops[o].kind = "from_scalar"

InlineProgram ==
  /\ phase = "inline" /\ TrivialOps = <<>> /\ IsTrivialProgram
  /\ LET exit == ir.ops[Last(ir.order)]
     IN  results' = [i \in DOMAIN exit.args |-> ir.ops[exit.args[i].v].body]
  /\ ir' = [ir EXCEPT !.ops = <<>>, !.order = <<>>]
  /\ phase' = "done"
  /\ UNCHANGED <<given, census>>

KeepProgram ==
  /\ phase = "inline" /\ TrivialOps = <<>> /\ ~ IsTrivialProgram
  /\ phase' = "done"
  /\ UNCHANGED <<ir, results, given, census>>

Done == phase = "done" /\ UNCHANGED vars
-----------------------------------------------------------------------------
Init ==
  /\ \E p \in Programs : ir = [ops |-> p, order |-> Indices(p)]
  /\ phase = "lower"
  /\ results = <<>>
  /\ given = Outcomes(ir)
  /\ census = <<>>

Next ==
  \/ LowerMapReduce
  \/ FinishLowering
  \/ \E o \in DOMAIN ir.ops : Apply(SimplifySairOperands(ir, o))
  \/ \E o \in DOMAIN ir.ops : Apply(DeduplicateMapInputsOutputs(ir, o))
  \/ \E o \in DOMAIN ir.ops : Apply(RemoveCyclicFby(ir, o))
  \/ \E o \in DOMAIN ir.ops : Apply(RemoveUnreferencedDims(ir, o))
  \/ \E o \in DOMAIN ir.ops : Apply(EraseDead(ir, o))
  \/ FinishCanonicalization
  \/ InlineTrivialSairOp
  \/ InlineProgram
  \/ KeepProgram
  \/ Done

(* Weak fairness of Next, which is enabled until all is done: the greedy    *)
(* driver and the loops of the passes go on while there is something to do. *)
Fairness == []<>(phase = "done") \/ []<><<TRUE>>_vars

Spec == Init /\ [][Next]_vars /\ Fairness
-----------------------------------------------------------------------------
(* Properties.                                                             *)

IsInlined == ir.order = <<>>

(* What VerifySairOp requires holds after every rewrite: operands are       *)
(* defined, mappings are from the domain of their operation, are valid and  *)
(* give the shape of the value, and initial values do not depend on the     *)
(* dimensions they are carried along.                                       *)
IRVerifies ==
  /\ ToSet(ir.order) = DOMAIN ir.ops
  /\ \A o \in DOMAIN ir.ops : VerifySairOp(ir.ops, o)

(* No order of rewrites changes what the program returns: every outcome is  *)
(* one it had when it was given ("the last value of `value`", sair_ops.td   *)
(* :660, for the sair.fby that stand for a reduction).                      *)
OutcomeIsKept ==
  LET now == IF IsInlined THEN [i \in DOMAIN results |-> {results[i]}] ELSE Outcomes(ir)
  IN  /\ DOMAIN now = DOMAIN given
      /\ \A i \in DOMAIN now : now[i] # {} /\ now[i] \subseteq given[i]

(* The canonical form does not depend on the order in which the greedy      *)
(* driver meets operations and patterns.                                    *)
RewritesAreConfluent ==
  [][phase = "canonicalize" /\ phase' # phase => Census(ir) = census]_vars

(* Patterns enable one another but not forever, and inlining one operation  *)
(* at a time ends.                                                          *)
Terminates == <>(phase = "done")
=============================================================================
