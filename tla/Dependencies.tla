---------------------------- MODULE Dependencies ----------------------------
(***************************************************************************)
(* The dependencies between the loops of a program (loop_nest.cc): what    *)
(* using a value requires of the loops around its user                     *)
(* (LoopNestConstraintsAnalysis), and the checks of VerifyLoopNests that   *)
(* rest on it.  Dimensions are static ranges: they constrain nothing.      *)
(***************************************************************************)
EXTENDS IterationSpaces

\* The dimensions that need the operand, and those that must finish before the
\* results are used.
DependingDims(op, arg) ==
  IF \/ op.kind \in {"fby", "from_memref", "to_memref"} /\ arg = 1
     \/ op.kind = "map_reduce" /\ arg <= op.inits
  THEN op.parallel .. op.domain - 1 ELSE {}

ResultsDimDependencies(op) ==
  IF op.kind = "proj" THEN op.parallel .. op.domain - 1 ELSE {}

NoConstraints == [open |-> {}, closed |-> {}, dims |-> {}]

\* Dimensions of the user that a mapping makes depend on the given ones.
MapDims(m, dims) == UNION {DimsOf(m.es[d + 1]) : d \in {k \in dims : k < Size(m)}}

\* inherit_constraints for one operand.
Inherit(constraints, op, arg, parent) ==
  LET dims == constraints.dims \cup MapDims(op.args[arg].m, parent.dims)
  IN  IF AllowUseBeforeDef(op, arg) THEN [constraints EXCEPT !.dims = dims]
      ELSE [open |-> constraints.open \cup parent.open,
            closed |-> constraints.closed \cup parent.closed,
            dims |-> dims]

\* The constraints of the operation's own loops: a loop on a dimension that
\* must finish is closed, and all dimensions from the first such loop on are.
OwnConstraints(op, space, inherited) ==
  LET iter_dims(l) == DimsOf(space.mapping.es[l])
      loops == DOMAIN space.names
      must_close == {l \in loops : iter_dims(l) \cap ResultsDimDependencies(op) # {}}
  IN  [open |-> inherited.open \cup ToSet(space.names),
       closed |-> inherited.closed \cup {space.names[l] : l \in must_close},
       dims |-> inherited.dims \cup
                  UNION {iter_dims(l) : l \in {k \in loops : \E c \in must_close : c <= k}}]

\* ComputeConstraints: the constraints known once those of operation o are.  No
\* constraints stand for o while those of its operands are computed.
RECURSIVE ComputeConstraints(_, _, _, _)
ComputeConstraints(p, spaces, o, known) ==
  LET op == p[o]
      inherit(acc, arg) ==
        LET after == ComputeConstraints(p, spaces, op.args[arg].v[1], acc.known)
        IN  [known |-> after,
             constraints |-> Inherit(acc.constraints, op, arg, after[op.args[arg].v[1]])]
      inherited ==
        IF IsCompute(op) THEN [known |-> known, constraints |-> NoConstraints]
        ELSE FoldLeft(inherit, [known |-> (o :> NoConstraints) @@ known,
                                constraints |-> NoConstraints],
                      [a \in DOMAIN op.args |-> a])
  IN  IF o \in DOMAIN known THEN known
      ELSE (o :> OwnConstraints(op, spaces[o], inherited.constraints)) @@ inherited.known

ConstraintsAnalysis(p, spaces) ==
  FoldLeft(LAMBDA known, o : ComputeConstraints(p, spaces, o, known), <<>>,
           [o \in DOMAIN p |-> o])

----------------------------------------------------------------------------
(* The checks.                                                             *)

\* VerifyLoopsOpen: the loops the operands are computed in are open at the
\* operation or were closed before it.
VerifyLoopsOpen(p, spaces, constraints, o) ==
  \A a \in DOMAIN p[o].args : \A loop \in constraints[p[o].args[a].v[1]].open :
    \E k \in 1..o : IsCompute(p[k]) /\ loop \in ToSet(spaces[k].names)

\* VerifyDependency: the mapping of an operand can be translated, ...
DomainMapping(p, o, arg) ==
  ResizeUseDomain(Resize(p[o].args[arg].m, p[p[o].args[arg].v[1]].domain), p[o].domain)

CanTranslate(p, spaces, o, arg) ==
  ~Fails(TranslateMapping(spaces[o], spaces[p[o].args[arg].v[1]], DomainMapping(p, o, arg)))

\* ... the operation is in no loop the operand wants closed, and the operand
\* in none whose dimension depends on it, ...
LoopsAllow(p, spaces, constraints, o, arg) ==
  \A l \in DOMAIN spaces[o].names :
    LET required == constraints[p[o].args[arg].v[1]]
    IN  /\ spaces[o].names[l] \notin required.closed
        /\ spaces[o].names[l] \in required.open =>
             DependingDims(p[o], arg) \cap DimsOf(spaces[o].mapping.es[l]) = {}

\* ... and a previous value is not taken along a closed dimension.
CarriesOpenDims(p, constraints, o, arg) ==
  MapDims(p[o].args[arg].m, constraints[p[o].args[arg].v[1]].dims)
    \cap CarryingDims(p[o], arg) = {}

VerifyDependencies(p, spaces, constraints, o) ==
  \A a \in DOMAIN p[o].args :
    /\ CanTranslate(p, spaces, o, a)
    /\ LoopsAllow(p, spaces, constraints, o, a)
    /\ CarriesOpenDims(p, constraints, o, a)

SatisfiesDependencies(p, spaces) ==
  LET constraints == ConstraintsAnalysis(p, spaces)
  IN  \A o \in DOMAIN p :
        /\ IsCompute(p[o]) => VerifyLoopsOpen(p, spaces, constraints, o)
        /\ VerifyDependencies(p, spaces, constraints, o)

====
