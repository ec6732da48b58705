----------------------------- MODULE MCRewrites -----------------------------
EXTENDS Rewrites

CONSTANTS
  InvariantFby,   \* whether an fby may ignore a dimension it carries along
  LooseChains     \* whether projections of projections may ignore dimensions

MCSizes == {2, 3}
MCDomains(k) == UNION {[1 .. n -> MCSizes] : n \in 0 .. k}

\* Domains split into the parallel dimensions and the others.
MCSplits(k) == UNION {{<<SubSeq(d, 1, i), SubSeq(d, i + 1, Len(d))>> : i \in 0 .. Len(d)} :
                        d \in MCDomains(k)}

\* The mappings from a domain to a shape: each dimension at most once.
MCMappings(domain, shape) ==
  {m \in {MappingOf(Len(domain), [i \in DOMAIN shape |-> Dim(g[i])]) :
            g \in [DOMAIN shape -> 0 .. Len(domain) - 1]} :
     Cardinality(DependencyMask(m)) = Len(shape) /\ AccessedSizes(domain, m) = shape}

MCScalar == Op("from_scalar", <<>>, <<>>, <<>>, <<"s", <<>>, <<>>>>)
MCSource(d) == Op("map", d, <<>>, <<Access(1, 1, MappingOf(Len(d), <<>>))>>,
                  <<[f |-> "a", xs |-> <<1>>]>>)

\* The exit returns results of o through projections if they are not 0-d.
MCExit(ops, rs, kind) ==
  LET shape == ResultShape(Last(ops))
      n == Len(ops)
      m == MappingOf(0, <<>>)
  IN  IF shape = <<>>
      THEN Append(ops, Op("exit", <<>>, <<>>, [i \in DOMAIN rs |-> Access(n, rs[i], m)], <<>>))
      ELSE ops \o [i \in DOMAIN rs |->
                     Op(kind, <<>>, shape,
                        <<Access(n, rs[i], Identity(Len(shape), Len(shape)))>>, <<>>)]
               \o <<Op("exit", <<>>, <<>>, [i \in DOMAIN rs |-> Access(n + i, 1, m)], <<>>)>>

\* The projections of value o, of a given shape.
MCProjections(o, shape, splits) ==
  UNION {UNION {{Op(kind, s[1], s[2], <<Access(o, 1, m)>>, <<>>) :
                   m \in MCMappings(s[1] \o s[2], shape)} : s \in splits} :
           kind \in {"proj_last", "proj_any"}}

\* Domains of up to two dimensions, one of which may be ignored.
MCNear(shape) == {s \in MCSplits(2) : Len(s[1]) + Len(s[2]) <= Len(shape) + 1}

\* Domains with the dimensions of the shape, in any order.
MCPermuted(shape) ==
  UNION {{<<SubSeq(d, 1, i), SubSeq(d, i + 1, Len(d))>> : i \in 0 .. Len(d)} :
           d \in {[i \in DOMAIN shape |-> shape[g[i]]] :
                    g \in {h \in [DOMAIN shape -> DOMAIN shape] :
                             Cardinality({h[i] : i \in DOMAIN h}) = Len(shape)}}}

\* Chains of projections.  Those of one kind are flattened, and then do not
\* ignore dimensions (unless LooseChains).
IgnoresDims(op) == UsedDimensions(op) # 0 .. Len(Domain(op)) - 1

MCIsChain(ops) ==
  LET projs == {i \in DOMAIN ops : IsProj(ops[i])}
  IN  LooseChains \/ Cardinality({ops[i].kind : i \in projs}) = Cardinality(projs)
        \/ \A i \in projs : ~ IgnoresDims(ops[i])

MCChains ==
  {p \in UNION {UNION {{MCExit(<<MCScalar, MCSource(d), x, y>>, <<1>>, kind) :
                            kind \in {"proj_last", "proj_any"}, y \in MCProjections(3, x.par, MCNear(x.par))} :
                           x \in MCProjections(2, d, MCNear(d))} :
                    d \in MCDomains(2)} : MCIsChain(p)}

MCDeepChains ==
  LET d == <<2, 3, 4>>
  IN  UNION {{MCExit(<<MCScalar, MCSource(d), x, y>>, <<1>>, "proj_any") :
                y \in MCProjections(3, x.par, MCPermuted(x.par))} :
             x \in MCProjections(2, d, MCPermuted(d))}

\* A reduction with one or two results, which may depend on one another.
MCBodies ==
  {<<[f |-> "f", xs |-> <<1, 2>>]>>, <<[f |-> "f", xs |-> <<2>>]>>,
   <<[f |-> "f", xs |-> <<2, 3>>], [f |-> "g", xs |-> <<1>>]>>,
   <<[f |-> "f", xs |-> <<1, 3>>], [f |-> "f", xs |-> <<1, 3>>]>>}

MCReductions ==
  UNION {UNION {{MCExit(<<MCScalar, MCSource(d),
                          Op("map_reduce", s[1], s[2],
                             [i \in 1 .. Len(body) |-> Access(1, 1, MappingOf(Len(s[1] \o s[2]), <<>>))]
                               \o <<Access(2, 1, m)>>, body)>>,
                        Indices(body), "proj_any") :
                   m \in MCMappings(s[1] \o s[2], d)} :
                  s \in {x \in MCSplits(2) : Len(x[1]) + Len(x[2]) >= Len(d)}, body \in MCBodies} :
           d \in MCDomains(1)}

\* Followed-by operations: of the scalar and the source, of themselves, or of a
\* map that may read them.
MCReads(domain, d) ==
  {Access(1, 1, MappingOf(Len(domain), <<>>))} \cup {Access(2, 1, m) : m \in MCMappings(domain, d)}

MCSelf(o, domain) == Access(o, 1, Identity(Len(domain), Len(domain)))

MCIsFby(op) ==
  /\ DependencyMask(op.args[1].m) \cap DimsDependingOnOperand(op, 1) = {}
  /\ InvariantFby \/ DimsDependingOnOperand(op, 1) \subseteq DependencyMask(op.args[2].m)

MCFbyOps(s, d) ==
  {op \in {Op("fby", s[1], s[2], <<init, value>>, <<>>) :
             init \in MCReads(s[1] \o s[2], d),
             value \in MCReads(s[1] \o s[2], d) \cup {MCSelf(o, s[1] \o s[2]) : o \in {3, 4}}} :
     MCIsFby(op)}

MCFbyBodies == {<<[f |-> "f", xs |-> xs]>> : xs \in {<<1>>, <<2, 1>>, <<2>>}}

MCFbys ==
  UNION {UNION {IF op.args[2].v = 4
                THEN {MCExit(<<MCScalar, MCSource(d), op,
                               Op("map", Domain(op), <<>>, <<MCSelf(3, Domain(op)), a>>, body)>>,
                             <<1>>, "proj_last") :
                        a \in MCReads(Domain(op), d), body \in MCFbyBodies}
                ELSE {MCExit(<<MCScalar, MCSource(d), op>>, <<1>>, kind) :
                        kind \in {"proj_last", "proj_any"}} :
                op \in MCFbyOps(s, d)} :
         s \in MCSplits(2), d \in MCDomains(1)}

\* A map whose inputs and results may repeat one another or not be used.
MCMapBodies ==
  {<<[f |-> "f", xs |-> xs], [f |-> g, xs |-> ys]>> :
     g \in {"f", "g"}, xs \in {<<1, 2>>, <<2>>}, ys \in {<<1, 2>>, <<1, 3>>, <<3>>}}

MCMaps ==
  UNION {{MCExit(<<MCScalar, MCSource(d), Op("map", domain, <<>>, args, body)>>, rs, "proj_any") :
            args \in [1 .. 3 -> MCReads(domain, d)], body \in MCMapBodies,
            rs \in {<<1>>, <<2, 1>>}} :
         domain \in {<<>>, <<2>>, <<2, 2>>}, d \in {<<>>, <<2>>}}

\* The same, where a projection over nothing gives the source a second name.
MCAliases ==
  {MCExit(<<MCScalar, MCSource(<<2>>),
            Op("proj_any", <<2>>, <<>>, <<Access(2, 1, Identity(1, 1))>>, <<>>),
            Op("map", <<2>>, <<>>, [i \in 1 .. 3 |-> Access(vs[i], 1, Identity(1, 1))], body)>>,
          rs, "proj_last") :
     vs \in [1 .. 3 -> {2, 3}], body \in MCMapBodies, rs \in {<<1>>, <<2, 1>>}}

MCPrograms == MCChains \cup MCDeepChains \cup MCReductions \cup MCFbys \cup MCMaps
                \cup MCAliases
=============================================================================
