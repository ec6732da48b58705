--------------------------- MODULE MCMappingCalls ---------------------------
EXTENDS MappingCalls

MCLeaves == {Dim(0), Dim(1), None, Unknown}

MCFactors == {<<2>>, <<4>>, <<2, 1>>, <<4, 2>>, <<4, 1>>, <<4, 2, 1>>}

MCStripes == {Stripe(Dim(0), f) : f \in MCFactors}

MCUnStripes ==
  {UnStripe(es, <<2, 1>>) : es \in [1..2 -> MCLeaves \ {Unknown}]}
    \cup {UnStripe(<<Dim(0), e>>, <<4, 1>>) : e \in MCLeaves}
    \cup {UnStripe(<<Dim(0), Dim(1), None>>, <<4, 2, 1>>)}

IsValid(m) == DependencyMask(m) \subseteq 0..m.n - 1 /\ VerifyMappingExprs(m)

\* One expression of any kind, or two: leaves, stripes, a leaf and a stripe.
MCMappings ==
  {m \in {MappingOf(n, <<e>>) : n \in 1..2, e \in MCLeaves \cup MCStripes \cup MCUnStripes}
         \cup {MappingOf(2, <<e1, e2>>) : e1 \in MCLeaves, e2 \in MCLeaves \cup MCStripes}
         \cup {MappingOf(1, <<e1, e2>>) : e1 \in MCStripes, e2 \in MCStripes} :
     IsValid(m)}

\* Loop nests of up to three loops over a domain of two dimensions.
MCLoops == {Dim(1), None} \cup {Stripe(Dim(0), f) : f \in MCFactors \ {<<2>>, <<2, 1>>}}

MCLoopNests ==
  {m \in {MappingOf(2, es) : es \in UNION {[1..k -> MCLoops] : k \in 0..3}} : IsValid(m)}

MCAllMappings == MCMappings \cup MCLoopNests

=============================================================================
