---------------------------- MODULE MCLoopFusion ----------------------------
EXTENDS LoopFusion

CONSTANT LongUnStripes   \* whether an iterator may have more factors than another

MCRange(v, n, es) == [v |-> v, m |-> MappingOf(n, es)]

\* No dimension, one, two independent, two of the same range, one that depends
\* on the other, unknown ranges (passes create domains of unknown ranges only).
MCDomains ==
  {<<>>, <<MCRange("R", 0, <<>>)>>, <<MCRange(Placeholder, 0, <<>>)>>,
   <<MCRange("R", 0, <<>>), MCRange("S", 1, <<>>)>>,
   <<MCRange("R", 0, <<>>), MCRange("R", 1, <<>>)>>,
   <<MCRange("R", 0, <<>>), MCRange("T", 1, <<Dim(0)>>)>>,
   <<MCRange(Placeholder, 0, <<>>), MCRange(Placeholder, 1, <<Dim(0)>>)>>}

MCIters ==
  {None, Dim(0), Dim(1)}
    \cup {Stripe(Dim(0), f) : f \in {<<4>>, <<4, 1>>}}
    \cup {UnStripe(<<Dim(0), e>>, <<4, 1>>) : e \in {Dim(1), None}}
    \cup (IF LongUnStripes THEN {UnStripe(<<Dim(0), Dim(1), None>>, <<4, 2, 1>>)} ELSE {})

MCLoops(names) ==
  {[i \in DOMAIN names |-> [name |-> names[i], iter |-> iters[i], unroll |-> 0]] :
     iters \in [DOMAIN names -> MCIters]}

\* The loops of an operation, A around B, B around A or one of them.
MCNests ==
  {<<>>} \cup UNION {MCLoops(names) : names \in {<<"A">>, <<"B">>, <<"A", "B">>, <<"B", "A">>}}
    \cup {<<[name |-> "A", iter |-> Dim(0), unroll |-> 2]>>}

MCSubs(n) == {<<n>>} \cup (IF n = 2 THEN {<<1, 1>>} ELSE {})

\* The loops of the operations passes create over unknown ranges iterate on
\* their dimensions as they are.
IsPointwise(nest) == \A i \in DOMAIN nest : nest[i].iter.op \in {"dim", "none"}

MCNestsOf(d) ==
  {nest \in MCNests : /\ VerifyLoopNestWellFormed([i \in DOMAIN d |-> d[i].m], nest)
                      /\ d # <<>> /\ Head(d).v = Placeholder => IsPointwise(nest)}

MCOps ==
  UNION {{[domain |-> d, loops |-> l, sub |-> s] : l \in MCNestsOf(d), s \in MCSubs(Len(d))} :
           d \in MCDomains}

\* The first loop of the first operation is A.
StartsWithA(op) == op.loops = <<>> \/ Head(op.loops).name = "A"

\* The operations that appear in threes: A, around B, over one range, one and
\* another that depends on it, or over none.
MCFewOps ==
  {op \in MCOps : /\ StartsWithA(op) /\ op.loops # <<>> /\ Head(op.loops).unroll = 0
                  /\ Len(op.sub) = 1 /\ Len(op.domain) <= 2
                  /\ \A i \in DOMAIN op.domain : op.domain[i].v \in {"R", "T", Placeholder}
                  /\ Len(op.domain) = 2 => op.domain[2].m.es # <<>>}

Placed(op, rank) == [domain |-> op.domain, sub |-> op.sub, loops |-> op.loops, rank |-> rank]

\* Block order and the order of the sequence agree, or are opposite.
MCPrograms ==
  {<<Placed(x, 1), Placed(y, 2)>> : x \in {op \in MCOps : StartsWithA(op)}, y \in MCOps}
    \cup {<<Placed(x, 3), Placed(y, 2), Placed(z, 1)>> :
            x \in MCFewOps, y \in MCFewOps, z \in MCFewOps}

=============================================================================
