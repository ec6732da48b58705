-------------------------- MODULE MCDefaultStorage --------------------------
(***************************************************************************)
(* DefaultStorage on families of small programs: a producer and a user, a  *)
(* loop-carried value and its last element, a reduction, memrefs, and two  *)
(* values that share a buffer.                                             *)
(***************************************************************************)
EXTENDS DefaultStorage, LoopTree

Op(kind, domain, parallel, loops, args, attr) ==
  [kind |-> kind, domain |-> domain, parallel |-> parallel, loops |-> loops,
   args |-> args, attr |-> attr, inits |-> 0, buffer |-> NoName]

Arg(o, n, dims) == [v |-> <<o, 1>>, m |-> MappingOf(n, [i \in DOMAIN dims |-> Dim(dims[i])])]

\* The loops, outermost first, and the dimensions they iterate on.
Nest(names, dims) == [i \in DOMAIN names |-> [name |-> names[i], iter |-> Dim(dims[i])]]

Scalar == Op("from_scalar", 0, 0, <<>>, <<>>, <<NoAttr>>)
Map(loops, args, attr) == Op("map", Len(loops), Len(loops), loops, args, <<attr>>)

Names(loops) == [i \in DOMAIN loops |-> loops[i].name]

Layout(names, es) == [names |-> names, m |-> MappingOf(Len(names), es)]
Attr(space, name, layout) == [space |-> space, name |-> name, layout |-> layout]

InRegister == Attr(Register, NoName, Layout(<<>>, <<>>))

Layouts(loops) ==
  {NoLayout, Layout(<<>>, <<>>)}
    \cup {Layout(<<loops[i].name>>, <<Dim(0)>>) : i \in DOMAIN loops}
    \cup {Layout(<<loops[p[1]].name, loops[p[2]].name>>, <<Dim(0), Dim(1)>>) :
            p \in {q \in (DOMAIN loops) \X (DOMAIN loops) : q[1] # q[2]}}

Attrs(loops, names) ==
  {NoAttr, InRegister}
    \cup {Attr(Memory, name, layout) : name \in names, layout \in Layouts(loops)}

Fby(domain, parallel, init, value) ==
  Op("fby", domain, parallel, <<>>, <<init, value>>, <<NoAttr>>)
Proj(domain, parallel, arg) == Op("proj", domain, parallel, <<>>, <<arg>>, <<NoAttr>>)
FromMemRef(domain, memref, buffer) ==
  [Op("from_memref", domain, 0, <<>>, <<memref>>, <<NoAttr>>) EXCEPT !.buffer = buffer]
ToMemRef(domain, memref, value, buffer) ==
  [Op("to_memref", domain, 0, <<>>, <<memref, value>>, <<>>) EXCEPT !.buffer = buffer]
MapReduce(loops, parallel, inits, args, attr) ==
  [Op("map_reduce", Len(loops), parallel, loops, args, attr) EXCEPT !.inits = inits]

A0 == Nest(<<"A">>, <<0>>)
B0 == Nest(<<"B">>, <<0>>)
AB == Nest(<<"A", "B">>, <<0, 1>>)
BA == Nest(<<"A", "B">>, <<1, 0>>)
AC == Nest(<<"A", "C">>, <<0, 1>>)
EF == Nest(<<"E", "F">>, <<0, 1>>)
CD == Nest(<<"C", "D">>, <<0, 1>>)

\* A two-dimensional value and its user.
ProducerUser ==
  {<<Scalar, Map(AB, <<Arg(1, 2, <<>>)>>, a1), Map(l2, <<Arg(2, 2, dims)>>, a2)>> :
     l2 \in {AB, BA, AC, CD}, dims \in {<<0, 1>>, <<1, 0>>},
     a1 \in Attrs(AB, {"X"}), a2 \in {NoAttr, Attr(Memory, "X", NoLayout)}}

\* A loop-carried value over one parallel dimension, and its last element.
Carried ==
  {<<Map(li, <<>>, ai),
     Fby(2, 1, Arg(1, 2, <<0>>), Arg(3, 2, <<0, 1>>)),
     Map(lv, <<Arg(2, 2, <<0, 1>>)>>, av),
     Proj(2, 1, Arg(3, 2, <<0, 1>>)),
     Map(lu, <<Arg(4, 1, <<0>>)>>, au)>> :
     li \in {A0, Nest(<<"E">>, <<0>>)}, lv \in {AB, BA},
     lu \in {A0, Nest(<<"F">>, <<0>>)},
     ai \in {NoAttr, InRegister, Attr(Memory, "X", NoLayout), Attr(Memory, "Y", NoLayout)},
     av \in Attrs(AB, {"X"}), au \in {NoAttr, Attr(Memory, "Z", NoLayout)}}

\* Two producers that may share a buffer, each with its user.
SharedBuffer ==
  {<<Map(A0, <<>>, a1), Map(B0, <<Arg(1, 1, <<0>>)>>, a2),
     Map(Nest(<<"C">>, <<0>>), <<Arg(2, 1, <<0>>)>>, a3),
     Map(Nest(<<"D">>, <<0>>), <<Arg(3, 1, <<0>>)>>, NoAttr)>> :
     a1 \in Attrs(A0, {"X"}), a2 \in Attrs(B0, {"X", "Y"}),
     a3 \in {NoAttr, Attr(Memory, "X", NoLayout)}}

\* A value read from a memref goes through a map to another memref.
MemRefs ==
  UNION {{<<Scalar, FromMemRef(1, Arg(1, 1, <<>>), "M"),
            Map(A0, <<Arg(2, 1, <<0>>)>>, a1),
            Map(l2, <<Arg(3, 1, <<0>>)>>, a2),
            ToMemRef(1, Arg(1, 1, <<>>), Arg(4, 1, <<0>>), n)>> :
            n \in {"N", "M"}, a1 \in Attrs(A0, {"M", "X"}), a2 \in Attrs(l2, {"N"})} :
         l2 \in {A0, B0}}

\* A reduction and its user.
Reduction(nests, attrs) ==
  UNION {{<<Map(li, <<>>, ai),
            MapReduce(AB, 1, 1, <<Arg(1, 2, <<0>>)>>, <<ar>>),
            Map(lu, <<Arg(2, 1, <<0>>)>>, NoAttr)>> :
            lu \in {A0, Nest(<<"F">>, <<0>>)}, ar \in Attrs(AB, {"X"})} :
         li \in nests, ai \in attrs}

\* A producer, its user, and an operation that writes the same buffer before,
\* between or after them.
InMemory(loops) == {Attr(Memory, "X", layout) : layout \in Layouts(loops)}

Overwriting ==
  UNION {{InsertAt(<<Map(AB, <<>>, a1), Map(lu, <<Arg(IF k = 1 THEN 2 ELSE 1, 2, dims)>>, NoAttr)>>,
                 k, Map(lw, <<>>, aw)) :
            dims \in {<<0, 1>>, <<1, 0>>}, a1 \in InMemory(AB), aw \in InMemory(lw)} :
         lu \in {AB, AC, CD}, lw \in {AB, AC, CD, EF}, k \in 1..3}

\* The same around the operation v that computes a loop-carried value.
OverwritingCarried ==
  UNION {{InsertAt(<<Map(li, <<>>, NoAttr),
                     Fby(2, 1, Arg(1, 2, <<0>>), Arg(v, 2, <<0, 1>>)),
                     Map(lv, <<Arg(2, 2, <<0, 1>>)>>, av),
                     Proj(2, 1, Arg(v, 2, <<0, 1>>)),
                     Map(lu, <<Arg(5, 1, <<0>>)>>, NoAttr)>>,
                   7 - v, Map(lw, <<>>, aw)) :
            av \in InMemory(AB), aw \in InMemory(lw)} :
         li \in {A0, Nest(<<"E">>, <<0>>)}, lv \in {AB, BA}, v \in {3, 4},
         lu \in {A0, Nest(<<"F">>, <<0>>)}, lw \in {AB, AC, CD}}

\* A value declared in a register, without a layout, and read in another loop.
RegisterValues ==
  {<<Map(AB, <<>>, Attr(Register, NoName, NoLayout)), Map(lu, <<Arg(1, 2, <<0, 1>>)>>, NoAttr)>> :
     lu \in {AB, AC, CD}}

\* The result of a reduction is read in the loop that reduces.
ReductionUse ==
  {<<Map(A0, <<>>, NoAttr), MapReduce(AB, 1, 1, <<Arg(1, 2, <<0>>)>>, <<NoAttr>>),
     Map(AB, <<Arg(2, 2, <<0>>)>>, NoAttr)>>}

\* The compute operations run in block order and their nests form a tree.
HasLoopTree(p) ==
  LET ops == ComputeOps(p) IN IsTree([i \in DOMAIN ops |-> Names(p[ops[i]].loops)])

\* An operation updates a buffer in place without a layout.
UpdatesOpenly(p) ==
  \E o \in DOMAIN p : \E a \in DOMAIN p[o].args :
    LET operand == p[p[o].args[a].v[1]]
    IN  /\ p[o].kind = "map" /\ p[o].attr[1] # NoAttr
        /\ p[o].attr[1].layout = NoLayout
        /\ operand.attr[1] # NoAttr
        /\ operand.attr[1].name = p[o].attr[1].name

OpenUpdates == {p \in ProducerUser \cup SharedBuffer : HasLoopTree(p) /\ UpdatesOpenly(p)}

ReductionInits == Reduction({A0, Nest(<<"E">>, <<0>>)}, {NoAttr, Attr(Memory, "X", NoLayout)})

MCPrograms ==
  {p \in ProducerUser \cup Carried \cup SharedBuffer \cup MemRefs
          \cup Overwriting \cup OverwritingCarried
          \cup Reduction({A0}, {NoAttr}) :
     HasLoopTree(p) /\ ~UpdatesOpenly(p)}

====
